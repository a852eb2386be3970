--------------------------- MODULE MCAddressMarket ---------------------------
(* Small instances of AddressMarket for TLC. *)
EXTENDS AddressMarket

CONSTANT o1

\* Every account belongs to o1; no plugins, so the core's configuration stands still.
MCPreimage == [a \in Accounts |->
  [verifier |-> Zero, hook |-> Zero, owner |-> o1,
   timelock |-> MinEscapeTimelock, params |-> FALSE]]
=============================================================================

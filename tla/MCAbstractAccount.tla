-------------------------- MODULE MCAbstractAccount --------------------------
(* Small instances of AbstractAccount for TLC. *)
EXTENDS AbstractAccount

CONSTANTS a1, a2, o1, o2, v1, v2, h1

\* a1 is registered with a configured verifier and no hook, a2 with neither.
MCPreimage == [a \in Accounts |->
  [verifier |-> IF a = a1 THEN v1 ELSE Zero,
   hook |-> Zero,
   owner |-> o1,
   timelock |-> MinEscapeTimelock,
   params |-> a = a1]]
=============================================================================

----------------------------- MODULE AtomicSale -----------------------------
(***************************************************************************)
(* What the address market promises, with the escrow, the listings, the    *)
(* deposits and the callbacks left out: an account changes hands in one    *)
(* step, against its price, and nothing else ever moves an account or      *)
(* anybody's money.  A depositor's money counts as the depositor's.        *)
(***************************************************************************)
EXTENDS Integers

CONSTANTS Accounts, Owners, Zero, Prices, InitialGas

VARIABLES owner, wealth
saleVars == <<owner, wealth>>

Init ==
  /\ owner = [a \in Accounts |-> Zero]
  /\ wealth = [p \in Owners |-> InitialGas]

\* One owner registers one or several accounts.
Register ==
  \E o \in Owners, ids \in SUBSET {a \in Accounts : owner[a] = Zero} :
    /\ owner' = [a \in Accounts |-> IF a \in ids THEN o ELSE owner[a]]
    /\ UNCHANGED wealth

Sell(a, payer, newOwner, price) ==
  LET seller == owner[a] IN
  /\ seller # Zero
  /\ wealth[payer] >= price
  /\ owner' = [owner EXCEPT ![a] = newOwner]
  /\ wealth' = IF payer = seller
               THEN wealth
               ELSE [wealth EXCEPT ![payer] = @ - price, ![seller] = @ + price]

Next ==
  \/ Register
  \/ \E a \in Accounts, payer, newOwner \in Owners, price \in Prices :
       Sell(a, payer, newOwner, price)

Spec == Init /\ [][Next]_saleVars
=============================================================================

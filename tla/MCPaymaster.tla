----------------------------- MODULE MCPaymaster -----------------------------
(* Small instances of Paymaster for TLC. *)
EXTENDS Paymaster, TLC

CONSTANT o1, t1, f1

\* The accounts belong to o1 and have no plugins: the owner's witness authorises the operations.
MCPreimage == [a \in Accounts |->
  [verifier |-> Zero, hook |-> Zero, owner |-> o1,
   timelock |-> MinEscapeTimelock, params |-> FALSE]]

\* Sound: accounts and parties are alike.
NestingSymmetry == Permutations(Accounts) \cup Permutations(Parties)

MCCalls == {[target |-> t1, method |-> f1]}

Wildcard(most, day, total, until) ==
  [target |-> Zero, method |-> Zero, maxPerOp |-> most, dailyBudget |-> day,
   totalBudget |-> total, validUntil |-> until]

\* A day's budget that bites, and a policy with a total and an end but no day's budget.
MCPolicies == {Wildcard(1, 1, 3, 0), [Wildcard(2, 0, 2, 3) EXCEPT !.target = t1]}

\* A single payment exhausts it.
MCPolicy == {Wildcard(1, 1, 1, 0)}
=============================================================================

-------------------------- MODULE MCUserOpExecution --------------------------
(* Small instances of UserOpExecution for TLC. *)
EXTENDS UserOpExecution, TLC

CONSTANTS a1, o1, v1, h1

\* a1 starts with a hook and a verifier, the other accounts with nothing.
MCPreimage == [a \in Accounts |->
  [verifier |-> IF a = a1 THEN v1 ELSE Zero,
   hook |-> IF a = a1 THEN h1 ELSE Zero,
   owner |-> o1,
   timelock |-> IF a = a1 THEN MinEscapeTimelock ELSE MaxEscapeTimelock,
   params |-> FALSE]]

Plain(a) ==
  /\ \A s \in Slots : module[s][a] = Zero /\ pendingUpdate[s][a] = NoUpdate /\ pendingCall[s][a] = NoCall
  /\ escrow[a] = NoEscrow

\* Metadata, which no property here is about, stays unset.  Either a1 is alone, with modules that come
\* and go and a market, in one block and for one operation; or the other accounts nest their
\* operations, without modules; or they do so with a scope, in one block and each for one operation.
MCBound ==
  LET others == Accounts \ {a1}
      unscoped == \A a \in Accounts : scopeTarget[a] = Zero
      oneOperation(A) ==
        /\ now = 1 /\ \A a \in A, c \in Channels : nonce[a][c] <= 1
        /\ \A f \in Frames : f.op.deadline = now
  IN
  /\ \A a \in Accounts : ~metadataUri[a]
  /\ \/ /\ backupOwner[a1] = Zero /\ scopeTarget[a1] = Zero /\ \A a \in others : Plain(a)
        /\ unscoped \/ oneOperation(others)
     \/ /\ \A a \in others : backupOwner[a] = Zero
        /\ unscoped /\ oneOperation({a1})

MCSymmetry == Permutations(Accounts \ {a1})
=============================================================================

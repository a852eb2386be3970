--------------------------- MODULE GuardedRecovery ---------------------------
(***************************************************************************)
(* What social recovery promises, with tickets, nonces, nullifiers, oracle *)
(* requests and counters left out: an account gets a new owner only if a   *)
(* quorum of its factors voted for that owner, all under one configuration *)
(* and in one attempt, and only after the account's timelock, during which *)
(* the owner can call the attempt off.  What was voted in an attempt that  *)
(* is over never counts again.                                             *)
(***************************************************************************)
EXTENDS Integers, FiniteSets

CONSTANTS Accounts, Owners, Zero, RecoveryChoices

VARIABLES
  owner,     \* Zero: recovery is not set up
  config,    \* factors, threshold and timelock
  attempt,   \* for whom, the factors that voted, and from when it may be completed (0: no quorum)
  now
promiseVars == <<owner, config, attempt, now>>

NoAttempt == [newOwner |-> Zero, votes |-> {}, readyAt |-> 0]
Unset == [oracle |-> Zero, factors |-> {}, threshold |-> 0, timelock |-> 0]

Init ==
  /\ owner = [a \in Accounts |-> Zero]
  /\ config = [a \in Accounts |-> Unset]
  /\ attempt = [a \in Accounts |-> NoAttempt]
  /\ now = 1

SetUp(a) ==
  \E o \in Owners, c \in RecoveryChoices :
    /\ owner[a] = Zero
    /\ owner' = [owner EXCEPT ![a] = o]
    /\ config' = [config EXCEPT ![a] = c]
    /\ UNCHANGED <<attempt, now>>

Reconfigure(a) ==
  \E c \in RecoveryChoices :
    /\ owner[a] # Zero /\ attempt[a] = NoAttempt
    /\ config' = [config EXCEPT ![a] = c]
    /\ UNCHANGED <<owner, attempt, now>>

Vote(a) ==
  \E o \in Owners, f \in config[a].factors \ attempt[a].votes :
    LET votes == attempt[a].votes \cup {f} IN
    /\ attempt[a].newOwner \in {Zero, o} /\ attempt[a].readyAt = 0
    /\ attempt' = [attempt EXCEPT ![a] =
         [newOwner |-> o, votes |-> votes,
          readyAt |-> IF Cardinality(votes) < config[a].threshold THEN 0
                      ELSE now + config[a].timelock]]
    /\ UNCHANGED <<owner, config, now>>

CallOff(a) ==
  /\ attempt[a] # NoAttempt
  /\ attempt' = [attempt EXCEPT ![a] = NoAttempt]
  /\ UNCHANGED <<owner, config, now>>

Complete(a) ==
  /\ attempt[a].readyAt \in 1..now
  /\ owner' = [owner EXCEPT ![a] = attempt[a].newOwner]
  /\ attempt' = [attempt EXCEPT ![a] = NoAttempt]
  /\ UNCHANGED <<config, now>>

Tick == now' = now + 1 /\ UNCHANGED <<owner, config, attempt>>

Next ==
  \/ \E a \in Accounts : SetUp(a) \/ Reconfigure(a) \/ Vote(a) \/ CallOff(a) \/ Complete(a)
  \/ Tick

Spec == Init /\ [][Next]_promiseVars
=============================================================================

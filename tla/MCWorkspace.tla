----------------------------- MODULE MCWorkspace -----------------------------
(* Small instances of Workspace for TLC. *)
EXTENDS Workspace, TLC

Config(upstash, paymaster, unsponsored, total) ==
  [upstash |-> upstash, paymaster |-> paymaster, unsponsored |-> unsponsored,
   maxSystem |-> 0, maxNetwork |-> 1, maxTotal |-> total]

\* With a paymaster; and without store and paymaster, at the relay's own expense.
MCConfigs == {Config(TRUE, TRUE, FALSE, 0), Config(FALSE, FALSE, TRUE, 2)}

MCNoStore == {Config(FALSE, FALSE, TRUE, 2)}

\* One that stays below every ceiling, and one that is too much by their sum alone.
MCFees == {[system |-> 1, network |-> 1], [system |-> 2, network |-> 1]}

\* With a store, requests that overlap, about one invocation, on a draft opened by its link.
\* Without one they share nothing: one request at a time, about two invocations, while the
\* draft is composed and persisted; submissions that overlap, about one invocation and before
\* the draft is persisted.
MCBound ==
  LET active == {i \in Calls : call[i] # NoCall} IN
  IF config.upstash
  THEN /\ surface = "view" /\ Len(issued) <= 1
       /\ body.invocation \in {0, Len(issued)} /\ (check.request = 0 => check.result # "failed")
       /\ active # {} => Broadcasting \notin waits
       /\ Cardinality(active) > 1 => \E w \in waits : w.call # Zero
  ELSE /\ surface = "home" /\ Cardinality(active) <= 1
       /\ overlapped \/ sent # <<>> => persisting = NoSnapshot /\ ~immutable
       /\ overlapped => Len(issued) <= 1

MCSymmetry == Permutations(Calls) \cup Permutations(Operations)
=============================================================================

---------------------------- MODULE MCSharedDraft ----------------------------
(* Small instances of SharedDraft for TLC. *)
EXTENDS SharedDraft

CONSTANTS n1

Receipt(r) == [kind |-> "appendSubmissionReceipt", arg |-> r]
Rotate(kind) == [kind |-> kind, arg |-> Zero]

\* One that writes the metadata, and one that takes the link away from the other browser.
MCMutations == {Receipt("r1"), Rotate("rotateOperatorLink")}

\* One call of each of the SQL functions of operators.
MCDirectCalls ==
  {Receipt("r2"), Rotate("rotateOperatorLink"), Rotate("rotateCollaboratorLink"),
   [kind |-> "setStatus", arg |-> "broadcasted"], [kind |-> "setRelayPreflight", arg |-> "p1"]}

\* Takes whatever receipts there are away for another.
MCPatches == {[receipts |-> <<"r3">>]}

MCSignatures == {[signer |-> n1, value |-> 1]}

\* What direct calls and patches have left in the row.
Traces ==
  {k \in {m.kind : m \in MCDirectCalls} \cup {"patch"} :
     CASE k = "setStatus" -> draft.status # "draft"
       [] k = "setRelayPreflight" -> draft.metadata.preflight # Zero
       [] k = "appendSubmissionReceipt" -> "r2" \in Range(draft.metadata.receipts)
       [] k = "patch" -> "r3" \in Range(draft.metadata.receipts)
       [] k = "rotateCollaboratorLink" -> draft.collaborator > 0
       [] OTHER -> draft.operator > Len(SelectSeq(log, LAMBDA e : e.mutation.kind = k))}

\* With the idempotency store operators are alone; without it somebody signs, somebody comments, or
\* direct calls leave a trace, one at a time and before the last mutation.
MCBound ==
  LET alone == draft.signatures = <<>> /\ draft.metadata.activity = <<>>
  IN
  \/ Traces = {} /\ (upstash => alone)
  \/ Cardinality(Traces) = 1 /\ ~upstash /\ alone /\ draft.counter < MaxCounter

MCSymmetry == Permutations(Browsers) \cup Permutations(Requests)
=============================================================================

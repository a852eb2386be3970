------------------------------ MODULE DraftLog ------------------------------
(***************************************************************************)
(* What the operator of a shared draft is promised: the draft is claimed   *)
(* by one key, once, and from then on every mutation is applied whole and  *)
(* counted.  Requests, retries, cached answers and other browsers do not   *)
(* show.  The database's own functions write as well, one thing at a time  *)
(* and without counting.  A mutation writes the metadata as one value, and *)
(* is promised less of these writes than of other mutations: it is made    *)
(* from the metadata as it stood at some moment since the mutation before, *)
(* so no counted mutation is ever undone, but a write of the database that *)
(* came after that moment is.                                              *)
(***************************************************************************)
EXTENDS Integers, Sequences

CONSTANTS Zero, Browsers, Mutations, Writes, Patches, ReceiptLimit

VARIABLES
  key, counter, status, receipts, preflight, operator, collaborator,
  copies   \* the metadata of moments since the last mutation that the next may be made from
row == <<key, counter, status, receipts, preflight, operator, collaborator>>
logVars == <<row, copies>>

Metadata == [receipts |-> receipts, preflight |-> preflight]
MetadataKinds == {"setRelayPreflight", "appendSubmissionReceipt", "appendActivity"}

Init ==
  /\ key = Zero /\ counter = 0 /\ status = "draft"
  /\ receipts = <<>> /\ preflight = Zero
  /\ operator = 0 /\ collaborator = 0
  /\ copies = {}

Claim ==
  /\ key = Zero
  /\ key' \in Browsers
  /\ UNCHANGED <<counter, status, receipts, preflight, operator, collaborator, copies>>

Longer(old, new, arg) ==
  \/ new = Append(old, arg)
  \/ Len(old) = ReceiptLimit /\ new = Append(Tail(old), arg)

\* m is done, with metadata made from old.
Done(m, old) ==
  /\ status' = IF m.kind = "setStatus" THEN m.arg ELSE status
  /\ preflight' = IF m.kind = "setRelayPreflight" THEN m.arg ELSE old.preflight
  /\ IF m.kind = "appendSubmissionReceipt" THEN Longer(old.receipts, receipts', m.arg)
     ELSE receipts' = old.receipts
  /\ operator' = IF m.kind = "rotateOperatorLink" THEN operator + 1 ELSE operator
  /\ collaborator' = IF m.kind = "rotateCollaboratorLink" THEN collaborator + 1 ELSE collaborator
  /\ UNCHANGED key

Apply(m) ==
  /\ key # Zero
  /\ counter' = counter + 1
  /\ \E old \in IF m.kind \in MetadataKinds THEN copies ELSE {Metadata} : Done(m, old)
  /\ copies' = {}

Write(m) == Done(m, Metadata) /\ UNCHANGED <<counter, copies>>

\* The parts of the metadata that p has are written over.
Patch(p) ==
  /\ receipts' = IF "receipts" \in DOMAIN p THEN p.receipts ELSE receipts
  /\ preflight' = IF "preflight" \in DOMAIN p THEN p.preflight ELSE preflight
  /\ UNCHANGED <<key, counter, status, operator, collaborator, copies>>

Copy == copies' \subseteq copies \cup {Metadata} /\ UNCHANGED row

Next ==
  \/ Claim \/ Copy
  \/ \E m \in Mutations : Apply(m)
  \/ (\E m \in Writes : Write(m)) \/ (\E p \in Patches : Patch(p))

Spec == Init /\ [][Next]_logVars
=============================================================================

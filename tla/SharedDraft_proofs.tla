-------------------------- MODULE SharedDraft_proofs --------------------------
(***************************************************************************)
(* What holds of a shared draft for any browsers, mutations and bounds.    *)
(***************************************************************************)
EXTENDS SharedDraft, TLAPS

Arguments ==
  {m.arg : m \in Mutations \cup DirectCalls} \cup {Zero, "draft"} \cup {p.preflight : p \in Patches}
    \cup UNION {Range(p.activity) \cup Range(p.receipts) : p \in Patches}

Rows ==
  [key : Browsers \cup {Zero}, counter : Nat, status : Arguments, operator : Nat,
   collaborator : Nat, signatures : Seq(Signatures),
   metadata : [activity : Seq(Events \cup Arguments), receipts : Seq(Arguments),
               preflight : Arguments]]

AllMutations == Mutations \cup {NoMutation}
Actions == {"none", "claim", "mutate"}
Results == {"none", "ok", "refused", "operator_counter_mismatch"}
Answers == [result : Results, counter : Nat, slug : Nat]

AllRequests ==
  [phase : {"free", "posted", "loaded", "written", "answered"}, action : Actions, slug : Nat,
   by : Browsers \cup {Zero}, mutation : AllMutations, counter : Nat, row : Rows \cup {Zero},
   answer : Answers]

RequestsOK ==
  /\ request \in [Requests -> AllRequests]
  /\ \A i \in Requests :
       /\ request[i].phase \in {"posted", "loaded", "written"} =>
            request[i].by \in Browsers /\ request[i].action \in {"claim", "mutate"}
       /\ request[i].action = "mutate" => request[i].mutation \in Mutations
       /\ request[i].phase = "loaded" => request[i].row \in Rows

ClientsOK ==
  /\ client \in [Browsers -> [phase : {"idle", "claiming", "mutating"}, request : Requests \cup {Zero}]]
  /\ \A b \in Browsers : client[b].phase # "idle" => client[b].request \in Requests
  /\ link \in [Browsers -> Nat]

CachedOK == cached \subseteq [fp : Actions \X Nat \X AllMutations \X Nat, answer : Answers]

Types ==
  /\ draft \in Rows
  /\ RequestsOK /\ ClientsOK /\ CachedOK
  /\ log \in Seq([by : Browsers, mutation : Mutations])

-----------------------------------------------------------------------------
(* A step of the server changes one request, in one of a few ways.         *)

\* An answer ends its request and no other.
LEMMA RespondTypes ==
  ASSUME RequestsOK, NEW i \in Requests, NEW a \in Answers, Respond(i, a)
  PROVE  /\ RequestsOK'
         /\ request'[i].phase \in {"free", "answered"}
         /\ request'[i].phase = "answered" =>
              /\ request'[i].answer = a /\ request'[i].action = request[i].action
              /\ request'[i].counter = request[i].counter
              /\ request'[i].mutation = request[i].mutation
         /\ \A j \in Requests \ {i} : request'[j] = request[j]
<1>1. CASE request' = [request EXCEPT ![i] = NoRequest]
  <2>1. NoRequest \in AllRequests
    BY DEF NoRequest, AllRequests, NoMutation, AllMutations, Actions, NoAnswer, Answers, Results
  <2> QED BY <1>1, <2>1 DEF RequestsOK, NoRequest
<1>2. CASE request' = [request EXCEPT ![i] =
                        [@ EXCEPT !.phase = "answered", !.row = Zero, !.answer = a]]
  <2>1. [request[i] EXCEPT !.phase = "answered", !.row = Zero, !.answer = a] \in AllRequests
    BY DEF RequestsOK, AllRequests
  <2> QED BY <1>2, <2>1 DEF RequestsOK, AllRequests
<1> QED BY <1>1, <1>2 DEF Respond

\* A request that has written remembers success and what it was.
LEMMA WroteTypes ==
  ASSUME RequestsOK, NEW i \in Requests, NEW row \in Rows, Wrote(i, row),
         request[i].phase = "loaded"
  PROVE  /\ RequestsOK'
         /\ request'[i].phase = "written"
         /\ request'[i].answer = Success(row) /\ request'[i].action = request[i].action
         /\ request'[i].counter = request[i].counter
         /\ request'[i].mutation = request[i].mutation
         /\ \A j \in Requests \ {i} : request'[j] = request[j]
<1>1. Success(row) \in Answers  BY DEF Success, Answers, Results, Rows
<1>2. [request[i] EXCEPT !.phase = "written", !.row = Zero, !.answer = Success(row)] \in AllRequests
  BY <1>1 DEF RequestsOK, AllRequests
<1> QED BY <1>2 DEF Wrote, RequestsOK, AllRequests

\* Every failure is an answer.
LEMMA FailedType == \A why \in Results : Failed(why) \in Answers
BY DEF Failed, Answers

\* A failure ends its request and no other.
LEMMA FailTypes ==
  ASSUME RequestsOK, NEW i \in Requests, NEW why \in Results, Fail(i, why)
  PROVE  /\ RequestsOK'
         /\ request'[i].phase \in {"free", "answered"}
         /\ request'[i].phase = "answered" => request'[i].answer.result = why
         /\ \A j \in Requests \ {i} : request'[j] = request[j]
BY FailedType, RespondTypes DEF Fail, Failed

\* A bounded list keeps its type and its limit when something is added.
LEMMA LatestType ==
  ASSUME NEW S, NEW list \in Seq(S), NEW item \in S, NEW limit \in Nat \ {0}
  PROVE  /\ Latest(list, item, limit) \in Seq(S)
         /\ Len(list) <= limit => Len(Latest(list, item, limit)) <= limit
<1>1. CASE Len(list) < limit  BY <1>1 DEF Latest
<1>2. CASE ~(Len(list) < limit)
  <2>1. list # <<>> /\ Len(list) \in Nat  BY <1>2
  <2>2. Tail(list) \in Seq(S) /\ Len(Tail(list)) = Len(list) - 1  BY <2>1
  <2> QED BY <1>2, <2>1, <2>2 DEF Latest
<1> QED BY <1>1, <1>2

-----------------------------------------------------------------------------
(* Types.                                                                  *)

\* Arguments are the ones mutations and direct calls have.
LEMMA ArgumentTypes ==
  /\ Zero \in Arguments /\ "draft" \in Arguments
  /\ \A m \in Mutations \cup DirectCalls : m.arg \in Arguments
BY DEF Arguments

\* Adding something makes a list longer, or as long as it may be.
LEMMA LatestLonger ==
  ASSUME NEW S, NEW list \in Seq(S), NEW item, Len(list) <= ReceiptLimit
  PROVE  Log!Longer(list, Latest(list, item, ReceiptLimit), item)
<1>1. CASE Len(list) < ReceiptLimit  BY <1>1 DEF Latest, Log!Longer
<1>2. CASE ~(Len(list) < ReceiptLimit)
  <2>1. Len(list) = ReceiptLimit  BY <1>2, DraftAssumption
  <2> QED BY <1>2, <2>1 DEF Latest, Log!Longer
<1> QED BY <1>1, <1>2

\* What an update makes of a row is a row.
LEMMA PatchedType ==
  ASSUME NEW row \in Rows, NEW loaded \in Rows, NEW m \in Mutations
  PROVE  Patched(row, loaded, m) \in Rows
<1>1. m.arg \in Arguments  BY DEF Arguments
<1>2. Latest(loaded.metadata.activity, m.arg, ActivityLimit) \in Seq(Events \cup Arguments)
  BY <1>1, LatestType, DraftAssumption DEF Rows
<1>3. Latest(loaded.metadata.receipts, m.arg, ReceiptLimit) \in Seq(Arguments)
  BY <1>1, LatestType, DraftAssumption DEF Rows
<1>4. Metadata(loaded.metadata, m) \in
        [activity : Seq(Events \cup Arguments), receipts : Seq(Arguments), preflight : Arguments]
  BY <1>1, <1>2, <1>3 DEF Metadata, Rows
<1> DEFINE st == IF m.kind = "setStatus" THEN m.arg ELSE row.status
           md == IF m.kind \in MetadataKinds THEN Metadata(loaded.metadata, m) ELSE row.metadata
           op == IF m.kind = "rotateOperatorLink" THEN row.operator + 1 ELSE row.operator
           co == IF m.kind = "rotateCollaboratorLink" THEN row.collaborator + 1
                 ELSE row.collaborator
<1>5. st \in Arguments  BY <1>1 DEF Rows
<1>6. md \in [activity : Seq(Events \cup Arguments), receipts : Seq(Arguments),
               preflight : Arguments]
  BY <1>4 DEF Rows
<1>7. op \in Nat /\ co \in Nat  BY DEF Rows
<1>8. Patched(row, loaded, m) =
        [row EXCEPT !.counter = loaded.counter + 1, !.status = st, !.metadata = md,
                    !.operator = op, !.collaborator = co]
  BY Zenon DEF Patched
<1>9. loaded.counter + 1 \in Nat  BY DEF Rows
<1> HIDE DEF st, md, op, co
<1>10. [row EXCEPT !.counter = loaded.counter + 1, !.status = st, !.metadata = md,
                    !.operator = op, !.collaborator = co] \in Rows
  BY <1>5, <1>6, <1>7, <1>9 DEF Rows
<1> QED BY <1>8, <1>10

\* A fingerprint is made of what a request asks for.
LEMMA FingerprintTypes ==
  ASSUME RequestsOK, NEW i \in Requests
  PROVE  Fingerprint(request[i]) \in Actions \X Nat \X AllMutations \X Nat
BY DEF RequestsOK, AllRequests, Fingerprint

\* The draft begins well typed.
LEMMA InitTypes == Init => Types
<1> SUFFICES ASSUME Init PROVE Types  OBVIOUS
<1>1. draft \in Rows
  BY ArgumentTypes DEF Init, Rows
<1>2. NoRequest \in AllRequests
  BY DEF NoRequest, AllRequests, NoMutation, AllMutations, Actions, NoAnswer, Answers, Results
<1>3. RequestsOK
  BY <1>2 DEF Init, RequestsOK, NoRequest
<1>4. ClientsOK
  BY DEF Init, ClientsOK, NoClient
<1>5. CachedOK /\ log \in Seq([by : Browsers, mutation : Mutations])
  BY DEF Init, CachedOK
<1> QED BY <1>1, <1>3, <1>4, <1>5 DEF Types

\* The steps of a browser leave the row, the stored answers and the log alone, and a request they
\* put or take away holds no row.
LEMMA BrowserTypes ==
  ASSUME Types, NEW b \in Browsers, BrowserStep(b)
  PROVE  /\ RequestsOK' /\ ClientsOK'
         /\ UNCHANGED <<draft, cached, log>>
         /\ \A i \in Requests :
              request'[i] = request[i] \/ request'[i].phase \in {"free", "posted"}
<1> USE DEF Types
<1>0. NoRequest \in AllRequests
  BY DEF NoRequest, AllRequests, NoMutation, AllMutations, Actions, NoAnswer, Answers, Results
<1>1. CASE Open(b)
  BY <1>1 DEF Open, RequestsOK, ClientsOK, server, Rows
<1>2. CASE Run(b)
  <2>1. PICK i \in Requests :
          /\ request' = [request EXCEPT ![i] =
               [NoRequest EXCEPT !.phase = "posted", !.action = "claim", !.slug = link[b], !.by = b]]
          /\ client' = [client EXCEPT ![b] = [phase |-> "claiming", request |-> i]]
          /\ UNCHANGED <<upstash, draft, link, cached, log>>
    BY <1>2 DEF Run
  <2>2. [NoRequest EXCEPT !.phase = "posted", !.action = "claim", !.slug = link[b], !.by = b]
          \in AllRequests
    BY <1>0 DEF AllRequests, NoRequest, ClientsOK, Actions
  <2> QED BY <2>1, <2>2 DEF RequestsOK, ClientsOK, NoRequest
<1>3. CASE SendMutation(b)
  <2>1. PICK m \in Mutations :
       request' = [request EXCEPT ![client[b].request] =
         [NoRequest EXCEPT !.phase = "posted", !.action = "mutate", !.by = b, !.mutation = m,
           !.slug = Answer(b).slug, !.counter = Answer(b).counter]]
    BY <1>3, Zenon DEF SendMutation
  <2>2. client[b].request \in Requests
    BY <1>3 DEF SendMutation, Answered, ClientsOK
  <2>3. Answer(b) \in Answers
    BY <2>2 DEF Answer, RequestsOK, AllRequests
  <2>4. [NoRequest EXCEPT !.phase = "posted", !.action = "mutate", !.by = b, !.mutation = m,
           !.slug = Answer(b).slug, !.counter = Answer(b).counter] \in AllRequests
    BY <1>0, <2>3 DEF AllRequests, NoRequest, Actions, AllMutations, Answers
  <2> QED BY <1>3, <2>1, <2>2, <2>4 DEF SendMutation, RequestsOK, ClientsOK, NoRequest
<1>4. ASSUME Finish(b), link' \in [Browsers -> Nat]
      PROVE  /\ RequestsOK' /\ ClientsOK' /\ UNCHANGED <<draft, cached, log>>
             /\ \A i \in Requests :
                  request'[i] = request[i] \/ request'[i].phase \in {"free", "posted"}
  BY <1>0, <1>4 DEF Finish, RequestsOK, ClientsOK, NoRequest, NoClient
<1>5. CASE MutationDone(b)
  <2>1. client[b].request \in Requests
    BY <1>5 DEF MutationDone, Answered, ClientsOK
  <2>2. Answer(b).slug \in Nat
    BY <2>1 DEF Answer, RequestsOK, AllRequests, Answers
  <2> QED BY <1>4, <1>5, <2>2 DEF MutationDone, ClientsOK
<1>6. CASE MutationFailed(b)
  BY <1>4, <1>6 DEF MutationFailed, ClientsOK
<1>7. CASE GiveUp(b)
  BY <1>7 DEF GiveUp, RequestsOK, ClientsOK, NoClient, server
<1> QED BY <1>1, <1>2, <1>3, <1>5, <1>6, <1>7 DEF BrowserStep

\* Only request i takes part in the step.
Kept(i) == \A j \in Requests \ {i} : request'[j] = request[j]

\* A server's step keeps the types, and what its request asks for.
LEMMA ServerTypes ==
  ASSUME Types, NEW i \in Requests, Serve(i)
  PROVE  Types' /\ Kept(i)
<1> USE DEF Types
<1>1. ASSUME RequestsOK', Kept(i), UNCHANGED <<draft, link, client, cached, log>>
      PROVE  Types' /\ Kept(i)
  BY <1>1 DEF ClientsOK, CachedOK
<1>2. CASE Replay(i)
  <2>1. PICK c \in cached :
          Respond(i, c.answer) /\ UNCHANGED <<upstash, draft, link, client, cached, log>>
    BY <1>2 DEF Replay
  <2>2. c.answer \in Answers  BY DEF CachedOK
  <2> QED BY <1>1, <2>1, <2>2, RespondTypes DEF Kept
<1>3. CASE InProgress(i)
  BY <1>1, <1>3, FailTypes DEF InProgress, Results, Kept
<1>4. CASE Load(i)
  <2>1. [request[i] EXCEPT !.phase = "loaded", !.row = draft] \in AllRequests
    BY DEF RequestsOK, AllRequests
  <2>2. RequestsOK' /\ Kept(i)
    BY <1>4, <2>1 DEF Load, Begins, RequestsOK, AllRequests, Kept
  <2> QED BY <1>1, <1>4, <2>2 DEF Load
<1>5. CASE Refuse(i)
  <2>1. Fault(request[i]) \in Results
    BY DEF Fault, ClaimFault, MutationFault, Results
  <2> QED BY <1>1, <1>5, <2>1, FailTypes DEF Refuse, Kept
<1>6. CASE AlreadyClaimed(i)
  <2>1. request[i].row \in Rows /\ request[i].phase = "loaded"
    BY <1>6 DEF AlreadyClaimed, Loaded, RequestsOK
  <2> QED BY <1>1, <1>6, <2>1, WroteTypes DEF AlreadyClaimed, Kept
<1>7. CASE Claim(i)
  <2>1. /\ request[i].row \in Rows /\ request[i].phase = "loaded"
        /\ request[i].by \in Browsers
        /\ UNCHANGED <<upstash, link, client, log, cached>>
    BY <1>7 DEF Claim, Loaded, RequestsOK
  <2>2. CASE StillUnclaimed(request[i])
    <3>1. draft' = [draft EXCEPT !.key = request[i].by, !.counter = request[i].row.counter]
      BY <1>7, <2>2 DEF Claim
    <3>2. draft' \in Rows  BY <2>1, <3>1 DEF Rows
    <3>3. Wrote(i, draft')  BY <1>7, <2>2 DEF Claim
    <3>4. RequestsOK' /\ Kept(i)  BY <2>1, <3>2, <3>3, WroteTypes DEF Kept
    <3> QED BY <2>1, <3>2, <3>4 DEF ClientsOK, CachedOK
  <2>3. CASE ~StillUnclaimed(request[i])
    BY <1>1, <1>7, <2>1, <2>3, FailTypes DEF Claim, Results, Kept
  <2> QED BY <2>2, <2>3
<1>8. CASE Mutate(i)
  <2>1. /\ request[i].row \in Rows /\ request[i].phase = "loaded"
        /\ request[i].by \in Browsers /\ request[i].mutation \in Mutations
        /\ UNCHANGED <<upstash, link, client, cached>>
    BY <1>8 DEF Mutate, Loaded, RequestsOK
  <2>2. CASE StillAsLoaded(request[i])
    <3>1. /\ draft' = Patched(draft, request[i].row, request[i].mutation)
          /\ log' = Append(log, [by |-> request[i].by, mutation |-> request[i].mutation])
          /\ Wrote(i, draft')
      BY <1>8, <2>2 DEF Mutate
    <3>2. draft' \in Rows  BY <2>1, <3>1, PatchedType
    <3>3. RequestsOK' /\ Kept(i)  BY <2>1, <3>1, <3>2, WroteTypes DEF Kept
    <3>4. log' \in Seq([by : Browsers, mutation : Mutations])  BY <2>1, <3>1
    <3> QED BY <2>1, <3>2, <3>3, <3>4 DEF ClientsOK, CachedOK
  <2>3. CASE ~StillAsLoaded(request[i])
    BY <1>1, <1>8, <2>1, <2>3, FailTypes DEF Mutate, Results, Kept
  <2> QED BY <2>2, <2>3
<1>9. CASE Complete(i) \/ NotRecorded(i)
  <2>1. request[i].answer \in Answers  BY DEF RequestsOK, AllRequests
  <2>2. Complete(i) => RequestsOK' /\ Kept(i)
    BY <2>1, RespondTypes DEF Complete, Kept
  <2>3. NotRecorded(i) => RequestsOK' /\ Kept(i)
    BY FailTypes DEF NotRecorded, Results, Kept
  <2>4. RequestsOK' /\ Kept(i)  BY <1>9, <2>2, <2>3
  <2>5. CachedOK'
    BY <1>9, <2>1, FingerprintTypes DEF Complete, NotRecorded, StoreAnswer, CachedOK
  <2> QED BY <1>9, <2>4, <2>5 DEF Complete, NotRecorded, ClientsOK
<1>11. CASE Vanish(i)
  <2>1. NoRequest \in AllRequests
    BY DEF NoRequest, AllRequests, NoMutation, AllMutations, Actions, NoAnswer, Answers, Results
  <2>2. RequestsOK' /\ Kept(i)
    BY <1>11, <2>1 DEF Vanish, RequestsOK, NoRequest, Kept
  <2> QED BY <1>1, <1>11, <2>2 DEF Vanish
<1> QED BY <1>2, <1>3, <1>4, <1>5, <1>6, <1>7, <1>8, <1>9, <1>11 DEF Serve

\* The row after a direct call.
DirectKinds ==
  {"setStatus", "setRelayPreflight", "appendSubmissionReceipt", "rotateCollaboratorLink",
   "rotateOperatorLink"}
DirectRow(m) ==
  CASE m.kind = "setStatus" -> [draft EXCEPT !.status = m.arg]
    [] m.kind = "setRelayPreflight" -> [draft EXCEPT !.metadata.preflight = m.arg]
    [] m.kind = "appendSubmissionReceipt" ->
         [draft EXCEPT !.metadata.receipts = Latest(@, m.arg, ReceiptLimit)]
    [] m.kind = "rotateCollaboratorLink" -> [draft EXCEPT !.collaborator = @ + 1]
    [] m.kind = "rotateOperatorLink" -> [draft EXCEPT !.operator = @ + 1]

Drawable(m) ==
  /\ m.kind = "rotateCollaboratorLink" => draft.collaborator < MaxLinks
  /\ m.kind = "rotateOperatorLink" => draft.operator < MaxLinks

\* A direct call writes the row and nothing else.
LEMMA DirectStep ==
  ASSUME NEW m \in DirectCalls, DirectCall(m)
  PROVE  /\ m.kind \in DirectKinds /\ Drawable(m)
         /\ draft' = DirectRow(m)
         /\ UNCHANGED <<upstash, link, client, server, log>>
<1>1. CASE SetStatus(m)
  BY <1>1 DEF SetStatus, Row, DirectRow, DirectKinds, Drawable
<1>2. CASE SetRelayPreflight(m)
  BY <1>2 DEF SetRelayPreflight, Row, DirectRow, DirectKinds, Drawable
<1>3. CASE AppendSubmissionReceipt(m)
  BY <1>3 DEF AppendSubmissionReceipt, Row, DirectRow, DirectKinds, Drawable
<1>4. CASE RotateCollaborationSlug(m)
  BY <1>4 DEF RotateCollaborationSlug, Row, DirectRow, DirectKinds, Drawable
<1>5. CASE RotateOperatorSlug(m)
  BY <1>5 DEF RotateOperatorSlug, Row, DirectRow, DirectKinds, Drawable
<1> QED BY <1>1, <1>2, <1>3, <1>4, <1>5 DEF DirectCall

\* It writes one thing, field by field.
LEMMA DirectType ==
  ASSUME draft \in Rows, NEW m \in DirectCalls, m.kind \in DirectKinds
  PROVE  LET row == DirectRow(m) IN
         /\ row \in Rows
         /\ row.key = draft.key /\ row.counter = draft.counter
         /\ row.signatures = draft.signatures
         /\ row.status = (IF m.kind = "setStatus" THEN m.arg ELSE draft.status)
         /\ row.operator =
              (IF m.kind = "rotateOperatorLink" THEN draft.operator + 1 ELSE draft.operator)
         /\ row.collaborator =
              (IF m.kind = "rotateCollaboratorLink" THEN draft.collaborator + 1
               ELSE draft.collaborator)
         /\ row.metadata.activity = draft.metadata.activity
         /\ row.metadata.preflight =
              (IF m.kind = "setRelayPreflight" THEN m.arg ELSE draft.metadata.preflight)
         /\ row.metadata.receipts =
              (IF m.kind = "appendSubmissionReceipt"
               THEN Latest(draft.metadata.receipts, m.arg, ReceiptLimit)
               ELSE draft.metadata.receipts)
<1>1. m.arg \in Arguments  BY ArgumentTypes
<1>2. Latest(draft.metadata.receipts, m.arg, ReceiptLimit) \in Seq(Arguments)
  BY <1>1, LatestType, DraftAssumption DEF Rows
<1>3. CASE m.kind = "setStatus"
  <2>1. DirectRow(m) = [draft EXCEPT !.status = m.arg]  BY <1>3 DEF DirectRow
  <2> QED BY <1>1, <1>3, <2>1 DEF Rows
<1>4. CASE m.kind = "setRelayPreflight"
  <2>1. DirectRow(m) = [draft EXCEPT !.metadata.preflight = m.arg]  BY <1>4 DEF DirectRow
  <2> QED BY <1>1, <1>4, <2>1 DEF Rows
<1>5. CASE m.kind = "appendSubmissionReceipt"
  <2>1. DirectRow(m) = [draft EXCEPT !.metadata.receipts = Latest(@, m.arg, ReceiptLimit)]
    BY <1>5 DEF DirectRow
  <2> QED BY <1>2, <1>5, <2>1 DEF Rows
<1>6. CASE m.kind = "rotateCollaboratorLink"
  <2>1. DirectRow(m) = [draft EXCEPT !.collaborator = @ + 1]  BY <1>6 DEF DirectRow
  <2>2. \A n \in Nat : [draft EXCEPT !.collaborator = n] \in Rows  BY DEF Rows
  <2>3. draft.collaborator + 1 \in Nat  BY DEF Rows
  <2>4. [draft EXCEPT !.collaborator = @ + 1] \in Rows  BY <2>2, <2>3
  <2> QED BY <1>6, <2>1, <2>4 DEF Rows
<1>7. CASE m.kind = "rotateOperatorLink"
  <2>1. DirectRow(m) = [draft EXCEPT !.operator = @ + 1]  BY <1>7 DEF DirectRow
  <2>2. \A n \in Nat : [draft EXCEPT !.operator = n] \in Rows  BY DEF Rows
  <2>3. draft.operator + 1 \in Nat  BY DEF Rows
  <2>4. [draft EXCEPT !.operator = @ + 1] \in Rows  BY <2>2, <2>3
  <2> QED BY <1>7, <2>1, <2>4 DEF Rows
<1> QED BY <1>3, <1>4, <1>5, <1>6, <1>7 DEF DirectKinds

\* The row after a patch.
PatchRow(p) == [draft EXCEPT !.metadata = Merged(@, p)]

\* A list of some things is a list of more.
LEMMA ListsOfMore ==
  ASSUME NEW S, NEW T, S \subseteq T, NEW list \in Seq(S)
  PROVE  list \in Seq(T)
OBVIOUS

\* A patch writes the metadata, within its limits, and nothing else.
LEMMA PatchType ==
  ASSUME draft \in Rows, NEW p \in Patches
  PROVE  LET row == PatchRow(p) IN
         /\ row \in Rows
         /\ row.key = draft.key /\ row.counter = draft.counter /\ row.status = draft.status
         /\ row.operator = draft.operator /\ row.collaborator = draft.collaborator
         /\ row.signatures = draft.signatures
         /\ row.metadata = Merged(draft.metadata, p)
         /\ Len(draft.metadata.activity) <= ActivityLimit => Len(row.metadata.activity) <= ActivityLimit
         /\ Len(draft.metadata.receipts) <= ReceiptLimit => Len(row.metadata.receipts) <= ReceiptLimit
<1> DEFINE md == Merged(draft.metadata, p)
           activity == IF "activity" \in DOMAIN p THEN p.activity ELSE draft.metadata.activity
           receipts == IF "receipts" \in DOMAIN p THEN p.receipts ELSE draft.metadata.receipts
           preflight == IF "preflight" \in DOMAIN p THEN p.preflight ELSE draft.metadata.preflight
<1>1. md = [activity |-> activity, receipts |-> receipts, preflight |-> preflight]
  BY DEF Merged, Parts
<1>2. /\ activity \in Seq(Events \cup Arguments)
      /\ Len(draft.metadata.activity) <= ActivityLimit => Len(activity) <= ActivityLimit
  <2>1. CASE "activity" \in DOMAIN p
    <3>1. p.activity \in Seq(Range(p.activity)) /\ Len(p.activity) <= ActivityLimit
      BY <2>1, PatchAssumption DEF IsList
    <3>2. Range(p.activity) \subseteq Events \cup Arguments  BY DEF Arguments
    <3> QED BY <2>1, <3>1, <3>2, ListsOfMore
  <2>2. CASE "activity" \notin DOMAIN p  BY <2>2 DEF Rows
  <2> QED BY <2>1, <2>2
<1>3. /\ receipts \in Seq(Arguments)
      /\ Len(draft.metadata.receipts) <= ReceiptLimit => Len(receipts) <= ReceiptLimit
  <2>1. CASE "receipts" \in DOMAIN p
    <3>1. p.receipts \in Seq(Range(p.receipts)) /\ Len(p.receipts) <= ReceiptLimit
      BY <2>1, PatchAssumption DEF IsList
    <3>2. Range(p.receipts) \subseteq Arguments  BY DEF Arguments
    <3> QED BY <2>1, <3>1, <3>2, ListsOfMore
  <2>2. CASE "receipts" \notin DOMAIN p  BY <2>2 DEF Rows
  <2> QED BY <2>1, <2>2
<1>4. preflight \in Arguments  BY DEF Arguments, Rows
<1>5. PatchRow(p) = [draft EXCEPT !.metadata = md]  BY DEF PatchRow
<1> HIDE DEF md, activity, receipts, preflight
<1>6. md \in [activity : Seq(Events \cup Arguments), receipts : Seq(Arguments), preflight : Arguments]
  BY <1>1, <1>2, <1>3, <1>4
<1>7. [draft EXCEPT !.metadata = md] \in Rows  BY <1>6 DEF Rows
<1>8. LET row == [draft EXCEPT !.metadata = md] IN
      /\ row.key = draft.key /\ row.counter = draft.counter /\ row.status = draft.status
      /\ row.operator = draft.operator /\ row.collaborator = draft.collaborator
      /\ row.signatures = draft.signatures /\ row.metadata = md
  BY DEF Rows
<1>9. md.activity = activity /\ md.receipts = receipts  BY <1>1
<1> QED BY <1>2, <1>3, <1>5, <1>7, <1>8, <1>9 DEF md

\* Every step keeps the types.
LEMMA StepTypes == Types /\ [Next]_vars => Types'
<1> SUFFICES ASSUME Types, [Next]_vars PROVE Types'  OBVIOUS
<1> USE DEF Types
<1>1. ASSUME NEW b \in Browsers, BrowserStep(b) PROVE Types'
  BY <1>1, BrowserTypes DEF CachedOK
<1>2. ASSUME draft' \in Rows, UNCHANGED <<link, client, server, log>> PROVE Types'
  BY <1>2 DEF RequestsOK, ClientsOK, CachedOK, server
<1>3. CASE AppendSignature
  <2>1. PICK s \in Signatures :
          draft' = [draft EXCEPT !.signatures = Append(@, s)] /\ UNCHANGED <<upstash, link, client, server, log>>
    BY <1>3 DEF AppendSignature, Row
  <2>2. Append(draft.signatures, s) \in Seq(Signatures)  BY DEF Rows
  <2>3. draft' \in Rows  BY <2>1, <2>2 DEF Rows
  <2> QED BY <1>2, <2>1, <2>3
<1>4. CASE AppendActivity
  <2>1. PICK e \in Events :
          /\ draft' = [draft EXCEPT !.metadata.activity = Latest(@, e, ActivityLimit)]
          /\ UNCHANGED <<upstash, link, client, server, log>>
    BY <1>4 DEF AppendActivity, Row
  <2>2. Latest(draft.metadata.activity, e, ActivityLimit) \in Seq(Events \cup Arguments)
    BY LatestType, DraftAssumption DEF Rows
  <2>3. draft' \in Rows  BY <2>1, <2>2 DEF Rows
  <2> QED BY <1>2, <2>1, <2>3
<1>5. ASSUME NEW i \in Requests, Serve(i) PROVE Types'
  BY <1>5, ServerTypes
<1>6. CASE Expire
  BY <1>6 DEF Expire, RequestsOK, ClientsOK, CachedOK
<1>7. CASE UNCHANGED vars
  BY <1>7 DEF vars, server, RequestsOK, ClientsOK, CachedOK
<1>8. ASSUME NEW m \in DirectCalls, DirectCall(m) PROVE Types'
  <2>1. draft' \in Rows  BY <1>8, DirectStep, DirectType
  <2> QED BY <1>2, <1>8, <2>1, DirectStep
<1>9. CASE PatchMetadata
  <2>1. PICK p \in Patches : draft' = PatchRow(p) /\ UNCHANGED <<link, client, server, log>>
    BY <1>9 DEF PatchMetadata, Row, PatchRow
  <2> QED BY <1>2, <2>1, PatchType
<1> QED BY <1>1, <1>3, <1>4, <1>5, <1>6, <1>7, <1>8, <1>9 DEF Next

-----------------------------------------------------------------------------
(* The inductive invariant.  What a request loaded is an older row, within *)
(* the same limits, and its key and counter tell how old.                  *)

Agrees(row) ==
  /\ row.counter <= draft.counter
  /\ row.key # Zero => row.key = draft.key
  /\ row.key = Zero => row.counter = 0
  /\ Len(row.metadata.receipts) <= ReceiptLimit
  /\ Len(row.metadata.activity) <= ActivityLimit

OneEach(signatures) ==
  \A m, n \in DOMAIN signatures : signatures[m].signer = signatures[n].signer => m = n

RowInv ==
  /\ Agrees(draft)
  /\ draft.counter <= MaxCounter /\ Len(log) = draft.counter
  /\ draft.operator <= draft.counter + MaxLinks
  /\ draft.collaborator <= draft.counter + MaxLinks
  /\ OneEach(draft.signatures)

LoadedAgree == \A i \in Requests : request[i].phase = "loaded" => Agrees(request[i].row)

Inv == Types /\ RowInv /\ LoadedAgree

\* At first no request has a copy of the row, and the log is empty.
LEMMA InitInv == Init => Inv
<1> SUFFICES ASSUME Init PROVE Inv  OBVIOUS
<1>1. Types  BY InitTypes
<1>2. RowInv  BY DraftAssumption DEF Init, RowInv, Agrees, OneEach
<1>3. LoadedAgree  BY DEF Init, LoadedAgree, NoRequest
<1> QED BY <1>1, <1>2, <1>3 DEF Inv

\* The five kinds of steps: the log's part of the row stays, ...
Quiet ==
  /\ draft'.key = draft.key /\ draft'.counter = draft.counter /\ draft'.status = draft.status
  /\ draft'.operator = draft.operator /\ draft'.collaborator = draft.collaborator
  /\ draft'.metadata.receipts = draft.metadata.receipts
  /\ draft'.metadata.preflight = draft.metadata.preflight
  /\ Len(draft'.metadata.activity) <= ActivityLimit
  /\ \/ draft'.signatures = draft.signatures
     \/ \E s \in Signatures :
          ~HasSigned(s.signer) /\ draft'.signatures = Append(draft.signatures, s)
  /\ log' = log
  /\ \A i \in Requests :
       request'[i].phase = "loaded" =>
         request'[i] = request[i] \/ request'[i].row = draft'

\* ... a function of the database writes it, ...
Written(m) ==
  /\ m.kind \in DirectKinds /\ Drawable(m)
  /\ draft' = DirectRow(m)
  /\ log' = log /\ request' = request

\* ... its metadata is written over, ...
Overwritten(p) == draft' = PatchRow(p) /\ log' = log /\ request' = request

\* ... the draft is claimed, ...
Claimed(i) ==
  /\ draft.key = Zero /\ request[i].by \in Browsers /\ request[i].action = "claim"
  /\ draft' = [draft EXCEPT !.key = request[i].by]
  /\ log' = log
  /\ request'[i].phase = "written" /\ Kept(i)

\* ... or mutated.
Mutated(i) ==
  LET r == request[i] IN
  /\ r.phase = "loaded" /\ r.action = "mutate" /\ r.row \in Rows /\ r.mutation \in Mutations /\ r.by \in Browsers
  /\ r.by = draft.key /\ draft.key # Zero /\ r.slug = draft.operator
  /\ r.counter = draft.counter /\ r.row.counter = draft.counter
  /\ draft.counter < MaxCounter
  /\ draft' = Patched(draft, r.row, r.mutation)
  /\ log' = Append(log, [by |-> r.by, mutation |-> r.mutation])
  /\ request'[i].phase = "written" /\ Kept(i)

\* A server's step leaves the log's part of the row alone, claims the draft, or mutates it.
LEMMA ServerSteps ==
  ASSUME Inv, NEW i \in Requests, Serve(i)
  PROVE  Quiet \/ Claimed(i) \/ Mutated(i)
<1> USE DEF Inv, Types
<1>0. Kept(i)  BY ServerTypes
<1>1. ASSUME UNCHANGED <<draft, log>>, request'[i].phase # "loaded" \/ request'[i].row = draft
      PROVE  Quiet
  BY <1>0, <1>1 DEF Quiet, Kept, RowInv, Agrees
<1>2. ASSUME NEW why \in Results, Fail(i, why), UNCHANGED <<draft, log>> PROVE Quiet
  <2>1. request'[i].phase # "loaded"  BY <1>2, FailTypes
  <2> QED BY <1>1, <1>2, <2>1
<1>3. CASE Replay(i)
  <2>1. PICK c \in cached : Respond(i, c.answer) /\ UNCHANGED <<draft, log>>
    BY <1>3 DEF Replay
  <2>2. request'[i].phase # "loaded"  BY <2>1, RespondTypes DEF CachedOK
  <2> QED BY <1>1, <2>1, <2>2
<1>4. CASE InProgress(i)
  BY <1>2, <1>4 DEF InProgress, Results
<1>5. CASE Load(i)
  BY <1>1, <1>5 DEF Load, RequestsOK, AllRequests
<1>6. CASE Refuse(i)
  <2>1. Fault(request[i]) \in Results
    BY DEF Fault, ClaimFault, MutationFault, Results
  <2> QED BY <1>2, <1>6, <2>1 DEF Refuse
<1>7. CASE AlreadyClaimed(i)
  <2>1. request[i].row \in Rows /\ request[i].phase = "loaded"
    BY <1>7 DEF AlreadyClaimed, Loaded, RequestsOK
  <2>2. request'[i].phase = "written"  BY <1>7, <2>1, WroteTypes DEF AlreadyClaimed
  <2> QED BY <1>1, <1>7, <2>2 DEF AlreadyClaimed
<1>8. CASE Claim(i)
  <2>1. CASE StillUnclaimed(request[i])
    <3>1. /\ request[i].phase = "loaded" /\ request[i].row \in Rows /\ request[i].by \in Browsers
          /\ request[i].row.key = Zero /\ request[i].action = "claim"
      BY <1>8 DEF Claim, Loaded, RequestsOK
    <3>2. Agrees(request[i].row) /\ Agrees(draft)  BY <3>1 DEF LoadedAgree, RowInv
    <3>3. draft.key = Zero  BY <2>1 DEF StillUnclaimed
    <3>4. request[i].row.counter = draft.counter  BY <3>1, <3>2, <3>3 DEF Agrees
    <3>5. /\ draft' = [draft EXCEPT !.key = request[i].by, !.counter = request[i].row.counter]
          /\ Wrote(i, draft') /\ log' = log
      BY <1>8, <2>1 DEF Claim
    <3>6. draft' = [draft EXCEPT !.key = request[i].by]
      BY <3>4, <3>5 DEF Rows
    <3>7. draft' \in Rows  BY ServerTypes
    <3>8. request'[i].phase = "written"  BY <3>1, <3>5, <3>7, WroteTypes
    <3> QED BY <1>0, <3>1, <3>3, <3>5, <3>6, <3>8 DEF Claimed
  <2>2. CASE ~StillUnclaimed(request[i])
    BY <1>2, <1>8, <2>2 DEF Claim, Results
  <2> QED BY <2>1, <2>2
<1>9. CASE Mutate(i)
  <2>1. CASE StillAsLoaded(request[i])
    <3>1. /\ request[i].phase = "loaded" /\ request[i].row \in Rows /\ request[i].by \in Browsers
          /\ request[i].mutation \in Mutations /\ request[i].action = "mutate"
          /\ MutationFault(request[i]) = "none" /\ request[i].row.counter < MaxCounter
      BY <1>9 DEF Mutate, Loaded, RequestsOK
    <3>2. Agrees(request[i].row)  BY <3>1 DEF LoadedAgree
    <3>3. /\ request[i].slug = draft.operator /\ request[i].row.counter = draft.counter
      BY <2>1 DEF StillAsLoaded
    <3>4. /\ request[i].row.key # Zero /\ request[i].counter = request[i].row.counter
          /\ request[i].row.key = request[i].by
      BY <3>1 DEF MutationFault
    <3>5. request[i].by = draft.key  BY <3>2, <3>4 DEF Agrees
    <3>6. /\ draft' = Patched(draft, request[i].row, request[i].mutation)
          /\ log' = Append(log, [by |-> request[i].by, mutation |-> request[i].mutation])
          /\ Wrote(i, draft')
      BY <1>9, <2>1 DEF Mutate
    <3>7. draft' \in Rows  BY ServerTypes
    <3>8. request'[i].phase = "written"  BY <3>1, <3>6, <3>7, WroteTypes
    <3> QED BY <1>0, <3>1, <3>3, <3>4, <3>5, <3>6, <3>8 DEF Mutated
  <2>2. CASE ~StillAsLoaded(request[i])
    BY <1>2, <1>9, <2>2 DEF Mutate, Results
  <2> QED BY <2>1, <2>2
<1>10. CASE Complete(i)
  <2>1. request[i].answer \in Answers  BY DEF RequestsOK, AllRequests
  <2>2. request'[i].phase # "loaded"  BY <1>10, <2>1, RespondTypes DEF Complete
  <2> QED BY <1>1, <1>10, <2>2 DEF Complete
<1>11. CASE NotRecorded(i)
  BY <1>2, <1>11 DEF NotRecorded, Results
<1>12. CASE Vanish(i)
  <2>1. request'[i].phase # "loaded"
    BY <1>12 DEF Vanish, RequestsOK, NoRequest
  <2> QED BY <1>1, <1>12, <2>1 DEF Vanish
<1> QED BY <1>3, <1>4, <1>5, <1>6, <1>7, <1>8, <1>9, <1>10, <1>11, <1>12 DEF Serve

\* So does any step.
LEMMA Steps ==
  ASSUME Inv, [Next]_vars
  PROVE  \/ Quiet
         \/ \E i \in Requests : Claimed(i) \/ Mutated(i)
         \/ \E m \in DirectCalls : Written(m)
         \/ \E p \in Patches : Overwritten(p)
<1> USE DEF Inv, Types
<1>0. Len(draft.metadata.activity) <= ActivityLimit  BY DEF RowInv, Agrees
<1>1. ASSUME NEW b \in Browsers, BrowserStep(b) PROVE Quiet
  BY <1>0, <1>1, BrowserTypes DEF Quiet
<1>2. CASE AppendSignature
  <2>1. PICK s \in Signatures :
          /\ ~HasSigned(s.signer)
          /\ draft' = [draft EXCEPT !.signatures = Append(@, s)]
          /\ UNCHANGED <<server, log>>
    BY <1>2 DEF AppendSignature, Row
  <2> QED BY <1>0, <2>1 DEF Quiet, server, Rows
<1>3. CASE AppendActivity
  <2>1. PICK e \in Events :
          /\ draft' = [draft EXCEPT !.metadata.activity = Latest(@, e, ActivityLimit)]
          /\ UNCHANGED <<server, log>>
    BY <1>3 DEF AppendActivity, Row
  <2>2. Len(Latest(draft.metadata.activity, e, ActivityLimit)) <= ActivityLimit
    <3>1. draft.metadata.activity \in Seq(Events \cup Arguments)  BY DEF Rows
    <3> QED BY <1>0, <3>1, LatestType, DraftAssumption
  <2> QED BY <2>1, <2>2 DEF Quiet, server, Rows
<1>4. ASSUME NEW i \in Requests, Serve(i) PROVE Quiet \/ Claimed(i) \/ Mutated(i)
  BY <1>4, ServerSteps
<1>5. CASE Expire
  BY <1>0, <1>5 DEF Expire, Quiet
<1>6. CASE UNCHANGED vars
  BY <1>0, <1>6 DEF vars, server, Quiet
<1>7. ASSUME NEW m \in DirectCalls, DirectCall(m) PROVE Written(m)
  BY <1>7, DirectStep DEF Written, server
<1>8. CASE PatchMetadata
  BY <1>8 DEF PatchMetadata, Row, PatchRow, Overwritten, server
<1> QED BY <1>1, <1>2, <1>3, <1>4, <1>5, <1>6, <1>7, <1>8 DEF Next

\* The metadata a mutation writes is made of the one that was loaded, any other leaves it alone.
MadeOf(i) ==
  IF request[i].mutation.kind \in MetadataKinds THEN request[i].row.metadata ELSE draft.metadata

\* Both are within their limits.
LEMMA MadeOfType ==
  ASSUME Inv, NEW i \in Requests, Mutated(i)
  PROVE  /\ MadeOf(i).receipts \in Seq(Arguments)
         /\ Len(MadeOf(i).receipts) <= ReceiptLimit
<1>1. draft \in Rows /\ Agrees(draft) /\ request[i].row \in Rows /\ Agrees(request[i].row)
  BY DEF Mutated, Inv, Types, RowInv, LoadedAgree
<1> QED BY <1>1 DEF MadeOf, Agrees, Rows

\* The row after a mutation, field by field.
LEMMA MutatedRow ==
  ASSUME Inv, NEW i \in Requests, Mutated(i)
  PROVE  LET m == request[i].mutation IN
         /\ draft'.key = draft.key /\ draft'.counter = draft.counter + 1
         /\ draft'.signatures = draft.signatures
         /\ draft'.status = (IF m.kind = "setStatus" THEN m.arg ELSE draft.status)
         /\ draft'.operator =
              (IF m.kind = "rotateOperatorLink" THEN draft.operator + 1 ELSE draft.operator)
         /\ draft'.collaborator =
              (IF m.kind = "rotateCollaboratorLink" THEN draft.collaborator + 1
               ELSE draft.collaborator)
         /\ draft'.metadata.preflight =
              (IF m.kind = "setRelayPreflight" THEN m.arg ELSE MadeOf(i).preflight)
         /\ draft'.metadata.receipts =
              (IF m.kind = "appendSubmissionReceipt"
               THEN Latest(MadeOf(i).receipts, m.arg, ReceiptLimit)
               ELSE MadeOf(i).receipts)
         /\ Len(draft'.metadata.activity) <= ActivityLimit
<1> DEFINE r == request[i]
           m == r.mutation
<1>1. r.row \in Rows /\ draft \in Rows /\ m \in Mutations /\ Agrees(r.row)
  BY DEF Mutated, Inv, Types, LoadedAgree
<1>2. r.row.counter = draft.counter  BY DEF Mutated
<1>3. draft' = Patched(draft, r.row, m)  BY DEF Mutated
<1>4. /\ draft'.key = draft.key /\ draft'.counter = draft.counter + 1
      /\ draft'.signatures = draft.signatures
  BY <1>1, <1>2, <1>3 DEF Patched, Rows
<1>5. draft'.status = IF m.kind = "setStatus" THEN m.arg ELSE draft.status
  BY <1>1, <1>3 DEF Patched, Rows
<1>6. draft'.operator = IF m.kind = "rotateOperatorLink" THEN draft.operator + 1 ELSE draft.operator
  BY <1>1, <1>2, <1>3 DEF Patched, Rows
<1>7. draft'.collaborator =
        IF m.kind = "rotateCollaboratorLink" THEN draft.collaborator + 1 ELSE draft.collaborator
  BY <1>1, <1>2, <1>3 DEF Patched, Rows
<1>8. draft'.metadata =
        IF m.kind \in MetadataKinds THEN Metadata(r.row.metadata, m) ELSE draft.metadata
  BY <1>1, <1>3 DEF Patched, Rows
<1>9. draft'.metadata.preflight =
        IF m.kind = "setRelayPreflight" THEN m.arg ELSE MadeOf(i).preflight
  BY <1>8 DEF Metadata, MetadataKinds, MadeOf
<1>10. draft'.metadata.receipts =
        IF m.kind = "appendSubmissionReceipt"
        THEN Latest(MadeOf(i).receipts, m.arg, ReceiptLimit)
        ELSE MadeOf(i).receipts
  BY <1>8 DEF Metadata, MetadataKinds, MadeOf
<1>11. Len(draft'.metadata.activity) <= ActivityLimit
  <2>1. /\ Len(r.row.metadata.activity) <= ActivityLimit
        /\ Len(draft.metadata.activity) <= ActivityLimit
    BY <1>1 DEF Agrees, Inv, RowInv
  <2>2. /\ r.row.metadata.activity \in Seq(Events \cup Arguments)
        /\ m.arg \in Events \cup Arguments
    BY <1>1 DEF Rows, Arguments
  <2>3. Len(Latest(r.row.metadata.activity, m.arg, ActivityLimit)) <= ActivityLimit
    BY <2>1, <2>2, LatestType, DraftAssumption
  <2> QED BY <1>8, <2>1, <2>3 DEF Metadata
<1> QED BY <1>4, <1>5, <1>6, <1>7, <1>9, <1>10, <1>11

\* The invariant is inductive.
LEMMA StepInv == Inv /\ [Next]_vars => Inv'
<1> SUFFICES ASSUME Inv, [Next]_vars PROVE Inv'  OBVIOUS
<1>0. Types'  BY StepTypes DEF Inv
<1>1. CASE Quiet
  <2>1. ASSUME NEW row \in Rows, Agrees(row) PROVE Agrees(row)'
    BY <1>1, <2>1 DEF Agrees, Quiet
  <2>2. Agrees(draft)'
    BY <1>1 DEF Agrees, Quiet, Inv, RowInv
  <2>3. OneEach(draft.signatures)'
    <3>1. CASE draft'.signatures = draft.signatures
      BY <3>1 DEF Inv, RowInv, OneEach
    <3>2. ASSUME NEW s \in Signatures, ~HasSigned(s.signer),
                 draft'.signatures = Append(draft.signatures, s)
          PROVE  OneEach(draft.signatures)'
      <4>1. draft.signatures \in Seq(Signatures)  BY DEF Inv, Types, Rows
      <4> QED BY <3>2, <4>1 DEF Inv, RowInv, OneEach, HasSigned
    <3> QED BY <1>1, <3>1, <3>2 DEF Quiet
  <2>4. RowInv'
    BY <1>1, <2>2, <2>3 DEF Quiet, Inv, RowInv
  <2>5. LoadedAgree'
    BY <1>1, <2>1, <2>2 DEF Quiet, Inv, LoadedAgree, Types, RequestsOK
  <2> QED BY <1>0, <2>4, <2>5 DEF Inv
<1>2. ASSUME NEW i \in Requests, Claimed(i) PROVE Inv'
  <2>1. /\ draft'.key = request[i].by /\ draft'.counter = draft.counter
        /\ draft'.metadata = draft.metadata /\ draft'.operator = draft.operator
        /\ draft'.collaborator = draft.collaborator /\ draft'.signatures = draft.signatures
        /\ draft.key = Zero /\ draft'.key # Zero
    BY <1>2, DraftAssumption DEF Claimed, Inv, Types, Rows
  <2>2. draft.counter = 0  BY <2>1 DEF Inv, RowInv, Agrees
  <2>3. RowInv'
    BY <1>2, <2>1, <2>2 DEF Claimed, Inv, RowInv, Agrees
  <2>4. ASSUME NEW row \in Rows, Agrees(row) PROVE Agrees(row)'
    BY <2>1, <2>4 DEF Agrees
  <2>5. LoadedAgree'
    BY <1>2, <2>4 DEF Claimed, Kept, Inv, LoadedAgree, Types, RequestsOK
  <2> QED BY <1>0, <2>3, <2>5 DEF Inv
<1>3. ASSUME NEW i \in Requests, Mutated(i) PROVE Inv'
  <2>1. draft \in Rows /\ draft' \in Rows  BY <1>0 DEF Inv, Types
  <2>2. /\ draft'.key = draft.key /\ draft'.counter = draft.counter + 1
        /\ draft'.signatures = draft.signatures
        /\ draft'.operator \in {draft.operator, draft.operator + 1}
        /\ draft'.collaborator \in {draft.collaborator, draft.collaborator + 1}
        /\ Len(draft'.metadata.activity) <= ActivityLimit
    BY <1>3, MutatedRow
  <2>3. Len(draft'.metadata.receipts) <= ReceiptLimit
    <3>1. /\ MadeOf(i).receipts \in Seq(Arguments) /\ request[i].mutation.arg \in Arguments
          /\ Len(MadeOf(i).receipts) <= ReceiptLimit
      BY <1>3, MadeOfType, ArgumentTypes DEF Mutated
    <3>2. Len(Latest(MadeOf(i).receipts, request[i].mutation.arg, ReceiptLimit)) <= ReceiptLimit
      BY <3>1, LatestType, DraftAssumption
    <3> QED BY <1>3, <3>1, <3>2, MutatedRow
  <2>4. Len(log') = Len(log) + 1
    BY <1>3 DEF Mutated, Inv, Types
  <2>5. RowInv'
    <3>1. draft'.counter \in Nat /\ draft.counter \in Nat /\ draft.operator \in Nat /\ draft.collaborator \in Nat
      BY <2>1 DEF Rows
    <3>2. draft.key # Zero /\ draft.counter < MaxCounter  BY <1>3 DEF Mutated
    <3>3. draft.counter <= MaxCounter /\ Len(log) = draft.counter /\ OneEach(draft.signatures)
          /\ draft.operator <= draft.counter + MaxLinks
          /\ draft.collaborator <= draft.counter + MaxLinks
      BY DEF Inv, RowInv
    <3>4. draft'.counter \in Nat /\ draft'.key # Zero  BY <2>2, <3>1, <3>2
    <3>5. Agrees(draft)'  BY <2>2, <2>3, <3>4 DEF Agrees
    <3>6. draft'.counter <= MaxCounter /\ Len(log') = draft'.counter
      BY <2>2, <2>4, <3>1, <3>2, <3>3, DraftAssumption
    <3>7. /\ draft'.operator <= draft'.counter + MaxLinks
          /\ draft'.collaborator <= draft'.counter + MaxLinks
      <4>1. \A n, c \in Nat : n <= c + MaxLinks =>
              n <= (c + 1) + MaxLinks /\ n + 1 <= (c + 1) + MaxLinks
        BY DraftAssumption
      <4>2. draft'.operator <= (draft.counter + 1) + MaxLinks
        BY <2>2, <3>1, <3>3, <4>1
      <4>3. draft'.collaborator <= (draft.counter + 1) + MaxLinks
        BY <2>2, <3>1, <3>3, <4>1
      <4> QED BY <2>2, <4>2, <4>3
    <3>8. OneEach(draft.signatures)'  BY <2>2, <3>3 DEF OneEach
    <3> QED BY <3>5, <3>6, <3>7, <3>8 DEF RowInv
  <2>6. ASSUME NEW row \in Rows, Agrees(row) PROVE Agrees(row)'
    <3>1. row.counter \in Nat /\ draft.counter \in Nat  BY <2>1 DEF Rows
    <3>2. row.counter <= draft.counter  BY <2>6 DEF Agrees
    <3>3. row.counter <= draft'.counter /\ row.counter # draft'.counter
      BY <2>2, <3>1, <3>2
    <3> QED BY <2>2, <2>6, <3>3 DEF Agrees
  <2>7. LoadedAgree'
    BY <1>3, <2>6 DEF Mutated, Kept, Inv, LoadedAgree, Types, RequestsOK
  <2> QED BY <1>0, <2>5, <2>7 DEF Inv
<1>4. ASSUME NEW m \in DirectCalls, Written(m) PROVE Inv'
  <2>1. draft \in Rows /\ m.kind \in DirectKinds /\ draft' = DirectRow(m)
    BY <1>4 DEF Written, Inv, Types
  <2>2. /\ draft'.key = draft.key /\ draft'.counter = draft.counter
        /\ draft'.signatures = draft.signatures
        /\ draft'.metadata.activity = draft.metadata.activity
    BY <2>1, DirectType
  <2>3. Len(draft'.metadata.receipts) <= ReceiptLimit
    <3>1. /\ draft.metadata.receipts \in Seq(Arguments) /\ m.arg \in Arguments
          /\ Len(draft.metadata.receipts) <= ReceiptLimit
      BY <2>1, ArgumentTypes DEF Rows, Inv, RowInv, Agrees
    <3>2. Len(Latest(draft.metadata.receipts, m.arg, ReceiptLimit)) <= ReceiptLimit
      BY <3>1, LatestType, DraftAssumption
    <3> QED BY <2>1, <3>1, <3>2, DirectType
  <2>4. /\ draft'.operator <= draft'.counter + MaxLinks
        /\ draft'.collaborator <= draft'.counter + MaxLinks
    <3>1. /\ draft.operator \in Nat /\ draft.collaborator \in Nat /\ draft.counter \in Nat
          /\ draft.operator <= draft.counter + MaxLinks
          /\ draft.collaborator <= draft.counter + MaxLinks
      BY <2>1 DEF Rows, Inv, RowInv
    <3>2. /\ \/ draft'.operator = draft.operator
             \/ draft.operator < MaxLinks /\ draft'.operator = draft.operator + 1
          /\ \/ draft'.collaborator = draft.collaborator
             \/ draft.collaborator < MaxLinks /\ draft'.collaborator = draft.collaborator + 1
      <4>1. /\ draft'.operator =
                 (IF m.kind = "rotateOperatorLink" THEN draft.operator + 1 ELSE draft.operator)
            /\ draft'.collaborator =
                 (IF m.kind = "rotateCollaboratorLink" THEN draft.collaborator + 1
                  ELSE draft.collaborator)
        BY <2>1, DirectType
      <4>2. Drawable(m)  BY <1>4 DEF Written
      <4>3. m.kind # "rotateOperatorLink" \/ draft.operator < MaxLinks
        BY <4>2 DEF Drawable
      <4>4. m.kind # "rotateCollaboratorLink" \/ draft.collaborator < MaxLinks
        BY <4>2 DEF Drawable
      <4> QED BY <4>1, <4>3, <4>4
    <3> QED BY <2>2, <3>1, <3>2, DraftAssumption
  <2>6. RowInv'
    BY <1>4, <2>2, <2>3, <2>4 DEF Written, Inv, RowInv, Agrees, OneEach
  <2>7. LoadedAgree'
    BY <1>4, <2>2 DEF Written, Inv, LoadedAgree, Agrees
  <2> QED BY <1>0, <2>6, <2>7 DEF Inv
<1>5. ASSUME NEW p \in Patches, Overwritten(p) PROVE Inv'
  <2>1. draft \in Rows /\ draft' = PatchRow(p)
    BY <1>5 DEF Overwritten, Inv, Types
  <2>2. /\ draft'.key = draft.key /\ draft'.counter = draft.counter
        /\ draft'.operator = draft.operator /\ draft'.collaborator = draft.collaborator
        /\ draft'.signatures = draft.signatures
        /\ Len(draft'.metadata.activity) <= ActivityLimit
        /\ Len(draft'.metadata.receipts) <= ReceiptLimit
    BY <2>1, PatchType DEF Inv, RowInv, Agrees
  <2>3. RowInv'
    BY <1>5, <2>2 DEF Overwritten, Inv, RowInv, Agrees, OneEach
  <2>4. LoadedAgree'
    BY <1>5, <2>2 DEF Overwritten, Inv, LoadedAgree, Agrees
  <2> QED BY <1>0, <2>3, <2>4 DEF Inv
<1> QED BY <1>1, <1>2, <1>3, <1>4, <1>5, Steps

\* It holds in every reachable state.
LEMMA Safety == Spec => []Inv
BY InitInv, StepInv, PTL DEF Spec

-----------------------------------------------------------------------------
(* The theorems.                                                           *)

\* The row and what is in flight keep their types and bounds.
THEOREM DraftTypeCorrect == Spec => []DraftTypeOK
<1>1. Inv => DraftTypeOK
  <2> SUFFICES ASSUME Inv PROVE DraftTypeOK  OBVIOUS
  <2>1. /\ draft.key \in Browsers \cup {Zero}
        /\ draft.counter \in Nat /\ draft.operator \in Nat /\ draft.collaborator \in Nat
    BY DEF Inv, Types, Rows
  <2>2. /\ draft.counter \in 0..MaxCounter
        /\ {draft.operator, draft.collaborator} \subseteq 0..(MaxCounter + MaxLinks)
    BY <2>1, DraftAssumption DEF Inv, RowInv
  <2>3. \A i \in Requests : request[i].phase \in {"free", "posted", "loaded", "written", "answered"}
    BY DEF Inv, Types, RequestsOK, AllRequests
  <2>4. \A b \in Browsers : client[b].phase \in {"idle", "claiming", "mutating"}
    BY DEF Inv, Types, ClientsOK
  <2> QED BY <2>1, <2>2, <2>3, <2>4 DEF DraftTypeOK, Inv, RowInv, Agrees
<1> QED BY <1>1, Safety, PTL

\* What request i would make the metadata from, as the log sees it.
Given(i) == [receipts |-> request[i].row.metadata.receipts, preflight |-> request[i].row.metadata.preflight]

\* A copy is some request's.
LEMMA CopiesAre ==
  \A c : c \in Copies <=>
    \E i \in Requests : Loaded(i, "mutate") /\ request[i].row.counter = draft.counter /\ c = Given(i)
BY DEF Copies, Given

\* A quiet step drops copies, or adds one of the row as it is.
LEMMA CopiesStep ==
  ASSUME Quiet
  PROVE  Copies' \subseteq Copies \cup {Log!Metadata}
<1> SUFFICES ASSUME NEW i \in Requests, Loaded(i, "mutate")',
                    request'[i].row.counter = draft'.counter
             PROVE  Given(i)' \in Copies \cup {Log!Metadata}
  BY DEF Copies, Given
<1>1. CASE request'[i] = request[i]
  <2>1. Loaded(i, "mutate") /\ request[i].row.counter = draft.counter /\ Given(i)' = Given(i)
    BY <1>1 DEF Loaded, Quiet, Given
  <2> QED BY <2>1 DEF Copies, Given
<1>2. CASE request'[i].row = draft'
  BY <1>2 DEF Quiet, Given, Log!Metadata
<1> QED BY <1>1, <1>2 DEF Quiet, Loaded

\* A step that keeps the counter and the requests that mutate keeps the copies.
LEMMA CopiesKept ==
  ASSUME draft'.counter = draft.counter,
         \A i \in Requests :
           Loaded(i, "mutate") \/ Loaded(i, "mutate")' => request'[i] = request[i]
  PROVE  Copies' = Copies
<1>1. \A i \in Requests :
        /\ Loaded(i, "mutate")' <=> Loaded(i, "mutate")
        /\ Loaded(i, "mutate") => Given(i)' = Given(i) /\ request'[i].row = request[i].row
  BY DEF Loaded, Given
<1>2. \A c : c \in Copies' <=> c \in Copies
  BY <1>1 DEF Copies, Given
<1> QED BY <1>2

\* Whatever overlaps, is repeated or is cut off, the draft is a log of whole mutations under one key,
\* with the direct calls between them.
THEOREM DraftImplementsLog == Spec => DraftIsLog
<1>1. Init => Log!Init
  BY DEF Init, Log!Init, Copies, Loaded, NoRequest
<1>2. Inv /\ [Next]_vars => [Log!Next]_Log!logVars
  <2> SUFFICES ASSUME Inv, [Next]_vars PROVE [Log!Next]_Log!logVars  OBVIOUS
  <2>1. CASE Quiet
    BY <2>1, CopiesStep DEF Quiet, Log!Copy, Log!row, Log!Next
  <2>2. ASSUME NEW i \in Requests, Claimed(i) PROVE Log!Claim
    <3>1. /\ draft.key = Zero /\ draft'.key \in Browsers /\ draft'.counter = draft.counter
          /\ draft'.status = draft.status /\ draft'.metadata = draft.metadata
          /\ draft'.operator = draft.operator /\ draft'.collaborator = draft.collaborator
      BY <2>2 DEF Claimed, Inv, Types, Rows
    <3>2. Copies' = Copies
      BY <2>2, <3>1, CopiesKept DEF Claimed, Kept, Loaded
    <3> QED BY <3>1, <3>2 DEF Log!Claim
  <2>3. ASSUME NEW i \in Requests, Mutated(i) PROVE Log!Apply(request[i].mutation)
    <3> DEFINE m == request[i].mutation
               old == [receipts |-> MadeOf(i).receipts, preflight |-> MadeOf(i).preflight]
    <3>1. old \in IF m.kind \in Log!MetadataKinds THEN Copies ELSE {Log!Metadata}
      <4>1. CASE m.kind \in MetadataKinds
        <5>1. Loaded(i, "mutate") /\ request[i].row.counter = draft.counter
          BY <2>3 DEF Mutated, Loaded
        <5>2. old = Given(i)  BY <4>1 DEF MadeOf, Given
        <5> QED BY <4>1, <5>1, <5>2, CopiesAre DEF MetadataKinds, Log!MetadataKinds
      <4>2. CASE m.kind \notin MetadataKinds
        BY <4>2 DEF MadeOf, Log!Metadata, MetadataKinds, Log!MetadataKinds
      <4> QED BY <4>1, <4>2
    <3>2. IF m.kind = "appendSubmissionReceipt"
          THEN Log!Longer(old.receipts, draft'.metadata.receipts, m.arg)
          ELSE draft'.metadata.receipts = old.receipts
      BY <2>3, MutatedRow, MadeOfType, LatestLonger
    <3>3. /\ draft'.key = draft.key /\ draft'.counter = draft.counter + 1
          /\ draft'.status = (IF m.kind = "setStatus" THEN m.arg ELSE draft.status)
          /\ draft'.operator =
               (IF m.kind = "rotateOperatorLink" THEN draft.operator + 1 ELSE draft.operator)
          /\ draft'.collaborator =
               (IF m.kind = "rotateCollaboratorLink" THEN draft.collaborator + 1
                ELSE draft.collaborator)
          /\ draft'.metadata.preflight =
               (IF m.kind = "setRelayPreflight" THEN m.arg ELSE old.preflight)
      BY <2>3, MutatedRow
    <3>4. Copies' = {}
      <4>1. draft \in Rows /\ draft'.counter = draft.counter + 1
        BY <3>3 DEF Inv, Types
      <4>2. ASSUME NEW j \in Requests, Loaded(j, "mutate")'
            PROVE  request'[j].row.counter # draft'.counter
        <5>1. j # i  BY <2>3, <4>2 DEF Mutated, Loaded
        <5>2. request'[j] = request[j] /\ request[j].phase = "loaded"
          BY <2>3, <4>2, <5>1 DEF Mutated, Kept, Loaded
        <5>3. request[j].row \in Rows /\ Agrees(request[j].row)
          BY <5>2 DEF Inv, Types, RequestsOK, LoadedAgree
        <5> QED BY <4>1, <5>2, <5>3 DEF Rows, Agrees
      <4> QED BY <4>2 DEF Copies
    <3>5. draft.key # Zero  BY <2>3 DEF Mutated
    <3>6. Log!Done(m, old)
      <4> HIDE DEF m, old
      <4> QED BY <3>2, <3>3 DEF Log!Done
    <3> HIDE DEF m, old
    <3>7. Log!Apply(m)  BY <3>1, <3>3, <3>4, <3>5, <3>6 DEF Log!Apply
    <3> QED BY <3>7 DEF m
  <2>4. \A i \in Requests : Mutated(i) => request[i].mutation \in Mutations
    BY DEF Mutated
  <2>5. ASSUME NEW m \in DirectCalls, Written(m) PROVE Log!Write(m)
    <3>1. draft \in Rows /\ m.kind \in DirectKinds /\ draft' = DirectRow(m)
      BY <2>5 DEF Written, Inv, Types
    <3>2. draft.metadata.receipts \in Seq(Arguments) /\ Len(draft.metadata.receipts) <= ReceiptLimit
      BY <3>1 DEF Rows, Inv, RowInv, Agrees
    <3>3. IF m.kind = "appendSubmissionReceipt"
          THEN Log!Longer(draft.metadata.receipts, draft'.metadata.receipts, m.arg)
          ELSE draft'.metadata.receipts = draft.metadata.receipts
      BY <3>1, <3>2, DirectType, LatestLonger
    <3>4. Log!Done(m, Log!Metadata)
      BY <3>1, <3>3, DirectType DEF Log!Done, Log!Metadata
    <3>5. draft'.counter = draft.counter  BY <3>1, DirectType
    <3>6. Copies' = Copies  BY <2>5, <3>5, CopiesKept DEF Written
    <3> QED BY <3>4, <3>5, <3>6 DEF Log!Write
  <2>6. ASSUME NEW p \in Patches, Overwritten(p) PROVE Log!Patch(p)
    <3>1. draft \in Rows /\ draft' = PatchRow(p)
      BY <2>6 DEF Overwritten, Inv, Types
    <3>2. /\ draft'.key = draft.key /\ draft'.counter = draft.counter /\ draft'.status = draft.status
          /\ draft'.operator = draft.operator /\ draft'.collaborator = draft.collaborator
          /\ draft'.metadata = Merged(draft.metadata, p)
      BY <3>1, PatchType
    <3>3. Copies' = Copies  BY <2>6, <3>2, CopiesKept DEF Overwritten
    <3>4. /\ draft'.metadata.receipts =
               (IF "receipts" \in DOMAIN p THEN p.receipts ELSE draft.metadata.receipts)
          /\ draft'.metadata.preflight =
               (IF "preflight" \in DOMAIN p THEN p.preflight ELSE draft.metadata.preflight)
      BY <3>2 DEF Merged, Parts
    <3> QED BY <3>2, <3>3, <3>4 DEF Log!Patch
  <2> QED BY <2>1, <2>2, <2>3, <2>4, <2>5, <2>6, Steps DEF Log!Next
<1> QED BY <1>1, <1>2, Safety, PTL DEF Spec, DraftIsLog, Log!Spec

\* Nothing is counted that the draft's key did not sign, for the counter as it stood and under the
\* operator link of the moment, and it is counted once.
THEOREM CountedStaysSigned == Spec => CountedIsSigned
<1> DEFINE Signed ==
      draft'.counter # draft.counter =>
       /\ draft'.counter = draft.counter + 1
       /\ \E i \in Requests :
            /\ request[i].phase = "loaded" /\ request'[i].phase = "written"
            /\ request[i].by = draft.key /\ request[i].slug = draft.operator
            /\ request[i].counter = draft.counter
            /\ log' = Append(log, [by |-> request[i].by, mutation |-> request[i].mutation])
<1>1. Inv /\ [Next]_vars => Signed
  <2> SUFFICES ASSUME Inv, [Next]_vars, draft'.counter # draft.counter PROVE Signed  OBVIOUS
  <2>1. ~Quiet  BY DEF Quiet
  <2>2. \A i \in Requests : ~Claimed(i)  BY DEF Claimed, Inv, Types, Rows
  <2>3. \A m \in DirectCalls : ~Written(m)  BY DirectType DEF Written, Inv, Types
  <2>4. \A p \in Patches : ~Overwritten(p)  BY PatchType DEF Overwritten, Inv, Types
  <2>5. PICK i \in Requests : Mutated(i)  BY <2>1, <2>2, <2>3, <2>4, Steps
  <2>6. draft'.counter = draft.counter + 1  BY <2>5, MutatedRow
  <2> QED BY <2>5, <2>6 DEF Mutated
<1> QED BY <1>1, Safety, PTL DEF Spec, CountedIsSigned

\* No signature is ever lost or given twice.
THEOREM SignaturesAreKept == Spec => SignaturesStand
<1> DEFINE Kept2 ==
      /\ IsPrefix(draft.signatures, draft'.signatures)
      /\ \A m, n \in DOMAIN draft'.signatures :
           draft'.signatures[m].signer = draft'.signatures[n].signer => m = n
<1>1. Inv /\ [Next]_vars => Kept2
  <2> SUFFICES ASSUME Inv, [Next]_vars PROVE Kept2  OBVIOUS
  <2>0. draft.signatures \in Seq(Signatures)  BY DEF Inv, Types, Rows
  <2>1. Inv'  BY StepInv
  <2>2. draft'.signatures = draft.signatures
          \/ \E s \in Signatures : draft'.signatures = Append(draft.signatures, s)
    <3>1. \A i \in Requests : Claimed(i) => draft'.signatures = draft.signatures
      BY DEF Claimed, Inv, Types, Rows
    <3>2. \A i \in Requests : Mutated(i) => draft'.signatures = draft.signatures
      BY MutatedRow
    <3>3. \A m \in DirectCalls : Written(m) => draft'.signatures = draft.signatures
      BY DirectType DEF Written, Inv, Types
    <3>4. \A p \in Patches : Overwritten(p) => draft'.signatures = draft.signatures
      BY PatchType DEF Overwritten, Inv, Types
    <3> QED BY <3>1, <3>2, <3>3, <3>4, Steps DEF Quiet
  <2>3. IsPrefix(draft.signatures, draft'.signatures)
    BY <2>0, <2>2 DEF IsPrefix
  <2> QED BY <2>1, <2>3 DEF Inv, RowInv, OneEach
<1> QED BY <1>1, Safety, PTL DEF Spec, SignaturesStand

-----------------------------------------------------------------------------
(* What a success says stays true, since the log only grows.               *)

Recorded(counter, mutation) ==
  counter + 1 \in DOMAIN log /\ log[counter + 1].mutation = mutation

TrueRequest(i) ==
  /\ request[i].phase \in {"written", "answered"} /\ request[i].action = "mutate"
  /\ request[i].answer.result = "ok"
  => Recorded(request[i].counter, request[i].mutation)

TrueAnswers ==
  /\ \A i \in Requests : TrueRequest(i)
  /\ \A c \in cached :
       c.fp[1] = "mutate" /\ c.answer.result = "ok" => Recorded(c.fp[4], c.fp[3])

\* What stands in the log stands there from then on.
LEMMA RecordsStay ==
  ASSUME Inv, [Next]_vars, NEW n \in Nat, NEW m, Recorded(n, m)
  PROVE  Recorded(n, m)'
<1>1. log \in Seq([by : Browsers, mutation : Mutations])  BY DEF Inv, Types
<1>2. log' = log \/ \E e \in [by : Browsers, mutation : Mutations] : log' = Append(log, e)
  BY Steps DEF Quiet, Claimed, Mutated, Written, Overwritten
<1> QED BY <1>1, <1>2 DEF Recorded

\* A new success is of a mutation just written; stored and given ones stay true.
LEMMA TrueStep == Inv /\ TrueAnswers /\ [Next]_vars => TrueAnswers'
<1> SUFFICES ASSUME Inv, TrueAnswers, [Next]_vars PROVE TrueAnswers'  OBVIOUS
<1> USE DEF Inv, Types
<1>1. ASSUME NEW j \in Requests, request'[j] = request[j] PROVE TrueRequest(j)'
  <2>1. request[j].counter \in Nat  BY DEF RequestsOK, AllRequests
  <2>2. TrueRequest(j)  BY DEF TrueAnswers
  <2> QED BY <1>1, <2>1, <2>2, RecordsStay DEF TrueRequest
<1>2. ASSUME NEW c \in cached
      PROVE  c.fp[1] = "mutate" /\ c.answer.result = "ok" => Recorded(c.fp[4], c.fp[3])'
  <2>1. c.fp[4] \in Nat  BY DEF CachedOK
  <2> QED BY <2>1, RecordsStay DEF TrueAnswers
<1>3. ASSUME cached' \subseteq cached,
             \A j \in Requests :
               request'[j] = request[j] \/ request'[j].phase \notin {"written", "answered"}
      PROVE  TrueAnswers'
  <2>1. \A j \in Requests : TrueRequest(j)'  BY <1>1, <1>3 DEF TrueRequest
  <2> QED BY <1>2, <1>3, <2>1 DEF TrueAnswers
<1>4. ASSUME NEW i \in Requests, Kept(i), TrueRequest(i)', cached' \subseteq cached
      PROVE  TrueAnswers'
  <2>1. \A j \in Requests : TrueRequest(j)'  BY <1>1, <1>4 DEF Kept
  <2> QED BY <1>2, <1>4, <2>1 DEF TrueAnswers
<1>5. ASSUME NEW b \in Browsers, BrowserStep(b) PROVE TrueAnswers'
  BY <1>3, <1>5, BrowserTypes
<1>6. CASE AppendSignature \/ AppendActivity \/ PatchMetadata \/ Expire \/ UNCHANGED vars
  BY <1>3, <1>6 DEF AppendSignature, AppendActivity, PatchMetadata, Row, Expire, vars, server
<1>7. ASSUME NEW i \in Requests, Serve(i) PROVE TrueAnswers'
  <2>0. Kept(i)  BY <1>7, ServerTypes
  <2>1. ASSUME NEW why \in Results \ {"ok"}, Fail(i, why), cached' \subseteq cached
        PROVE  TrueAnswers'
    <3>1. TrueRequest(i)'  BY <2>1, FailTypes DEF TrueRequest
    <3> QED BY <1>4, <2>0, <2>1, <3>1
  <2>2. CASE Replay(i)
    <3>1. PICK c \in cached :
            /\ c.fp = Fingerprint(request[i])
            /\ Respond(i, c.answer) /\ cached' = cached
      BY <2>2 DEF Replay
    <3>2. c.answer \in Answers  BY DEF CachedOK
    <3>3. /\ request'[i].phase \in {"free", "answered"}
          /\ request'[i].phase = "answered" =>
               /\ request'[i].answer = c.answer /\ request'[i].action = c.fp[1]
               /\ request'[i].counter = c.fp[4] /\ request'[i].mutation = c.fp[3]
      BY <3>1, <3>2, RespondTypes DEF Fingerprint
    <3>4. c.fp[1] = "mutate" /\ c.answer.result = "ok" => Recorded(c.fp[4], c.fp[3])'
      BY <1>2
    <3>5. TrueRequest(i)'  BY <3>3, <3>4 DEF TrueRequest, Recorded
    <3> QED BY <1>4, <2>0, <3>1, <3>5
  <2>3. CASE InProgress(i)
    BY <2>1, <2>3 DEF InProgress, Results
  <2>4. CASE Load(i)
    <3>1. request'[i].phase = "loaded"  BY <2>4 DEF Load, RequestsOK, AllRequests
    <3> QED BY <1>4, <2>0, <2>4, <3>1 DEF Load, TrueRequest
  <2>5. CASE Refuse(i)
    <3>1. Fault(request[i]) \in Results \ {"ok"}
      BY DEF Fault, ClaimFault, MutationFault, Results
    <3> QED BY <2>1, <2>5, <3>1 DEF Refuse
  <2>6. CASE AlreadyClaimed(i)
    <3>1. /\ request[i].row \in Rows /\ request[i].phase = "loaded"
          /\ request[i].action = "claim"
      BY <2>6 DEF AlreadyClaimed, Loaded, RequestsOK
    <3>2. request'[i].action = "claim"  BY <2>6, <3>1, WroteTypes DEF AlreadyClaimed
    <3> QED BY <1>4, <2>0, <2>6, <3>2 DEF AlreadyClaimed, TrueRequest
  <2>7. CASE Claim(i)
    <3>1. CASE StillUnclaimed(request[i])
      <4>1. request[i].phase = "loaded" /\ request[i].action = "claim" /\ Wrote(i, draft')
        BY <2>7, <3>1 DEF Claim, Loaded
      <4>2. draft' \in Rows  BY <1>7, ServerTypes
      <4>3. request'[i].action = "claim"  BY <4>1, <4>2, WroteTypes
      <4> QED BY <1>4, <2>0, <2>7, <4>3 DEF Claim, TrueRequest
    <3>2. CASE ~StillUnclaimed(request[i])
      BY <2>1, <2>7, <3>2 DEF Claim, Results
    <3> QED BY <3>1, <3>2
  <2>8. CASE Mutate(i)
    <3>1. CASE StillAsLoaded(request[i])
      <4>1. /\ request[i].phase = "loaded" /\ request[i].mutation \in Mutations
            /\ request[i].by \in Browsers /\ request[i].counter = request[i].row.counter
            /\ Wrote(i, draft')
            /\ log' = Append(log, [by |-> request[i].by, mutation |-> request[i].mutation])
        BY <2>8, <3>1 DEF Mutate, Loaded, RequestsOK, MutationFault
      <4>2. draft' \in Rows  BY <1>7, ServerTypes
      <4>3. request'[i].counter = request[i].counter /\ request'[i].mutation = request[i].mutation
        BY <4>1, <4>2, WroteTypes
      <4>4. request[i].counter = Len(log)
        BY <3>1, <4>1 DEF StillAsLoaded, RowInv
      <4>5. TrueRequest(i)'  BY <4>1, <4>3, <4>4 DEF TrueRequest, Recorded
      <4> QED BY <1>4, <2>0, <2>8, <4>5 DEF Mutate
    <3>2. CASE ~StillAsLoaded(request[i])
      BY <2>1, <2>8, <3>2 DEF Mutate, Results
    <3> QED BY <3>1, <3>2
  <2>9. CASE Complete(i) \/ NotRecorded(i)
    <3>1. request[i].phase = "written"  BY <2>9 DEF Complete, NotRecorded
    <3>2. request[i].answer \in Answers /\ request[i].counter \in Nat
      BY DEF RequestsOK, AllRequests
    <3>3. request[i].action = "mutate" /\ request[i].answer.result = "ok" =>
            /\ request[i].counter + 1 \in DOMAIN log'
            /\ log'[request[i].counter + 1].mutation = request[i].mutation
      <4>1. SUFFICES ASSUME request[i].action = "mutate", request[i].answer.result = "ok"
            PROVE  /\ request[i].counter + 1 \in DOMAIN log'
                   /\ log'[request[i].counter + 1].mutation = request[i].mutation
        OBVIOUS
      <4>2. Recorded(request[i].counter, request[i].mutation)
        BY <3>1, <4>1 DEF TrueAnswers, TrueRequest
      <4>3. \A n \in Nat : \A m : Recorded(n, m) => n + 1 \in DOMAIN log' /\ log'[n + 1].mutation = m
        BY RecordsStay DEF Recorded
      <4> QED BY <3>2, <4>2, <4>3
    <3>4. TrueRequest(i)'
      <4>1. CASE Complete(i)
        BY <3>2, <3>3, <4>1, RespondTypes DEF Complete, TrueRequest, Recorded
      <4>2. CASE NotRecorded(i)
        BY <4>2, FailTypes DEF NotRecorded, Results, TrueRequest
      <4> QED BY <2>9, <4>1, <4>2
    <3>5. \A j \in Requests : TrueRequest(j)'  BY <1>1, <2>0, <3>4 DEF Kept
    <3>6. ASSUME NEW c \in cached'
          PROVE  c.fp[1] = "mutate" /\ c.answer.result = "ok" => Recorded(c.fp[4], c.fp[3])'
      <4>1. c \in cached \/ c = [fp |-> Fingerprint(request[i]), answer |-> request[i].answer]
        BY <2>9 DEF Complete, NotRecorded, StoreAnswer
      <4>2. CASE c \in cached  BY <1>2, <4>2
      <4>3. CASE c = [fp |-> Fingerprint(request[i]), answer |-> request[i].answer]
        BY <3>3, <4>3 DEF Fingerprint, Recorded
      <4> QED BY <4>1, <4>2, <4>3
    <3> QED BY <3>5, <3>6 DEF TrueAnswers
  <2>10. CASE Vanish(i)
    <3>1. request'[i].phase = "free"  BY <2>10 DEF Vanish, RequestsOK, NoRequest
    <3> QED BY <1>4, <2>0, <2>10, <3>1 DEF Vanish, TrueRequest
  <2> QED BY <1>7, <2>2, <2>3, <2>4, <2>5, <2>6, <2>7, <2>8, <2>9, <2>10 DEF Serve
<1>8. ASSUME NEW m \in DirectCalls, DirectCall(m) PROVE TrueAnswers'
  BY <1>3, <1>8, DirectStep DEF server
<1> QED BY <1>5, <1>6, <1>7, <1>8 DEF Next

\* A mutation that was answered with success, perhaps by a stored answer, is in the log where it
\* was signed to be.
THEOREM SuccessesAreTrue == Spec => []SuccessIsTrue
<1>1. Init => TrueAnswers
  BY DEF Init, TrueAnswers, TrueRequest, NoRequest
<1>2. TrueAnswers => SuccessIsTrue
  BY DEF TrueAnswers, TrueRequest, SuccessIsTrue, Recorded
<1> QED BY <1>1, <1>2, TrueStep, Safety, PTL DEF Spec
=============================================================================

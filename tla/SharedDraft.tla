----------------------------- MODULE SharedDraft -----------------------------
(***************************************************************************)
(* A shared transaction draft: its row in the database, the SQL functions  *)
(* that write it (two for collaborators, five for operators and one for    *)
(* anybody), the signed operator API (api/draft-operator.js behind         *)
(* api/requestDurability.js) and the browsers' transport                   *)
(* (operatorMutationTransport.js).                                         *)
(*                                                                         *)
(* A browser runs an operator's mutation in two requests: it claims the    *)
(* draft for its key, which tells it the row's counter, then sends the     *)
(* mutation signed over that counter.  A request loads the row, checks,    *)
(* and later writes what it made of the row it loaded if slug and counter  *)
(* still match.  A browser may give up waiting; its request goes on, or    *)
(* never arrives.  The server may fail to record an answer.                *)
(*                                                                         *)
(* With Upstash an answer below 500 is stored under a fingerprint of the   *)
(* request and replayed to the same request until it expires; without it   *)
(* there are neither stored answers nor locks.  Looking up an answer and   *)
(* taking the lock is one step here; Relay takes them apart, and has locks *)
(* that outlive their request.  Answers may expire at once, so a store     *)
(* whose replies are not understood is among the cases.                    *)
(*                                                                         *)
(* A link is the draft's slug for a scope and is drawn at random; here it  *)
(* is its generation.  Events and receipts have ids and dates of their     *)
(* own; lists are kept in the order of arrival.                            *)
(***************************************************************************)
EXTENDS Integers, SequencesExt

CONSTANTS
  Zero,
  Browsers,         \* browsers of operators; each makes one key for the draft and keeps it
  Mutations,        \* what an operator may ask the API for: [kind, arg]; no status is blank
  DirectCalls,      \* what the SQL functions of operators may be called for: [kind, arg]
  Patches,          \* what patch_aa_draft_metadata may be called for: some parts of the metadata
  Events,           \* activity entries
  Signatures,       \* [signer, value]: the (kind, signerId) pair and the signature
  UpstashChoices,   \* whether UPSTASH_REDIS_REST_URL is set
  ActivityLimit, ReceiptLimit,
  Requests,         \* bound of the model: requests in flight
  MaxCounter,       \* bound of the model: mutations
  MaxLinks          \* bound of the model: links drawn, up to which the SQL functions rotate

ASSUME DraftAssumption ==
  /\ Zero \notin Browsers /\ UpstashChoices \subseteq BOOLEAN
  /\ {ActivityLimit, ReceiptLimit, MaxCounter} \subseteq Nat \ {0} /\ MaxLinks \in Nat

Parts == {"activity", "receipts", "preflight"}
IsList(list, limit) == list \in Seq(Range(list)) /\ Len(list) <= limit

\* A patch is any JSON; here it holds lists no longer than the functions that append keep them.
ASSUME PatchAssumption ==
  \A p \in Patches :
    /\ "activity" \in DOMAIN p => IsList(p.activity, ActivityLimit)
    /\ "receipts" \in DOMAIN p => IsList(p.receipts, ReceiptLimit)

VARIABLES
  upstash,
  draft,     \* the row of aa_transaction_drafts
  link,      \* per browser: the operator link it was given
  client,    \* per browser: the transport's run
  request,   \* requests to the operator API
  cached,    \* stored answers, by fingerprint
  log        \* history: the mutations applied
vars == <<upstash, draft, link, client, request, cached, log>>
server == <<request, cached>>

NoMutation == [kind |-> "none", arg |-> Zero]
NoClient == [phase |-> "idle", request |-> Zero]
NoAnswer == [result |-> "none", counter |-> 0, slug |-> 0]
NoRequest ==
  [phase |-> "free", action |-> "none", slug |-> 0, by |-> Zero, mutation |-> NoMutation,
   counter |-> 0, row |-> Zero, answer |-> NoAnswer]

Init ==
  /\ upstash \in UpstashChoices
  /\ draft = [key |-> Zero, counter |-> 0, status |-> "draft", operator |-> 0, collaborator |-> 0, signatures |-> <<>>,
              metadata |-> [activity |-> <<>>, receipts |-> <<>>, preflight |-> Zero]]
  /\ link = [b \in Browsers |-> 0]
  /\ client = [b \in Browsers |-> NoClient]
  /\ request = [i \in Requests |-> NoRequest]
  /\ cached = {} /\ log = <<>>

\* Somebody passes on the operator link that is valid now.
Open(b) ==
  /\ client[b] = NoClient
  /\ link' = [link EXCEPT ![b] = draft.operator]
  /\ UNCHANGED <<upstash, draft, client, server, log>>

-----------------------------------------------------------------------------
(* The SQL functions, which lock the row and write one thing.  They check the caller's link on an  *)
(* unlocked read before; a link revoked in between still serves, so here anybody may call.        *)

LatestUntrimmed(list, item, limit) == Append(list, item)  \* mutant
Latest(list, item, limit) ==
  IF Len(list) < limit THEN Append(list, item) ELSE Append(Tail(list), item)

Row(row) == draft' = row /\ UNCHANGED <<upstash, link, client, server, log>>

HasSigned(signer) == \E n \in DOMAIN draft.signatures : draft.signatures[n].signer = signer

AppendSignature ==
  \E s \in Signatures :
    ~HasSigned(s.signer) /\ Row([draft EXCEPT !.signatures = Append(@, s)])

AppendActivity ==
  \E e \in Events \ Range(draft.metadata.activity) :
    Row([draft EXCEPT !.metadata.activity = Latest(@, e, ActivityLimit)])

\* The functions of operators.  They ask for the operator link, but for no signature, and leave the
\* counter alone.
SetStatus(m) == m.kind = "setStatus" /\ Row([draft EXCEPT !.status = m.arg])

SetRelayPreflight(m) ==
  m.kind = "setRelayPreflight" /\ Row([draft EXCEPT !.metadata.preflight = m.arg])

AppendSubmissionReceipt(m) ==
  /\ m.kind = "appendSubmissionReceipt"
  /\ Row([draft EXCEPT !.metadata.receipts = Latest(@, m.arg, ReceiptLimit)])

RotateCollaborationSlug(m) ==
  /\ m.kind = "rotateCollaboratorLink" /\ draft.collaborator < MaxLinks
  /\ Row([draft EXCEPT !.collaborator = @ + 1])

RotateOperatorSlug(m) ==
  /\ m.kind = "rotateOperatorLink" /\ draft.operator < MaxLinks
  /\ Row([draft EXCEPT !.operator = @ + 1])

DirectCall(m) ==
  \/ SetStatus(m) \/ SetRelayPreflight(m) \/ AppendSubmissionReceipt(m)
  \/ RotateCollaborationSlug(m) \/ RotateOperatorSlug(m)

\* The first migration's, which no later one drops: it asks for no link but the one to read.
Merged(old, p) == [part \in Parts |-> IF part \in DOMAIN p THEN p[part] ELSE old[part]]
PatchMetadata == \E p \in Patches : Row([draft EXCEPT !.metadata = Merged(@, p)])

-----------------------------------------------------------------------------
(* The browser's transport. *)

\* The first request does not depend on the mutation, which is picked when it is sent.
Run(b) ==
  \E i \in Requests :
    /\ client[b] = NoClient
    /\ request[i] = NoRequest /\ \A c \in Browsers : client[c].request # i
    /\ request' = [request EXCEPT ![i] =
         [NoRequest EXCEPT !.phase = "posted", !.action = "claim", !.slug = link[b], !.by = b]]
    /\ client' = [client EXCEPT ![b] = [phase |-> "claiming", request |-> i]]
    /\ UNCHANGED <<upstash, draft, link, cached, log>>

\* Browser b waits in this phase and its answer is there.
Answered(b, phase) ==
  /\ client[b].phase = phase
  /\ request[client[b].request].phase = "answered"
Answer(b) == request[client[b].request].answer

SendMutation(b) ==
  /\ Answered(b, "claiming") /\ Answer(b).result = "ok"
  /\ \E m \in Mutations :
       request' = [request EXCEPT ![client[b].request] =
         [NoRequest EXCEPT !.phase = "posted", !.action = "mutate", !.by = b, !.mutation = m,
           !.slug = Answer(b).slug, !.counter = Answer(b).counter]]
  /\ client' = [client EXCEPT ![b].phase = "mutating"]
  /\ UNCHANGED <<upstash, draft, link, cached, log>>

Finish(b) ==
  /\ client' = [client EXCEPT ![b] = NoClient]
  /\ request' = [request EXCEPT ![client[b].request] = NoRequest]
  /\ UNCHANGED <<upstash, draft, cached, log>>

MutationDone(b) ==
  /\ Answered(b, "mutating") /\ Answer(b).result = "ok"
  /\ link' = [link EXCEPT ![b] = Answer(b).slug]
  /\ Finish(b)

MutationFailed(b) ==
  /\ Answered(b, "claiming") \/ Answered(b, "mutating")
  /\ Answer(b).result # "ok"
  /\ Finish(b) /\ UNCHANGED link

\* fetchWithTimeout aborts; the request itself goes on.
GiveUp(b) ==
  /\ client[b] # NoClient /\ request[client[b].request].phase # "answered"
  /\ client' = [client EXCEPT ![b] = NoClient]
  /\ UNCHANGED <<upstash, draft, link, server, log>>

-----------------------------------------------------------------------------
(* The operator API. *)

FingerprintWithoutMutation(r) == <<r.action, r.slug, r.counter>>  \* mutant
Fingerprint(r) == <<r.action, r.slug, r.mutation, r.counter>>

Failed(why) == [result |-> why, counter |-> 0, slug |-> 0]
Success(row) == [result |-> "ok", counter |-> row.counter, slug |-> row.operator]

\* The lock of a fingerprint lasts while a request with it is worked on.
Locked(fp) ==
  /\ upstash
  /\ \E i \in Requests : request[i].phase \in {"loaded", "written"} /\ Fingerprint(request[i]) = fp

\* An answer nobody waits for is lost.
Respond(i, answer) ==
  request' = [request EXCEPT ![i] =
    IF \E b \in Browsers : client[b].request = i
    THEN [@ EXCEPT !.phase = "answered", !.row = Zero, !.answer = answer]
    ELSE NoRequest]

\* failDurableRequest: nothing is stored.
Fail(i, why) == Respond(i, Failed(why))

\* The row is read or written; what it became is what the answer will say.
Wrote(i, row) ==
  request' = [request EXCEPT ![i].phase = "written", ![i].row = Zero, ![i].answer = Success(row)]

Replay(i) ==
  \E c \in cached :
    /\ request[i].phase = "posted" /\ c.fp = Fingerprint(request[i])
    /\ Respond(i, c.answer)
    /\ UNCHANGED <<upstash, draft, link, client, cached, log>>

Begins(i) ==
  /\ request[i].phase = "posted"
  /\ \A c \in cached : c.fp # Fingerprint(request[i])

InProgress(i) ==
  /\ Begins(i) /\ Locked(Fingerprint(request[i]))
  /\ Fail(i, "refused")
  /\ UNCHANGED <<upstash, draft, link, client, cached, log>>

Load(i) ==
  /\ Begins(i) /\ ~Locked(Fingerprint(request[i]))
  /\ request' = [request EXCEPT ![i].phase = "loaded", ![i].row = draft]
  /\ UNCHANGED <<upstash, draft, link, client, cached, log>>

Loaded(i, action) == request[i].phase = "loaded" /\ request[i].action = action

\* The checks handleClaim and handleMutation make on the row they loaded, in order.
ClaimFault(r) ==
  IF r.slug # r.row.operator \/ r.row.key \notin {Zero, r.by} THEN "refused" ELSE "none"
MutationFault(r) ==
  IF r.slug # r.row.operator \/ r.row.key = Zero THEN "refused"
  ELSE IF r.counter # r.row.counter THEN "operator_counter_mismatch"
  ELSE IF r.row.key # r.by THEN "refused"
  ELSE "none"

Fault(r) == IF r.action = "claim" THEN ClaimFault(r) ELSE MutationFault(r)

Refuse(i) ==
  /\ request[i].phase = "loaded" /\ Fault(request[i]) # "none"
  /\ Fail(i, Fault(request[i]))
  /\ UNCHANGED <<upstash, draft, link, client, log, cached>>

AlreadyClaimed(i) ==
  /\ Loaded(i, "claim") /\ ClaimFault(request[i]) = "none"
  /\ request[i].row.key = request[i].by
  /\ Wrote(i, request[i].row)
  /\ UNCHANGED <<upstash, draft, link, client, log, cached>>

\* The row the update's conditions select.
StillUnclaimed(r) == draft.operator = r.slug /\ draft.key = Zero
StillLinked(r) == draft.operator = r.slug  \* mutant
StillCounted(r) == draft.counter = r.row.counter  \* mutant
StillAsLoaded(r) == draft.operator = r.slug /\ draft.counter = r.row.counter

Claim(i) ==
  LET r == request[i] IN
  /\ Loaded(i, "claim") /\ ClaimFault(r) = "none" /\ r.row.key = Zero
  /\ IF StillUnclaimed(r)
     THEN /\ draft' = [draft EXCEPT !.key = r.by, !.counter = r.row.counter]
          /\ Wrote(i, draft')
     ELSE Fail(i, "refused") /\ UNCHANGED draft
  /\ UNCHANGED <<upstash, link, client, log, cached>>

MetadataKinds == {"setRelayPreflight", "appendSubmissionReceipt", "appendActivity"}

\* The metadata is written as one value, made from the one that was loaded.
Metadata(old, m) ==
  [activity |-> IF m.kind = "appendActivity" THEN Latest(old.activity, m.arg, ActivityLimit)
                ELSE old.activity,
   receipts |-> IF m.kind = "appendSubmissionReceipt" THEN Latest(old.receipts, m.arg, ReceiptLimit)
                ELSE old.receipts,
   preflight |-> IF m.kind = "setRelayPreflight" THEN m.arg ELSE old.preflight]

\* Mutant: the whole row is written, with the signatures it had when it was loaded.
PatchedWhole(row, loaded, m) ==
  [loaded EXCEPT
    !.counter = @ + 1,
    !.status = IF m.kind = "setStatus" THEN m.arg ELSE @,
    !.metadata = IF m.kind \in MetadataKinds THEN Metadata(loaded.metadata, m) ELSE @,
    !.operator = IF m.kind = "rotateOperatorLink" THEN @ + 1 ELSE @,
    !.collaborator = IF m.kind = "rotateCollaboratorLink" THEN @ + 1 ELSE @]

\* A new link is drawn; it is the next one of the row that is written.
Patched(row, loaded, m) ==
  [row EXCEPT
    !.counter = loaded.counter + 1,
    !.status = IF m.kind = "setStatus" THEN m.arg ELSE @,
    !.metadata = IF m.kind \in MetadataKinds THEN Metadata(loaded.metadata, m) ELSE @,
    !.operator = IF m.kind = "rotateOperatorLink" THEN @ + 1 ELSE @,
    !.collaborator = IF m.kind = "rotateCollaboratorLink" THEN @ + 1 ELSE @]

Mutate(i) ==
  LET r == request[i] IN
  /\ Loaded(i, "mutate") /\ MutationFault(r) = "none" /\ r.row.counter < MaxCounter
  /\ IF StillAsLoaded(r)
     THEN /\ draft' = Patched(draft, r.row, r.mutation)
          /\ log' = Append(log, [by |-> r.by, mutation |-> r.mutation])
          /\ Wrote(i, draft')
     ELSE Fail(i, "operator_counter_mismatch") /\ UNCHANGED <<draft, log>>
  /\ UNCHANGED <<upstash, link, client, cached>>

StoreAnswer(i) ==
  cached' = IF upstash THEN cached \cup {[fp |-> Fingerprint(request[i]), answer |-> request[i].answer]}
            ELSE cached

Complete(i) ==
  /\ request[i].phase = "written"
  /\ Respond(i, request[i].answer)
  /\ StoreAnswer(i)
  /\ UNCHANGED <<upstash, draft, link, client, log>>

\* completeDurableRequest throws, before the answer is stored or after it: the handler answers
\* 500 to what it has done.
NotRecorded(i) ==
  /\ upstash /\ request[i].phase = "written"
  /\ Fail(i, "refused")
  /\ StoreAnswer(i) \/ UNCHANGED cached
  /\ UNCHANGED <<upstash, draft, link, client, log>>

\* The request of a browser that gave up never arrives.
Vanish(i) ==
  /\ request[i].phase = "posted"
  /\ \A b \in Browsers : client[b].request # i
  /\ request' = [request EXCEPT ![i] = NoRequest]
  /\ UNCHANGED <<upstash, draft, link, client, cached, log>>

\* Stored answers expire, here all of them at once.
Expire ==
  /\ cached # {} /\ cached' = {}
  /\ UNCHANGED <<upstash, draft, link, client, request, log>>

BrowserStep(b) ==
  \/ Open(b) \/ Run(b) \/ SendMutation(b) \/ MutationDone(b) \/ MutationFailed(b) \/ GiveUp(b)

Serve(i) ==
  \/ Replay(i) \/ InProgress(i) \/ Load(i) \/ Refuse(i) \/ AlreadyClaimed(i) \/ Claim(i)
  \/ Mutate(i) \/ Complete(i) \/ NotRecorded(i) \/ Vanish(i)

Next ==
  \/ \E b \in Browsers : BrowserStep(b)
  \/ AppendSignature \/ AppendActivity \/ PatchMetadata \/ (\E m \in DirectCalls : DirectCall(m))
  \/ \E i \in Requests : Serve(i)
  \/ Expire

Spec == Init /\ [][Next]_vars

-----------------------------------------------------------------------------
(* Properties. *)

\* The types of the row and of what is in flight.
DraftTypeOK ==
  /\ draft.key \in Browsers \cup {Zero}
  /\ draft.counter \in 0..MaxCounter
  /\ {draft.operator, draft.collaborator} \subseteq 0..(MaxCounter + MaxLinks)
  /\ Len(draft.metadata.receipts) <= ReceiptLimit
  /\ Len(draft.metadata.activity) <= ActivityLimit
  /\ \A i \in Requests : request[i].phase \in {"free", "posted", "loaded", "written", "answered"}
  /\ \A b \in Browsers : client[b].phase \in {"idle", "claiming", "mutating"}
  /\ Len(log) = draft.counter

\* The metadata of the rows that mutations under way have loaded and may still write.
Copies ==
  {[receipts |-> request[i].row.metadata.receipts, preflight |-> request[i].row.metadata.preflight] :
     i \in {j \in Requests : Loaded(j, "mutate") /\ request[j].row.counter = draft.counter}}

\* The draft behaves as a log of whole mutations under one key: requests that overlap, are repeated,
\* abandoned or cut off never half apply, apply twice under one counter, or undo each other.  What the
\* SQL functions write between them is applied at once, and is undone at most by a mutation of the
\* metadata that had loaded the row before.
Log == INSTANCE DraftLog WITH
  Writes <- DirectCalls,
  key <- draft.key, counter <- draft.counter, status <- draft.status,
  receipts <- draft.metadata.receipts, preflight <- draft.metadata.preflight,
  operator <- draft.operator, collaborator <- draft.collaborator, copies <- Copies
DraftIsLog == Log!Spec

\* A browser that is told its mutation was done can rely on it: the mutation stands in the
\* log at the counter it was signed for, also when the answer is a replayed one.
SuccessIsTrue ==
  \A i \in Requests :
    request[i].phase = "answered" /\ request[i].action = "mutate" /\ request[i].answer.result = "ok" =>
      /\ request[i].counter + 1 \in DOMAIN log
      /\ log[request[i].counter + 1].mutation = request[i].mutation

\* What the counter counts was signed: a step that moves it writes, once, what the key that holds the
\* draft signed for the counter as it stood, under the operator link of the moment, though all three
\* were checked on a row read earlier and an SQL function can draw a new link without counting.
\* What those functions write is neither signed nor counted.
CountedIsSigned ==
  [][draft'.counter # draft.counter =>
       /\ draft'.counter = draft.counter + 1
       /\ \E i \in Requests :
            /\ request[i].phase = "loaded" /\ request'[i].phase = "written"
            /\ request[i].by = draft.key /\ request[i].slug = draft.operator
            /\ request[i].counter = draft.counter
            /\ log' = Append(log, [by |-> request[i].by, mutation |-> request[i].mutation])]_vars

\* Signatures are never lost, and no signer has two, whatever operators and other signers do meanwhile.
SignaturesStand ==
  [][/\ IsPrefix(draft.signatures, draft'.signatures)
     /\ \A m, n \in DOMAIN draft'.signatures :
          draft'.signatures[m].signer = draft'.signatures[n].signer => m = n]_vars
=============================================================================

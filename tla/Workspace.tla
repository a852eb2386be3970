------------------------------ MODULE Workspace ------------------------------
(***************************************************************************)
(* The web interface in front of the relay, on either of its surfaces: the *)
(* operations workspace (HomeOperationsWorkspace.vue), where a draft is    *)
(* composed, signed and persisted, and the view of a draft somebody else   *)
(* persisted (TransactionInfoView.vue), with the functions both build on   *)
(* (execution.js, relayPreflight.js, relayReadiness.js,                    *)
(* useUserOpSigning.js, useBroadcastReceipts.js).                          *)
(*                                                                         *)
(* Signing, persisting, checking and submitting wait for a wallet, a       *)
(* database or the relay, and the user may go on meanwhile.  While a       *)
(* submission is pending the buttons are disabled; the workspace's         *)
(* keyboard shortcut and its confirmation dialog are not.                  *)
(*                                                                         *)
(* Invocations are numbered in the order they are signed in, each with a   *)
(* nonce and a deadline of its own.  A request that timed out in the       *)
(* browser goes on in the relay, and other browsers use the relay as well. *)
(* What is written to the shared draft is the matter of SharedDraft; here  *)
(* such a write takes its time.                                            *)
(***************************************************************************)
EXTENDS Relay

CONSTANTS
  Operations,     \* what may be staged
  Signers,        \* the signers, by their EVM wallets
  Surfaces,       \* "home", the workspace, and "view", the shared draft
  MaxSubmissions  \* bound of the model: submissions at a time

ASSUME WorkspaceAssumption ==
  /\ Invocations \subseteq Nat \ {0}
  /\ Zero \notin Operations
  /\ Surfaces \subseteq {"home", "view"}
  /\ MaxSubmissions \in Nat

VARIABLES
  surface,
  issued,       \* the operations invocations were signed for
  body,         \* the operation body and the signed invocation of the transaction body
  signatures,   \* the collected signatures: [signer, invocation]
  immutable,    \* the draft is persisted
  check,        \* relayCheck, its ok that is, and relayCheckRequest
  confirming,   \* pendingConfirmation
  pending,      \* isSubmissionPending
  waits,        \* the submissions that wait for an answer
  recording,    \* how many were answered and record their outcome
  signing,      \* per signer: the operation it was asked to sign
  persisting,   \* what is on its way to the database
  checked,      \* history: the invocations the relay said would run
  overlapped    \* history: a submission was begun while another was under way
draftVars == <<issued, body, signatures, immutable, signing, persisting>>
submissionVars == <<pending, waits, recording, overlapped>>
workspaceVars == <<surface, draftVars, check, confirming, submissionVars, checked>>
allVars == <<relayVars, workspaceVars>>

NoBody == [operation |-> Zero, invocation |-> 0]
NoSnapshot == [body |-> NoBody, signatures |-> <<>>, result |-> "none"]

WorkspaceInit ==
  /\ RelayInit
  /\ surface \in Surfaces
  /\ issued = <<>> /\ body = NoBody /\ signatures = <<>>
  /\ immutable = FALSE
  /\ check = [result |-> "none", request |-> 0]
  /\ confirming = "none" /\ pending = FALSE
  /\ waits = {} /\ recording = 0
  /\ signing = [s \in Signers |-> Zero]
  /\ persisting = NoSnapshot
  /\ checked = {} /\ overlapped = FALSE

AnyMaySign(s) == FALSE  \* mutant
Signed(s) == \E k \in DOMAIN signatures : signatures[k].signer = s

\* A button that is disabled while a submission is pending; the dialog covers it.
ButtonEnabled == ~pending /\ confirming = "none"

-----------------------------------------------------------------------------
(* The draft. *)

\* Collected signatures stay.  On a persisted draft the operation is replaced before the
\* transaction body is found to be immutable.
StageOperation ==
  /\ surface = "home" /\ confirming = "none"
  /\ \E op \in Operations :
       body' = [operation |-> op, invocation |-> IF immutable THEN body.invocation ELSE 0]
  /\ UNCHANGED <<surface, relayVars, issued, signatures, immutable, signing, persisting,
                 check, confirming, submissionVars, checked>>

\* The operation is read before the chain and the wallet are asked.
StartSigning(s) ==
  /\ body # NoBody /\ signing[s] = Zero /\ ButtonEnabled
  /\ signing' = [signing EXCEPT ![s] = body.operation]
  /\ UNCHANGED <<surface, relayVars, issued, body, signatures, immutable, persisting,
                 check, confirming, submissionVars, checked>>

\* The invocation goes into whatever is staged by then; a second signature of a signer is dropped.
FinishSigning(s) ==
  LET n == Len(issued) + 1 IN
  /\ signing[s] # Zero /\ n \in Invocations
  /\ issued' = Append(issued, signing[s])
  /\ signing' = [signing EXCEPT ![s] = Zero]
  /\ body' = IF immutable THEN body ELSE [body EXCEPT !.invocation = n]
  /\ signatures' = IF Signed(s) THEN signatures
                   ELSE Append(signatures, [signer |-> s, invocation |-> n])
  /\ UNCHANGED <<surface, relayVars, immutable, persisting,
                 check, confirming, submissionVars, checked>>

SigningFails(s) ==
  /\ signing[s] # Zero
  /\ signing' = [signing EXCEPT ![s] = Zero]
  /\ UNCHANGED <<surface, relayVars, issued, body, signatures, immutable, persisting,
                 check, confirming, submissionVars, checked>>

\* By its button or its shortcut, whatever is pending.
PersistDraft ==
  /\ surface = "home"
  /\ body # NoBody /\ ~immutable /\ persisting = NoSnapshot
  /\ persisting' = [body |-> body, signatures |-> signatures, result |-> check.result]
  /\ UNCHANGED <<surface, relayVars, issued, body, signatures, immutable, signing,
                 check, confirming, submissionVars, checked>>

\* hydrateDraft: the draft becomes what was sent, whatever happened since, and a relay check
\* that was saved with it is merged over the one that is there.
Hydrate(record) ==
  /\ body' = record.body /\ signatures' = record.signatures /\ immutable' = TRUE
  /\ check' = IF record.result = "none" THEN check ELSE [check EXCEPT !.result = record.result]

DraftPersisted ==
  /\ persisting # NoSnapshot
  /\ Hydrate(persisting)
  /\ persisting' = NoSnapshot
  /\ UNCHANGED <<surface, relayVars, issued, signing, confirming, submissionVars, checked>>

PersistFails ==
  /\ persisting # NoSnapshot /\ persisting' = NoSnapshot
  /\ UNCHANGED <<surface, relayVars, issued, body, signatures, immutable, signing,
                 check, confirming, submissionVars, checked>>

\* A draft that was composed, perhaps signed, by one or several, and perhaps checked elsewhere is
\* opened by its link.  Of what was signed there, the first of each signer was collected.
LoadDraft ==
  /\ surface = "view"
  /\ body = NoBody /\ issued = <<>>
  /\ \E k \in {0} \cup Invocations :
       /\ 1..k \subseteq Invocations
       /\ issued' \in [1..k -> Operations]
       /\ \E op \in Operations, n \in 0..k, m \in 0..k, result \in {"none", "ok", "failed"} :
          \E collected \in [1..m -> [signer : Signers, invocation : 1..k]] :
            /\ k # 0 => m # 0
            /\ \A i, j \in 1..m : collected[i].signer = collected[j].signer => i = j
            /\ Hydrate([body |-> [operation |-> op, invocation |-> n],
                        signatures |-> collected, result |-> result])
  /\ UNCHANGED <<surface, relayVars, signing, persisting, confirming, submissionVars, checked>>

-----------------------------------------------------------------------------
(* What may be submitted. *)

\* selectMetaInvocation: the staged invocation if it is signed, else the first that was collected.
SelectMetaInvocation ==
  IF body.invocation # 0 THEN body.invocation
  ELSE IF body # NoBody /\ signatures # <<>> THEN signatures[1].invocation
  ELSE 0

\* evaluateRelayReadiness has a selection of its own, which looks at the signatures only.
PayloadReady == signatures # <<>>

PayloadIsThere == SelectMetaInvocation # 0  \* mutant
CheckMatchesPayload == SelectMetaInvocation # 0 /\ SelectMetaInvocation = check.request

CanRelayBroadcast == PayloadReady /\ check.result = "ok" /\ CheckMatchesPayload

\* The shortcut takes the relay if it may, and asks neither a pending submission nor an open dialog.
RequestConfirmation ==
  /\ surface = "home"
  /\ \/ CanRelayBroadcast /\ confirming' = "relay"
     \/ /\ body # NoBody /\ (ButtonEnabled \/ ~CanRelayBroadcast)
        /\ confirming' = "broadcast"
  /\ UNCHANGED <<surface, relayVars, draftVars, check, submissionVars, checked>>

CancelConfirmation ==
  /\ confirming # "none" /\ confirming' = "none"
  /\ UNCHANGED <<surface, relayVars, draftVars, check, submissionVars, checked>>

\* The confirmed dialog of the workspace, the button of the view.
Clicked(kind) == IF surface = "home" THEN confirming = kind ELSE ButtonEnabled

\* setSubmissionPending.
Begin(wait) ==
  /\ Cardinality(waits) + recording < MaxSubmissions           \* bound of the model
  /\ overlapped' = (overlapped \/ waits # {} \/ recording > 0)
  /\ waits' = waits \cup {wait}
  /\ pending' = TRUE
  /\ UNCHANGED recording

Submit(action, simulate) ==
  \E i \in Calls :
    /\ Post(i, SelectMetaInvocation, simulate)
    /\ Begin([action |-> action, call |-> i, invocation |-> SelectMetaInvocation])

CheckRelay ==
  /\ SelectMetaInvocation # 0 /\ ButtonEnabled
  /\ Submit("relay-check", TRUE)
  /\ check' = [check EXCEPT !.request = SelectMetaInvocation]
  /\ UNCHANGED <<surface, draftVars, confirming, checked>>

SubmitViaRelay ==
  /\ Clicked("relay") /\ CanRelayBroadcast
  /\ Submit("relay-submit", FALSE)
  /\ confirming' = "none"
  /\ UNCHANGED <<surface, draftVars, check, checked>>

\* The check no longer holds when the dialog is confirmed: an error is recorded, and nothing
\* counts as pending.
SubmitRefused ==
  /\ confirming = "relay" /\ ~CanRelayBroadcast
  /\ confirming' = "none" /\ pending' = FALSE
  /\ UNCHANGED <<surface, relayVars, draftVars, check, waits, recording, overlapped, checked>>

\* The Neo wallet sends the invocation itself.
Broadcasting == [action |-> "client-broadcast", call |-> Zero, invocation |-> 0]

BroadcastWithNeoWallet ==
  /\ Clicked("broadcast") /\ body # NoBody
  /\ Broadcasting \notin waits                                 \* bound of the model
  /\ Begin(Broadcasting)
  /\ confirming' = "none"
  /\ UNCHANGED <<surface, relayVars, draftVars, check, checked>>

-----------------------------------------------------------------------------
(* What comes of it. *)

\* The answer the submission waits for is there, or the browser gives up on it.
Settles(wait, kind) ==
  /\ wait \in waits
  /\ IF wait.call = Zero \/ kind = "timeout" THEN UNCHANGED call
     ELSE /\ call[wait.call].phase = "answered"
          /\ kind = call[wait.call].answer.kind
          /\ call' = [call EXCEPT ![wait.call] = NoCall]
  /\ waits' = waits \ {wait} /\ recording' = recording + 1
  /\ UNCHANGED <<surface, config, store, sent, draftVars, confirming, pending, overlapped>>

\* relayTransaction: every 200 that has no error field is a success.
Success == {"checked", "fault", "txid"}
Failure == {"refused", "error", "timeout"}

\* normalizeRelayPreflightResult tells a fault from a success; a failure is caught, and what is
\* shown of it has no ok.
PreflightResult(kind) ==
  IF kind = "checked" THEN "ok" ELSE IF kind \in Success THEN "failed" ELSE "none"

RelayChecked ==
  \E wait \in waits, kind \in Success \cup Failure :
    /\ wait.action = "relay-check"
    /\ Settles(wait, kind)
    /\ check' = [check EXCEPT !.result = PreflightResult(kind)]
    /\ checked' = IF kind = "checked" THEN checked \cup {wait.invocation} ELSE checked

Submitted ==
  /\ \E wait \in waits, kind \in Success \cup Failure :
       wait.action # "relay-check" /\ Settles(wait, kind)
  /\ UNCHANGED <<check, checked>>

\* The status, the activity and the check are written to the draft, then setSubmissionResult.
OutcomeRecorded ==
  /\ recording > 0 /\ recording' = recording - 1
  /\ pending' = FALSE
  /\ UNCHANGED <<surface, relayVars, draftVars, check, confirming, waits, overlapped, checked>>

\* Nobody waits for this answer any more.
Abandoned(i) == call[i].phase = "answered" /\ \A wait \in waits : wait.call # i

Drop ==
  /\ \E i \in Calls : Abandoned(i) /\ call' = [call EXCEPT ![i] = NoCall]
  /\ UNCHANGED <<config, store, sent, workspaceVars>>

\* Another browser with the same draft.
OtherBrowser ==
  /\ \E i \in Calls, n \in DOMAIN issued, simulate \in BOOLEAN : Post(i, n, simulate)
  /\ UNCHANGED workspaceVars

WorkspaceStep ==
  \/ StageOperation \/ LoadDraft \/ PersistDraft \/ DraftPersisted \/ PersistFails
  \/ \E s \in Signers : StartSigning(s) \/ FinishSigning(s) \/ SigningFails(s)
  \/ RequestConfirmation \/ CancelConfirmation
  \/ CheckRelay \/ SubmitViaRelay \/ SubmitRefused \/ BroadcastWithNeoWallet
  \/ RelayChecked \/ Submitted \/ OutcomeRecorded
  \/ Drop \/ OtherBrowser

WorkspaceNext ==
  \/ WorkspaceStep
  \/ RelayStep /\ UNCHANGED workspaceVars

WorkspaceSpec == WorkspaceInit /\ [][WorkspaceNext]_allVars

-----------------------------------------------------------------------------
(* Properties. *)

\* The types of the workspace's state and of the requests: what is staged, collected, checked or
\* posted was signed, and two submissions never wait for one request.
WorkspaceTypeOK ==
  /\ \A i \in Calls :
       /\ call[i].phase \in {"free", "posted", "missed", "begun", "previewed", "approved",
                             "concluded", "answered"}
       /\ call[i].answer.kind \in Kinds \cup {"none"}
       /\ call[i].invocation \in {Zero} \cup DOMAIN issued
  /\ body.invocation \in {0} \cup DOMAIN issued
  /\ \A s, t \in DOMAIN signatures : signatures[s].signer = signatures[t].signer => s = t
  /\ check.request \in {0} \cup DOMAIN issued
  /\ \A v, w \in waits : v.call = w.call => v = w
  /\ \A w \in waits : w.call # Zero => call[w.call].invocation = w.invocation

\* HomeOperationsWorkspace.vue, submitViaRelay: "Run a successful relay preflight before
\* submitting through the relay."  What is submitted is an invocation the relay was asked about
\* before and said would run.
Unchecked ==
  \E w \in waits' \ waits : w.action = "relay-submit" /\ w.invocation \notin checked
SubmittedWasChecked == [][~Unchecked]_allVars

\* In the view of a shared draft that is so always, and in the workspace for whoever composes a
\* draft and waits for each submission to end: however often the draft is restaged and signed
\* while a check is under way, fails or is given up.
PatientSubmitsChecked ==
  [][Unchecked => surface = "home" /\ (immutable \/ overlapped')]_allVars
=============================================================================

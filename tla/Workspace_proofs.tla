--------------------------- MODULE Workspace_proofs ---------------------------
(***************************************************************************)
(* What holds of the workspace and the relay for any invocations, fees,    *)
(* ceilings, configurations and numbers of requests; and, at the end, what *)
(* holds of the wallet session of the same page.                           *)
(***************************************************************************)
EXTENDS Workspace, WalletSession, FiniteSetTheorems, TLAPS

Phases == {"free", "posted", "missed", "begun", "previewed", "approved", "concluded", "answered"}
AllAnswers == [kind : Kinds \cup {"none"}, tx : Nat]
AllApprovals == [invocation : Invocations \cup {Zero}, ceiling : Nat]
AllCalls ==
  [phase : Phases, invocation : Invocations \cup {Zero}, simulate : BOOLEAN,
   approval : AllApprovals, tx : Nat, answer : AllAnswers]

CallsOK ==
  /\ call \in [Calls -> AllCalls]
  /\ \A i \in Calls : call[i].phase # "free" => call[i].invocation \in Invocations

StoreOK ==
  /\ lock \in [Fingerprints -> BOOLEAN]
  /\ cached \in [Fingerprints -> AllAnswers]
  /\ expiries \in [Fingerprints -> Nat]

RelayTypes ==
  /\ config \in RelayConfig
  /\ CallsOK /\ StoreOK
  /\ sent \in Seq([invocation : Invocations, fee : [system : Nat, network : Nat],
                   approval : AllApprovals])

\* The approval of request i allows it to be sent.
Allowed(i) ==
  /\ ~call[i].simulate /\ HasConfiguredFeeCeiling
  /\ IF config.paymaster THEN call[i].approval.invocation = call[i].invocation
     ELSE config.unsponsored

\* An answer a request with this invocation and mode may get.
Fits(answer, invocation, simulate) ==
  /\ answer.kind = "txid" =>
       /\ ~simulate /\ answer.tx \in 1..Len(sent)
       /\ sent[answer.tx].invocation = invocation
  /\ answer.kind = "checked" => simulate

CallInv(i) ==
  LET c == call[i] IN
  /\ c.phase = "previewed" /\ ~c.simulate => HasConfiguredFeeCeiling
  /\ c.phase = "approved" => Allowed(i)
  /\ c.phase \in {"posted", "missed", "begun", "previewed", "approved"} => c.tx = 0
  /\ c.phase \in {"concluded", "answered"} =>
       Fits(c.answer, c.invocation, c.simulate)
  /\ c.phase \in {"concluded", "answered"} /\ c.answer.kind \in {"refused", "fault"} => c.tx = 0
  /\ c.phase = "concluded" => c.answer.kind \in {"checked", "fault", "txid"}

RelayInv ==
  /\ RelayTypes
  /\ \A i \in Calls : CallInv(i)
  /\ \A f \in Fingerprints : Fits(cached[f], f[1], f[2])
  /\ SpendIsApproved

\* A step changes request i at most.
Only(i) == \A j \in Calls \ {i} : call'[j] = call[j]

\* A place without a request is a request that is free.
LEMMA NoCallType ==
  /\ NoCall \in AllCalls /\ NoCall.phase = "free" /\ NoCall.invocation = Zero
  /\ NoCall.tx = 0 /\ NoAnswer \in AllAnswers
BY DEF NoCall, AllCalls, Phases, AllApprovals, AllAnswers, Unsponsored, NoAnswer

\* The key of the store is the invocation and the mode.
LEMMA FingerprintType ==
  ASSUME CallsOK, NEW i \in Calls, call[i].phase # "free"
  PROVE  /\ Fingerprint(call[i]) \in Fingerprints
         /\ Fingerprint(call[i])[1] = call[i].invocation
         /\ Fingerprint(call[i])[2] = call[i].simulate
BY DEF CallsOK, AllCalls, Fingerprint, Fingerprints

\* An answer changes the phase of its request and nothing else of any.
LEMMA AnsweredTypes ==
  ASSUME CallsOK, NEW i \in Calls, call[i].phase # "free", NEW a \in AllAnswers,
         call' = Answered(i, a)
  PROVE  /\ CallsOK' /\ Only(i)
         /\ call'[i].phase = "answered" /\ call'[i].answer = a
         /\ call'[i].invocation = call[i].invocation /\ call'[i].simulate = call[i].simulate
         /\ call'[i].tx = call[i].tx
<1>1. [call[i] EXCEPT !.phase = "answered", !.answer = a, !.approval = Unsponsored] \in AllCalls
  BY DEF CallsOK, AllCalls, Phases, Unsponsored, AllApprovals
<1>2. call' = [call EXCEPT ![i] =
         [call[i] EXCEPT !.phase = "answered", !.answer = a, !.approval = Unsponsored]]
  BY DEF Answered
<1> QED BY <1>1, <1>2 DEF CallsOK, AllCalls, Only

\* So does going on to the next phase.
LEMMA GoTypes ==
  ASSUME CallsOK, NEW i \in Calls, call[i].phase # "free", NEW phase \in Phases, Go(i, phase)
  PROVE  /\ CallsOK' /\ Only(i)
         /\ call'[i].phase = phase /\ call'[i].answer = call[i].answer
         /\ call'[i].invocation = call[i].invocation /\ call'[i].simulate = call[i].simulate
         /\ call'[i].tx = call[i].tx
<1>1. [call[i] EXCEPT !.phase = phase] \in AllCalls  BY DEF CallsOK, AllCalls
<1> QED BY <1>1 DEF Go, CallsOK, AllCalls, Only

\* So does a conclusion.
LEMMA ConcludeTypes ==
  ASSUME CallsOK, NEW i \in Calls, call[i].phase # "free", NEW a \in AllAnswers, Conclude(i, a)
  PROVE  /\ CallsOK' /\ Only(i)
         /\ call'[i].phase = "concluded" /\ call'[i].answer = a
         /\ call'[i].invocation = call[i].invocation /\ call'[i].simulate = call[i].simulate
         /\ call'[i].tx = call[i].tx
<1>1. [call[i] EXCEPT !.phase = "concluded", !.answer = a] \in AllCalls
  BY DEF CallsOK, AllCalls, Phases
<1> QED BY <1>1 DEF Conclude, CallsOK, AllCalls, Only

-----------------------------------------------------------------------------
(* The relay's answers and spendings.                                      *)

\* A step of one request has to be looked at for this request only.
LEMMA OneRequest ==
  ASSUME RelayInv, NEW i \in Calls, Only(i), CallsOK', CallInv(i)', UNCHANGED <<config, sent>>,
         StoreOK', \A f \in Fingerprints : Fits(cached[f], f[1], f[2])'
  PROVE  RelayInv'
<1>1. RelayTypes'  BY DEF RelayInv, RelayTypes
<1>2. \A j \in Calls : CallInv(j)'
  BY DEF RelayInv, CallInv, Only, Allowed, Fits, HasConfiguredFeeCeiling
<1>3. SpendIsApproved'
  BY DEF RelayInv, SpendIsApproved, HasConfiguredFeeCeiling
<1> QED BY <1>1, <1>2, <1>3 DEF RelayInv

\* Stored answers that stay as they are still fit.
LEMMA SameStore ==
  ASSUME RelayInv, UNCHANGED <<cached, sent>>
  PROVE  \A f \in Fingerprints : Fits(cached[f], f[1], f[2])'
BY DEF RelayInv, Fits

\* A failure says nothing of a transaction, so it is a true answer.
LEMMA FailInv ==
  ASSUME RelayInv, NEW i \in Calls, call[i].phase \in {"begun", "previewed", "approved"},
         NEW kind \in {"refused", "error"}, Fail(i, kind), UNCHANGED <<config, sent>>
  PROVE  RelayInv'
<1>1. Reply(kind) \in AllAnswers  BY DEF Reply, AllAnswers, Kinds
<1>2. call' = Answered(i, Reply(kind))  BY DEF Fail
<1>3. CallsOK' /\ Only(i) /\ CallInv(i)'
  BY <1>1, <1>2, AnsweredTypes DEF RelayInv, RelayTypes, CallInv, Reply, Fits
<1>4. Fingerprint(call[i]) \in Fingerprints  BY FingerprintType DEF RelayInv, RelayTypes
<1>5. StoreOK' /\ cached' = cached
  BY <1>4 DEF Fail, RelayInv, RelayTypes, StoreOK
<1> QED BY <1>3, <1>5, OneRequest, SameStore

\* Looking up the stored answer and taking the lock keep the invariant.
LEMMA BeginInv ==
  ASSUME RelayInv, NEW i \in Calls, Replay(i) \/ Miss(i) \/ TakeLock(i) \/ InProgress(i)
  PROVE  RelayInv'
<1> USE DEF RelayInv, RelayTypes
<1>1. CASE Replay(i)
  <2>1. call[i].phase = "posted" /\ call' = Answered(i, cached[Fingerprint(call[i])])
        /\ UNCHANGED <<config, store, sent>>
    BY <1>1 DEF Replay, In
  <2>2. /\ Fingerprint(call[i]) \in Fingerprints
        /\ Fingerprint(call[i])[1] = call[i].invocation
        /\ Fingerprint(call[i])[2] = call[i].simulate
    BY <2>1, FingerprintType
  <2>3. cached[Fingerprint(call[i])] \in AllAnswers
        /\ Fits(cached[Fingerprint(call[i])], call[i].invocation, call[i].simulate)
    BY <2>2 DEF StoreOK
  <2>4. CallsOK' /\ Only(i) /\ CallInv(i)'
    BY <2>1, <2>3, AnsweredTypes DEF CallInv, Fits
  <2> QED BY <2>1, <2>4, OneRequest, SameStore DEF store, StoreOK
<1>2. CASE Miss(i)
  <2>1. CallsOK' /\ Only(i) /\ CallInv(i)'
    BY <1>2, GoTypes DEF Miss, In, Phases, CallInv
  <2> QED BY <1>2, <2>1, OneRequest, SameStore DEF Miss, store, StoreOK
<1>3. CASE TakeLock(i)
  <2>1. CallsOK' /\ Only(i) /\ CallInv(i)'
    BY <1>3, GoTypes DEF TakeLock, In, Phases, CallInv
  <2>2. Fingerprint(call[i]) \in Fingerprints
    BY <1>3, FingerprintType DEF TakeLock, In
  <2>3. StoreOK'
    BY <1>3, <2>2 DEF TakeLock, StoreOK, RelayConfig
  <2> QED BY <1>3, <2>1, <2>3, OneRequest, SameStore DEF TakeLock
<1>4. CASE InProgress(i)
  <2>1. Reply("refused") \in AllAnswers  BY DEF Reply, AllAnswers, Kinds
  <2>2. CallsOK' /\ Only(i) /\ CallInv(i)'
    BY <1>4, <2>1, AnsweredTypes DEF InProgress, In, CallInv, Reply, Fits
  <2> QED BY <1>4, <2>2, OneRequest, SameStore DEF InProgress, store, StoreOK
<1> QED BY <1>1, <1>2, <1>3, <1>4

\* Refusals, the preview and the approval keep the invariant.
LEMMA WorkInv ==
  ASSUME RelayInv, NEW i \in Calls,
         Refuse(i) \/ Preview(i) \/ Throw(i) \/ Authorize(i) \/ Deny(i)
  PROVE  RelayInv'
<1> USE DEF RelayInv, RelayTypes
<1>0. ASSUME NEW kind \in {"fault", "checked"}, Conclude(i, Reply(kind)),
             call[i].phase \in {"begun", "previewed"}, kind = "checked" => call[i].simulate,
             UNCHANGED <<config, store, sent>>
      PROVE  RelayInv'
  <2>1. Reply(kind) \in AllAnswers  BY DEF Reply, AllAnswers, Kinds
  <2>2. CallsOK' /\ Only(i) /\ CallInv(i)'
    BY <1>0, <2>1, ConcludeTypes DEF CallInv, Reply, Fits
  <2> QED BY <1>0, <2>2, OneRequest, SameStore DEF store, StoreOK
<1>1. CASE Refuse(i)
  BY <1>1, FailInv DEF Refuse, In
<1>2. CASE Preview(i)
  <2>1. CASE Go(i, "previewed")
    <3>1. CallsOK' /\ Only(i) /\ CallInv(i)'
      BY <1>2, <2>1, GoTypes
         DEF Preview, In, Phases, CallInv, MayBroadcast, HasConfiguredFeeCeiling
    <3> QED BY <1>2, <3>1, OneRequest, SameStore DEF Preview, store, StoreOK
  <2>2. CASE Conclude(i, Reply("fault"))
    BY <1>0, <1>2, <2>2 DEF Preview, In
  <2> QED BY <1>2, <2>1, <2>2 DEF Preview
<1>3. CASE Throw(i)
  BY <1>3, FailInv DEF Throw, In
<1>4. CASE Authorize(i)
  <2>1. PICK a \in Approvals(call[i]) :
          /\ call[i].phase = "previewed" /\ UNCHANGED <<config, store, sent>>
          /\ IF call[i].simulate THEN Conclude(i, Reply("checked"))
             ELSE call' = [call EXCEPT ![i].phase = "approved", ![i].approval = a]
    BY <1>4 DEF Authorize, In
  <2>2. CASE call[i].simulate
    BY <1>0, <2>1, <2>2
  <2>3. CASE ~call[i].simulate
    <3>1. a \in AllApprovals
      <4>1. Unsponsored \in AllApprovals  BY DEF Unsponsored, AllApprovals
      <4>2. [invocation : Invocations, ceiling : Ceilings] \subseteq AllApprovals
        BY RelayAssumption DEF AllApprovals
      <4> QED BY <4>1, <4>2 DEF Approvals
    <3>2. IF config.paymaster THEN a.invocation = call[i].invocation ELSE config.unsponsored
      BY DEF Approvals, VerifyPaymasterApproval
    <3>3. [call[i] EXCEPT !.phase = "approved", !.approval = a] \in AllCalls
      BY <3>1 DEF CallsOK, AllCalls, Phases
    <3>4. call' = [call EXCEPT ![i] = [call[i] EXCEPT !.phase = "approved", !.approval = a]]
      BY <2>1, <2>3
    <3>5. CallsOK' /\ Only(i) /\ call'[i] = [call[i] EXCEPT !.phase = "approved", !.approval = a]
      BY <2>1, <3>3, <3>4 DEF CallsOK, AllCalls, Only
    <3>6. HasConfiguredFeeCeiling'
      BY <2>1, <2>3 DEF CallInv, HasConfiguredFeeCeiling
    <3>7. CallInv(i)'
      BY <2>1, <2>3, <3>2, <3>5, <3>6 DEF CallInv, Allowed, CallsOK, AllCalls
    <3> QED BY <2>1, <3>5, <3>7, OneRequest, SameStore DEF store, StoreOK
  <2> QED BY <2>2, <2>3
<1>5. CASE Deny(i)
  <2>1. CASE call[i].simulate
    BY <1>0, <1>5, <2>1 DEF Deny, In
  <2>2. CASE ~call[i].simulate
    BY <1>5, <2>2, FailInv DEF Deny, In
  <2> QED BY <2>1, <2>2
<1> QED BY <1>1, <1>2, <1>3, <1>4, <1>5

\* What is sent is what was approved.
LEMMA BroadcastInv ==
  ASSUME RelayInv, NEW i \in Calls, Broadcast(i)
  PROVE  RelayInv'
<1> USE DEF RelayInv, RelayTypes
<1>1. PICK fee \in Fees :
        /\ EnforceRelayFeePolicy(fee, call[i].approval)
        /\ sent' = Append(sent, [invocation |-> call[i].invocation, fee |-> fee,
                                 approval |-> call[i].approval])
  BY DEF Broadcast
<1>2. /\ call[i].phase = "approved" /\ call[i].invocation \in Invocations
      /\ call[i].approval \in AllApprovals /\ call[i] \in AllCalls
      /\ config' = config /\ Allowed(i)
  BY DEF Broadcast, In, CallsOK, AllCalls, CallInv
<1> DEFINE transaction == [invocation |-> call[i].invocation, fee |-> fee,
                           approval |-> call[i].approval]
<1>3. /\ transaction \in [invocation : Invocations, fee : [system : Nat, network : Nat],
                          approval : AllApprovals]
      /\ sent' = Append(sent, transaction)
  BY <1>1, <1>2, RelayAssumption
<1>4. /\ sent' \in Seq([invocation : Invocations, fee : [system : Nat, network : Nat],
                        approval : AllApprovals])
      /\ Len(sent') = Len(sent) + 1 /\ sent'[Len(sent')] = transaction
      /\ \A n \in 1..Len(sent) : sent'[n] = sent[n]
      /\ Len(sent) \in Nat
  BY <1>3
<1>5. \A n, invocation :
        n \in 1..Len(sent) /\ sent[n].invocation = invocation =>
          n \in 1..Len(sent') /\ sent'[n].invocation = invocation
  <2>1. \A n \in 1..Len(sent) : n \in 1..Len(sent') /\ sent'[n] = sent[n]
    BY <1>4
  <2> QED BY <2>1, Zenon
<1>6. SpendIsApproved'
  <2>1. /\ HasConfiguredFeeCeiling
        /\ IF config.paymaster THEN call[i].approval.invocation = call[i].invocation
           ELSE config.unsponsored
    BY <1>2 DEF Allowed
  <2>2. EnforceRelayFeePolicy(fee, call[i].approval)  BY <1>1
  <2>3. DOMAIN sent' = 1..(Len(sent) + 1) /\ DOMAIN sent = 1..Len(sent)  BY <1>4
  <2>4. ASSUME NEW n \in 1..Len(sent)
        PROVE  LET total == sent'[n].fee.system + sent'[n].fee.network IN
               /\ HasConfiguredFeeCeiling
               /\ IF config.paymaster
                  THEN /\ sent'[n].approval.invocation = sent'[n].invocation
                       /\ Within(total, sent'[n].approval.ceiling)
                  ELSE config.unsponsored
               /\ Within(sent'[n].fee.system, config.maxSystem)
               /\ Within(sent'[n].fee.network, config.maxNetwork)
               /\ Within(total, config.maxTotal)
    BY <1>4, <2>3 DEF SpendIsApproved
  <2>5. LET total == transaction.fee.system + transaction.fee.network IN
        /\ HasConfiguredFeeCeiling
        /\ IF config.paymaster
           THEN /\ transaction.approval.invocation = transaction.invocation
                /\ Within(total, transaction.approval.ceiling)
           ELSE config.unsponsored
        /\ Within(transaction.fee.system, config.maxSystem)
        /\ Within(transaction.fee.network, config.maxNetwork)
        /\ Within(total, config.maxTotal)
    BY <2>1, <2>2 DEF EnforceRelayFeePolicy
  <2>6. HasConfiguredFeeCeiling' = HasConfiguredFeeCeiling
    BY <1>2 DEF HasConfiguredFeeCeiling
  <2>7. \A n \in DOMAIN sent' : n \in 1..Len(sent) \/ (n = Len(sent') /\ sent'[n] = transaction)
    BY <1>4, <2>3
  <2> HIDE DEF transaction
  <2> QED BY <1>2, <2>4, <2>5, <2>6, <2>7 DEF SpendIsApproved
<1>7. ASSUME CallsOK', Only(i), CallInv(i)', StoreOK', cached' = cached
      PROVE  RelayInv'
  <2>1. ASSUME NEW j \in Calls \ {i} PROVE CallInv(j)'
    <3>1. call'[j] = call[j] /\ CallInv(j)  BY <1>7 DEF Only
    <3>2. HasConfiguredFeeCeiling' = HasConfiguredFeeCeiling
      BY <1>2 DEF HasConfiguredFeeCeiling
    <3>3. Fits(call[j].answer, call[j].invocation, call[j].simulate) =>
            Fits(call[j].answer, call[j].invocation, call[j].simulate)'
      BY SMTT(30), <1>5, <3>1 DEF Fits
    <3> QED BY <1>2, <3>1, <3>2, <3>3 DEF CallInv, Allowed
  <2>2. \A f \in Fingerprints : Fits(cached[f], f[1], f[2])'
    <3>1. TAKE f \in Fingerprints
    <3>2. Fits(cached[f], f[1], f[2])  OBVIOUS
    <3> QED BY <1>5, <1>7, <3>2 DEF Fits
  <2> QED BY <1>2, <1>4, <1>6, <1>7, <2>1, <2>2
<1>8. CASE Fail(i, "error")
  <2>1. Reply("error") \in AllAnswers  BY DEF Reply, AllAnswers, Kinds
  <2>2. CallsOK' /\ Only(i) /\ CallInv(i)'
    BY <1>2, <1>8, <2>1, AnsweredTypes DEF Fail, CallInv, Reply, Fits
  <2>3. Fingerprint(call[i]) \in Fingerprints  BY <1>2, FingerprintType
  <2>4. StoreOK' /\ cached' = cached  BY <1>8, <2>3 DEF Fail, StoreOK
  <2> QED BY <1>7, <2>2, <2>4
<1>9. CASE /\ call' = [call EXCEPT ![i].phase = "concluded", ![i].tx = Len(sent'),
                                   ![i].answer = [kind |-> "txid", tx |-> Len(sent')]]
           /\ UNCHANGED store
  <2>1. [call[i] EXCEPT !.phase = "concluded", !.tx = Len(sent'),
                        !.answer = [kind |-> "txid", tx |-> Len(sent')]] \in AllCalls
    <3>1. [kind |-> "txid", tx |-> Len(sent')] \in AllAnswers /\ Len(sent') \in Nat
      BY <1>4 DEF AllAnswers, Kinds
    <3> QED BY <1>2, <3>1 DEF AllCalls, Phases
  <2>2. /\ CallsOK' /\ Only(i)
        /\ call'[i].phase = "concluded" /\ call'[i].answer = [kind |-> "txid", tx |-> Len(sent')]
        /\ call'[i].invocation = call[i].invocation /\ call'[i].simulate = call[i].simulate
    BY <1>2, <1>9, <2>1 DEF CallsOK, AllCalls, Only
  <2>3. ~call[i].simulate  BY <1>2 DEF Allowed
  <2>4. CallInv(i)'  BY <1>4, <2>2, <2>3 DEF CallInv, Fits
  <2> QED BY <1>7, <1>9, <2>2, <2>4 DEF store, StoreOK
<1> QED BY <1>8, <1>9 DEF Broadcast

\* What is stored is what the request did.
LEMMA CompleteInv ==
  ASSUME RelayInv, NEW i \in Calls, Complete(i) \/ NotRecorded(i) \/ Die(i)
  PROVE  RelayInv'
<1> USE DEF RelayInv, RelayTypes
<1>1. ASSUME StoreAnswer(i), call[i].phase = "concluded"
      PROVE  /\ cached' \in [Fingerprints -> AllAnswers]
             /\ \A f \in Fingerprints :
                  \/ cached'[f] = cached[f]
                  \/ /\ cached'[f] = call[i].answer
                     /\ f[1] = call[i].invocation /\ f[2] = call[i].simulate
  <2>1. /\ Fingerprint(call[i]) \in Fingerprints
        /\ Fingerprint(call[i])[1] = call[i].invocation
        /\ Fingerprint(call[i])[2] = call[i].simulate
    BY <1>1, FingerprintType
  <2>2. call[i].answer \in AllAnswers  BY DEF CallsOK, AllCalls
  <2>3. cached' = [cached EXCEPT ![Fingerprint(call[i])] =
                     IF config.upstash THEN call[i].answer ELSE cached[Fingerprint(call[i])]]
    BY <1>1 DEF StoreAnswer
  <2>4. ASSUME NEW f \in Fingerprints
        PROVE  \/ cached'[f] = cached[f]
               \/ /\ cached'[f] = call[i].answer
                  /\ f[1] = call[i].invocation /\ f[2] = call[i].simulate
    <3>1. CASE f = Fingerprint(call[i])  BY <2>1, <2>3, <3>1 DEF StoreOK
    <3>2. CASE f # Fingerprint(call[i])  BY <2>1, <2>3, <3>2 DEF StoreOK
    <3> QED BY <3>1, <3>2
  <2>5. cached' \in [Fingerprints -> AllAnswers]
    BY <2>1, <2>2, <2>3 DEF StoreOK
  <2> QED BY <2>4, <2>5, Zenon
<1>2. ASSUME call[i].phase = "concluded", StoreAnswer(i) \/ cached' = cached, sent' = sent
      PROVE  /\ cached' \in [Fingerprints -> AllAnswers]
             /\ \A f \in Fingerprints : Fits(cached[f], f[1], f[2])'
  <2>1. Fits(call[i].answer, call[i].invocation, call[i].simulate)  BY <1>2 DEF CallInv
  <2> QED BY <1>1, <1>2, <2>1 DEF Fits, StoreOK
<1>3. ASSUME call[i].phase # "free", NEW held \in BOOLEAN,
             lock' = [lock EXCEPT ![Fingerprint(call[i])] = held]
      PROVE  lock' \in [Fingerprints -> BOOLEAN]
  BY <1>3, FingerprintType DEF StoreOK
<1>4. CASE Complete(i)
  <2>1. call[i].phase = "concluded" /\ call[i].answer \in AllAnswers
    BY <1>4 DEF Complete, In, CallsOK, AllCalls
  <2>2. CallsOK' /\ Only(i) /\ CallInv(i)'
    <3>1. /\ CallsOK' /\ Only(i)
          /\ call'[i].phase = "answered" /\ call'[i].answer = call[i].answer
          /\ call'[i].invocation = call[i].invocation /\ call'[i].simulate = call[i].simulate
          /\ call'[i].tx = call[i].tx
      BY <1>4, <2>1, AnsweredTypes DEF Complete
    <3>2. Fits(call[i].answer, call[i].invocation, call[i].simulate)
          /\ (call[i].answer.kind \in {"refused", "fault"} => call[i].tx = 0)
      BY <2>1 DEF CallInv
    <3> QED BY <1>4, <3>1, <3>2 DEF Complete, CallInv, Fits
  <2>3. StoreOK' /\ \A f \in Fingerprints : Fits(cached[f], f[1], f[2])'
    BY <1>2, <1>3, <1>4, <2>1 DEF Complete, StoreOK
  <2> QED BY <1>4, <2>2, <2>3, OneRequest DEF Complete
<1>5. CASE NotRecorded(i)
  <2>1. Reply("error") \in AllAnswers  BY DEF Reply, AllAnswers, Kinds
  <2>2. call[i].phase = "concluded"  BY <1>5 DEF NotRecorded, In
  <2>3. CallsOK' /\ Only(i) /\ CallInv(i)'
    BY <1>5, <2>1, <2>2, AnsweredTypes DEF NotRecorded, CallInv, Reply, Fits
  <2>4. lock' \in [Fingerprints -> BOOLEAN]
    <3>1. PICK held \in BOOLEAN :
            lock' = [lock EXCEPT ![Fingerprint(call[i])] = @ /\ held]
      BY <1>5 DEF NotRecorded
    <3>2. Fingerprint(call[i]) \in Fingerprints  BY <2>2, FingerprintType
    <3> QED BY <3>1, <3>2 DEF StoreOK
  <2>5. StoreOK' /\ \A f \in Fingerprints : Fits(cached[f], f[1], f[2])'
    BY <1>2, <1>5, <2>2, <2>4 DEF NotRecorded, StoreOK
  <2> QED BY <1>5, <2>3, <2>5, OneRequest DEF NotRecorded
<1>6. CASE Die(i)
  <2>1. Reply("error") \in AllAnswers  BY DEF Reply, AllAnswers, Kinds
  <2>2. CallsOK' /\ Only(i) /\ CallInv(i)'
    BY <1>6, <2>1, AnsweredTypes DEF Die, CallInv, Reply, Fits
  <2> QED BY <1>6, <2>2, OneRequest, SameStore DEF Die, store, StoreOK
<1> QED BY <1>4, <1>5, <1>6

\* Every step of the relay keeps its invariant.
LEMMA RelayStepInv ==
  ASSUME RelayInv, RelayStep
  PROVE  RelayInv'
<1>1. ASSUME NEW i \in Calls, Serve(i) PROVE RelayInv'
  BY <1>1, BeginInv, WorkInv, BroadcastInv, CompleteInv DEF Serve
<1>2. ASSUME UNCHANGED <<config, call, sent>>, StoreOK',
             \A f \in Fingerprints : Fits(cached[f], f[1], f[2])'
      PROVE  RelayInv'
  BY <1>2 DEF RelayInv, RelayTypes, CallsOK, CallInv, Allowed, Fits, HasConfiguredFeeCeiling,
              SpendIsApproved
<1>3. ASSUME NEW f \in Fingerprints, ExpireLock(f) PROVE RelayInv'
  BY <1>2, <1>3, SameStore DEF ExpireLock, RelayInv, RelayTypes, StoreOK
<1>4. ASSUME NEW f \in Fingerprints, ExpireAnswer(f) PROVE RelayInv'
  <2>1. StoreOK'
    BY <1>4, NoCallType DEF ExpireAnswer, RelayInv, RelayTypes, StoreOK
  <2>2. \A g \in Fingerprints : cached'[g] \in {cached[g], NoAnswer}
    BY <1>4 DEF ExpireAnswer, RelayInv, RelayTypes, StoreOK
  <2>3. \A g \in Fingerprints : Fits(cached[g], g[1], g[2])'
    BY <1>4, <2>2 DEF ExpireAnswer, RelayInv, Fits, NoAnswer
  <2> QED BY <1>2, <1>4, <2>1, <2>3 DEF ExpireAnswer
<1> QED BY <1>1, <1>3, <1>4 DEF RelayStep

-----------------------------------------------------------------------------
(* The workspace. *)

Results == {"none", "ok", "failed"}
Bodies == [operation : Operations \cup {Zero}, invocation : Nat]
SignatureLists == Seq([signer : Signers, invocation : Nat])
Records == [body : Bodies, signatures : SignatureLists, result : Results]

\* A body and signatures that may be those of a draft, when these invocations are signed.
DraftOK(b, collected, known) ==
  /\ b \in Bodies /\ b.invocation \in {0} \cup known
  /\ collected \in SignatureLists
  /\ \A k \in DOMAIN collected : collected[k].invocation \in known
  /\ \A k, m \in DOMAIN collected : collected[k].signer = collected[m].signer => k = m

DraftTypes ==
  /\ issued \in Seq(Operations) /\ DOMAIN issued \subseteq Invocations
  /\ DraftOK(body, signatures, DOMAIN issued)
  /\ immutable \in BOOLEAN
  /\ signing \in [Signers -> Operations \cup {Zero}]
  /\ persisting \in Records /\ DraftOK(persisting.body, persisting.signatures, DOMAIN issued)

Waits == [action : {"relay-check", "relay-submit", "client-broadcast"},
          call : Calls \cup {Zero}, invocation : Nat]

\* Each submission that waits has a request of its own, which is about its invocation.
WaitTypes ==
  /\ waits \subseteq Waits
  /\ \A v, w \in waits : v.call = w.call => v = w
  /\ \A w \in waits : w.call = Zero => w = Broadcasting
  /\ \A w \in waits :
       w.call # Zero => call[w.call].phase # "free" /\ call[w.call].invocation = w.invocation

SubmitTypes ==
  /\ check \in [result : Results, request : Nat] /\ check.request \in {0} \cup DOMAIN issued
  /\ pending \in BOOLEAN /\ overlapped \in BOOLEAN /\ recording \in Nat
  /\ WaitTypes

CallsAreIssued == \A i \in Calls : call[i].invocation \in {Zero} \cup DOMAIN issued

WorkspaceInv ==
  /\ RelayInv /\ DraftTypes /\ SubmitTypes /\ CallsAreIssued

\* A step of the relay does not tell a request from its invocation, nor forget it.
SameRequests ==
  \A i \in Calls :
    /\ call'[i].invocation = call[i].invocation
    /\ call[i].phase # "free" => call'[i].phase # "free"

\* The relay changes no request into another.
LEMMA RelayFrame ==
  ASSUME RelayInv, RelayStep
  PROVE  SameRequests
<1> USE DEF RelayInv, RelayTypes, CallsOK, AllCalls, SameRequests
<1>1. ASSUME NEW i \in Calls, NEW a, call' = Answered(i, a) PROVE SameRequests
  BY <1>1 DEF Answered
<1>2. ASSUME NEW i \in Calls, NEW phase, phase # "free", Go(i, phase) PROVE SameRequests
  BY <1>2 DEF Go
<1>3. ASSUME NEW i \in Calls, NEW a, Conclude(i, a) PROVE SameRequests
  BY <1>3 DEF Conclude
<1>4. ASSUME NEW i \in Calls, NEW kind, Fail(i, kind) PROVE SameRequests
  BY <1>1, <1>4 DEF Fail
<1>5. ASSUME NEW i \in Calls, Serve(i) PROVE SameRequests
  <2>1. CASE Replay(i) \/ InProgress(i) \/ Complete(i) \/ NotRecorded(i) \/ Die(i)
    BY <1>1, <2>1 DEF Replay, InProgress, Complete, NotRecorded, Die
  <2>2. CASE Miss(i) \/ TakeLock(i)
    BY <1>2, <2>2 DEF Miss, TakeLock
  <2>3. CASE Refuse(i) \/ Throw(i)
    BY <1>4, <2>3 DEF Refuse, Throw
  <2>4. CASE Preview(i)
    BY <1>2, <1>3, <2>4 DEF Preview
  <2>5. CASE Authorize(i)
    BY <1>3, <2>5 DEF Authorize
  <2>6. CASE Deny(i)
    BY <1>3, <1>4, <2>6 DEF Deny
  <2>7. CASE Broadcast(i)
    BY <1>4, <2>7 DEF Broadcast
  <2> QED BY <1>5, <2>1, <2>2, <2>3, <2>4, <2>5, <2>6, <2>7 DEF Serve
<1>6. ASSUME NEW f \in Fingerprints, ExpireLock(f) \/ ExpireAnswer(f) PROVE SameRequests
  BY <1>6 DEF ExpireLock, ExpireAnswer
<1> QED BY <1>5, <1>6 DEF RelayStep

\* At first nothing is asked, stored, staged or sent.
LEMMA InitInv == WorkspaceInit => WorkspaceInv
<1> SUFFICES ASSUME WorkspaceInit PROVE WorkspaceInv
  OBVIOUS
<1> USE DEF WorkspaceInit, RelayInit
<1>1. RelayTypes
  BY RelayAssumption, NoCallType DEF RelayTypes, CallsOK, StoreOK
<1>2. /\ \A i \in Calls : CallInv(i)
      /\ \A f \in Fingerprints : Fits(cached[f], f[1], f[2])
      /\ SpendIsApproved
  BY DEF CallInv, NoCall, Fits, NoAnswer, SpendIsApproved
<1>3. DraftOK(NoBody, <<>>, {})
  BY DEF DraftOK, NoBody, Bodies, SignatureLists
<1>4. DraftTypes
  <2>1. issued \in Seq(Operations) /\ DOMAIN issued = {}  OBVIOUS
  <2>2. NoSnapshot.body = NoBody /\ NoSnapshot.signatures = <<>> /\ NoSnapshot \in Records
    BY <1>3 DEF NoSnapshot, DraftOK, Records, Results
  <2> QED BY <1>3, <2>1, <2>2 DEF DraftTypes
<1>5. SubmitTypes /\ CallsAreIssued
  BY DEF SubmitTypes, WaitTypes, CallsAreIssued, NoCall, Results
<1> QED BY <1>1, <1>2, <1>4, <1>5 DEF WorkspaceInv, RelayInv

\* A request is posted, or one is forgotten: the relay's promises do not depend on it.
LEMMA RequestInv ==
  ASSUME RelayInv, UNCHANGED <<config, store, sent>>, NEW i \in Calls, NEW c \in AllCalls,
         c.phase \in {"free", "posted"}, c.tx = 0,
         c.phase = "posted" => c.invocation \in Invocations,
         call' = [call EXCEPT ![i] = c]
  PROVE  RelayInv'
<1>1. CallsOK' /\ Only(i) /\ call'[i] = c  BY DEF RelayInv, RelayTypes, CallsOK, Only
<1>2. CallInv(i)'  BY <1>1 DEF CallInv
<1> QED BY <1>1, <1>2, OneRequest, SameStore DEF RelayInv, RelayTypes, store, StoreOK

\* A request begins with nothing done.
LEMMA PostInv ==
  ASSUME RelayInv, NEW i \in Calls, NEW n \in Invocations, NEW simulate \in BOOLEAN,
         Post(i, n, simulate)
  PROVE  /\ RelayInv'
         /\ call'[i].phase = "posted" /\ call'[i].invocation = n /\ Only(i)
<1> DEFINE c == [NoCall EXCEPT !.phase = "posted", !.invocation = n, !.simulate = simulate]
<1>1. c \in AllCalls /\ c.phase = "posted" /\ c.tx = 0 /\ c.invocation = n
  BY NoCallType DEF AllCalls, Phases
<1>2. call' = [call EXCEPT ![i] = c] /\ UNCHANGED <<config, store, sent>>
  BY DEF Post
<1> HIDE DEF c
<1>3. RelayInv'  BY <1>1, <1>2, RequestInv
<1> QED BY <1>1, <1>2, <1>3 DEF RelayInv, RelayTypes, CallsOK, Only

\* A request nobody waits for any more is free to be used again.
LEMMA ForgetInv ==
  ASSUME RelayInv, NEW i \in Calls, UNCHANGED <<config, store, sent>>,
         call' = [call EXCEPT ![i] = NoCall]
  PROVE  RelayInv' /\ call'[i] = NoCall /\ Only(i)
<1>1. RelayInv'  BY NoCallType, RequestInv
<1> QED BY <1>1 DEF RelayInv, RelayTypes, CallsOK, Only

\* Steps elsewhere keep what the relay promises.
LEMMA RelayUnchanged ==
  ASSUME RelayInv, UNCHANGED relayVars
  PROVE  RelayInv'
BY DEF RelayInv, RelayTypes, CallsOK, StoreOK, CallInv, Allowed, Fits, HasConfiguredFeeCeiling,
       SpendIsApproved, relayVars, store

\* What was in order with fewer invocations is with more.
LEMMA MoreIsKnown ==
  ASSUME NEW b, NEW collected, NEW known, NEW more, DraftOK(b, collected, known), known \subseteq more
  PROVE  DraftOK(b, collected, more)
BY DEF DraftOK

\* The steps that only change the draft.
LEMMA DraftStepInv ==
  ASSUME WorkspaceInv, UNCHANGED <<relayVars, check, submissionVars>>,
         \/ StageOperation \/ PersistDraft \/ PersistFails
         \/ \E s \in Signers : StartSigning(s) \/ SigningFails(s) \/ FinishSigning(s)
  PROVE  WorkspaceInv'
<1> USE DEF WorkspaceInv
<1>1. RelayInv'  BY RelayUnchanged
<1>2. UNCHANGED <<call, check, pending, waits, recording, overlapped>>
  BY DEF relayVars, submissionVars
<1>3. ASSUME DraftTypes', DOMAIN issued \subseteq DOMAIN issued'
      PROVE  WorkspaceInv'
  BY <1>1, <1>2, <1>3 DEF SubmitTypes, WaitTypes, CallsAreIssued
<1> HIDE DEF WorkspaceInv
<1>4. DraftTypes /\ SubmitTypes  BY DEF WorkspaceInv
<1>5. CASE StageOperation
  <2>1. PICK op \in Operations :
          body' = [operation |-> op, invocation |-> IF immutable THEN body.invocation ELSE 0]
    BY <1>5 DEF StageOperation
  <2>2. DraftOK(body', signatures, DOMAIN issued)
    BY <1>4, <2>1 DEF DraftTypes, DraftOK, Bodies
  <2> QED BY <1>3, <1>4, <1>5, <2>2 DEF StageOperation, DraftTypes
<1>6. CASE PersistDraft
  <2>1. persisting' \in Records /\ persisting'.body = body /\ persisting'.signatures = signatures
    BY <1>4, <1>6 DEF PersistDraft, DraftTypes, DraftOK, Records, SubmitTypes
  <2> QED BY <1>3, <1>4, <1>6, <2>1 DEF PersistDraft, DraftTypes
<1>7. CASE PersistFails
  <2>1. DraftOK(NoBody, <<>>, DOMAIN issued) /\ NoSnapshot \in Records
    BY DEF DraftOK, NoBody, Bodies, SignatureLists, NoSnapshot, Records, Results
  <2>2. NoSnapshot.body = NoBody /\ NoSnapshot.signatures = <<>>  BY DEF NoSnapshot
  <2> QED BY <1>3, <1>4, <1>7, <2>1, <2>2 DEF PersistFails, DraftTypes
<1>8. ASSUME NEW s \in Signers, StartSigning(s) \/ SigningFails(s) PROVE WorkspaceInv'
  <2>1. signing' \in [Signers -> Operations \cup {Zero}]
    BY <1>4, <1>8 DEF StartSigning, SigningFails, DraftTypes, DraftOK, Bodies
  <2>2. UNCHANGED <<issued, body, signatures, immutable, persisting>>
    BY <1>8 DEF StartSigning, SigningFails
  <2> QED BY <1>3, <1>4, <2>1, <2>2 DEF DraftTypes
<1>9. ASSUME NEW s \in Signers, FinishSigning(s) PROVE WorkspaceInv'
  <2> DEFINE n == Len(issued) + 1
  <2>1. /\ n \in Invocations /\ signing[s] \in Operations
        /\ issued' = Append(issued, signing[s])
    BY <1>4, <1>9 DEF FinishSigning, DraftTypes
  <2>2. /\ issued' \in Seq(Operations) /\ n \in Nat
        /\ DOMAIN issued' = DOMAIN issued \cup {n}
    BY <1>4, <2>1 DEF DraftTypes
  <2>3. body' \in Bodies /\ body'.invocation \in {0} \cup DOMAIN issued'
    BY <1>4, <1>9, <2>2 DEF FinishSigning, DraftTypes, DraftOK, Bodies
  <2>4. DraftOK(body', signatures', DOMAIN issued')
    <3>1. CASE Signed(s)
      BY <1>4, <1>9, <2>2, <2>3, <3>1 DEF FinishSigning, DraftTypes, DraftOK
    <3>2. CASE ~Signed(s)
      <4> DEFINE record == [signer |-> s, invocation |-> n]
      <4>1. signatures' = Append(signatures, record)  BY <1>9, <3>2 DEF FinishSigning
      <4>2. signatures \in SignatureLists /\ record \in [signer : Signers, invocation : Nat]
        BY <1>4, <2>2 DEF DraftTypes, DraftOK
      <4>3. /\ signatures' \in SignatureLists
            /\ DOMAIN signatures = 1..Len(signatures)
            /\ DOMAIN signatures' = 1..(Len(signatures) + 1)
            /\ \A k \in DOMAIN signatures : signatures'[k] = signatures[k]
            /\ signatures'[Len(signatures) + 1] = record
        BY <4>1, <4>2 DEF SignatureLists
      <4>4. \A k \in DOMAIN signatures :
              signatures[k].signer # s /\ signatures[k].invocation \in DOMAIN issued
        BY <1>4, <3>2 DEF Signed, DraftTypes, DraftOK
      <4>5. \A k \in DOMAIN signatures' : k \in DOMAIN signatures \/ k = Len(signatures) + 1
        BY <4>2, <4>3 DEF SignatureLists
      <4>6. \A k, m \in DOMAIN signatures :
              signatures[k].signer = signatures[m].signer => k = m
        BY <1>4 DEF DraftTypes, DraftOK
      <4>7. record.signer = s /\ record.invocation = n  OBVIOUS
      <4> HIDE DEF record, n
      <4>8. \A k \in DOMAIN signatures' : signatures'[k].invocation \in DOMAIN issued'
        BY <2>2, <4>3, <4>4, <4>5, <4>7
      <4>9. \A k, m \in DOMAIN signatures' :
              signatures'[k].signer = signatures'[m].signer => k = m
        BY <4>3, <4>4, <4>5, <4>6, <4>7
      <4> QED BY <2>3, <4>3, <4>8, <4>9 DEF DraftOK
    <3> QED BY <3>1, <3>2
  <2>5. DraftOK(persisting.body, persisting.signatures, DOMAIN issued')
    BY <1>4, <2>2, MoreIsKnown DEF DraftTypes
  <2>6. /\ signing' \in [Signers -> Operations \cup {Zero}]
        /\ UNCHANGED <<immutable, persisting>>
    BY <1>4, <1>9 DEF FinishSigning, DraftTypes
  <2>7. DOMAIN issued' \subseteq Invocations
    BY <1>4, <2>1, <2>2 DEF DraftTypes
  <2> HIDE DEF n
  <2> QED BY <1>3, <1>4, <2>2, <2>4, <2>5, <2>6, <2>7 DEF DraftTypes
<1> QED BY <1>5, <1>6, <1>7, <1>8, <1>9

\* The steps that replace the draft by a record of it.
LEMMA RecordStepInv ==
  ASSUME WorkspaceInv, DraftPersisted \/ LoadDraft
  PROVE  WorkspaceInv'
<1> USE DEF WorkspaceInv
<1>1. RelayInv' /\ UNCHANGED <<call, pending, waits, recording, overlapped>>
  BY RelayUnchanged DEF DraftPersisted, LoadDraft, relayVars, submissionVars
<1>2. ASSUME DraftTypes', DOMAIN issued \subseteq DOMAIN issued',
             NEW record, record.result \in Results, Hydrate(record)
      PROVE  WorkspaceInv'
  BY <1>1, <1>2 DEF Hydrate, SubmitTypes, WaitTypes, CallsAreIssued
<1>3. CASE DraftPersisted
  <2>1. DraftOK(NoBody, <<>>, DOMAIN issued) /\ NoSnapshot \in Records
    BY DEF DraftOK, NoBody, Bodies, SignatureLists, NoSnapshot, Records, Results
  <2>2. NoSnapshot.body = NoBody /\ NoSnapshot.signatures = <<>>  BY DEF NoSnapshot
  <2>3. Hydrate(persisting) /\ persisting.result \in Results
    BY <1>3 DEF DraftPersisted, DraftTypes, Records
  <2>4. DraftTypes'
    BY <1>3, <2>1, <2>2 DEF DraftPersisted, Hydrate, DraftTypes
  <2> QED BY <1>2, <1>3, <2>3, <2>4 DEF DraftPersisted
<1>4. CASE LoadDraft
  <2>1. PICK k \in {0} \cup Invocations :
          /\ 1..k \subseteq Invocations
          /\ issued' \in [1..k -> Operations]
          /\ \E op \in Operations, n \in 0..k, m \in 0..k, result \in {"none", "ok", "failed"} :
             \E collected \in [1..m -> [signer : Signers, invocation : 1..k]] :
               /\ k # 0 => m # 0
               /\ \A i, j \in 1..m : collected[i].signer = collected[j].signer => i = j
               /\ Hydrate([body |-> [operation |-> op, invocation |-> n],
                           signatures |-> collected, result |-> result])
    BY <1>4 DEF LoadDraft
  <2>2. PICK op \in Operations, n \in 0..k, m \in 0..k, result \in {"none", "ok", "failed"} :
          \E collected \in [1..m -> [signer : Signers, invocation : 1..k]] :
            /\ k # 0 => m # 0
            /\ \A i, j \in 1..m : collected[i].signer = collected[j].signer => i = j
            /\ Hydrate([body |-> [operation |-> op, invocation |-> n],
                        signatures |-> collected, result |-> result])
    BY <2>1
  <2>3. PICK collected \in [1..m -> [signer : Signers, invocation : 1..k]] :
          /\ \A i, j \in 1..m : collected[i].signer = collected[j].signer => i = j
          /\ Hydrate([body |-> [operation |-> op, invocation |-> n],
                      signatures |-> collected, result |-> result])
    BY <2>2
  <2> DEFINE record == [body |-> [operation |-> op, invocation |-> n],
                        signatures |-> collected, result |-> result]
  <2>4. /\ k \in Nat /\ m \in Nat /\ DOMAIN issued = {}
        /\ issued' \in Seq(Operations) /\ DOMAIN issued' = 1..k /\ DOMAIN issued' \subseteq Invocations
    BY <1>4, <2>1, WorkspaceAssumption DEF LoadDraft
  <2>5. DraftOK(record.body, record.signatures, DOMAIN issued')
    <3>1. DOMAIN collected = 1..m /\ collected \in [1..m -> [signer : Signers, invocation : Nat]]
      BY <2>4
    <3>2. ASSUME NEW S, NEW f \in [1..m -> S] PROVE f \in Seq(S)
      BY <2>4
    <3>3. collected \in SignatureLists
      BY <3>1, <3>2 DEF SignatureLists
    <3>4. record.body \in Bodies /\ n \in {0} \cup 1..k
      BY <2>4 DEF Bodies
    <3> QED BY <2>3, <2>4, <3>1, <3>3, <3>4 DEF DraftOK
  <2>6. DraftOK(persisting.body, persisting.signatures, DOMAIN issued')
    BY <2>4, MoreIsKnown DEF DraftTypes
  <2>7. Hydrate(record) /\ record.result \in Results  BY <2>3 DEF Results
  <2>8. UNCHANGED <<signing, persisting>>  BY <1>4 DEF LoadDraft
  <2> HIDE DEF record
  <2>9. DraftTypes'
    BY <2>4, <2>5, <2>6, <2>7, <2>8 DEF Hydrate, DraftTypes
  <2> QED BY <1>2, <2>4, <2>7, <2>9
<1> QED BY <1>3, <1>4

\* An invocation the workspace selects was signed.
LEMMA SelectedIsIssued ==
  ASSUME DraftTypes
  PROVE  /\ SelectMetaInvocation \in {0} \cup DOMAIN issued
         /\ DOMAIN issued \subseteq Nat \ {0}
         /\ SelectMetaInvocation # 0 => SelectMetaInvocation \in Invocations
<1>1. signatures # <<>> => 1 \in DOMAIN signatures
  BY DEF DraftTypes, DraftOK, SignatureLists
<1>2. DOMAIN issued \subseteq Nat \ {0} /\ DOMAIN issued \subseteq Invocations
  BY WorkspaceAssumption DEF DraftTypes
<1> QED BY <1>1, <1>2 DEF SelectMetaInvocation, DraftTypes, DraftOK

\* The steps by which the workspace asks the relay, or the wallet.
LEMMA AskInv ==
  ASSUME WorkspaceInv, CheckRelay \/ SubmitViaRelay \/ BroadcastWithNeoWallet
  PROVE  WorkspaceInv'
<1> USE DEF WorkspaceInv
<1>1. DraftTypes' /\ issued' = issued
  BY DEF CheckRelay, SubmitViaRelay, BroadcastWithNeoWallet, draftVars, DraftTypes
<1>2. ASSUME NEW wait, Begin(wait)
      PROVE  /\ waits' = waits \cup {wait}
             /\ pending' \in BOOLEAN /\ overlapped' \in BOOLEAN /\ recording' \in Nat
  BY <1>2 DEF Begin, SubmitTypes
<1>3. ASSUME NEW action \in {"relay-check", "relay-submit"}, NEW simulate \in BOOLEAN,
             Submit(action, simulate), SelectMetaInvocation # 0,
             check' \in {check, [check EXCEPT !.request = SelectMetaInvocation]}
      PROVE  WorkspaceInv'
  <2>1. PICK i \in Calls :
          /\ Post(i, SelectMetaInvocation, simulate)
          /\ Begin([action |-> action, call |-> i, invocation |-> SelectMetaInvocation])
    BY <1>3 DEF Submit
  <2>2. /\ SelectMetaInvocation \in Invocations /\ SelectMetaInvocation \in DOMAIN issued
        /\ SelectMetaInvocation \in Nat
    BY <1>3, SelectedIsIssued
  <2>3. /\ RelayInv' /\ Only(i)
        /\ call'[i].phase = "posted" /\ call'[i].invocation = SelectMetaInvocation
    BY <2>1, <2>2, PostInv
  <2>4. WaitTypes'
    <3> DEFINE wait == [action |-> action, call |-> i, invocation |-> SelectMetaInvocation]
    <3>1. wait \in Waits /\ wait.call = i /\ wait.invocation = SelectMetaInvocation
      BY <2>2 DEF Waits
    <3>2. waits' = waits \cup {wait}  BY <1>2, <2>1
    <3>3. call[i].phase = "free" /\ i # Zero
      BY <2>1, NoCallType, RelayAssumption DEF Post
    <3>4. \A w \in waits : w.call # i /\ w.call \in Calls \cup {Zero}
      BY <3>3 DEF SubmitTypes, WaitTypes, Waits
    <3> HIDE DEF wait
    <3> QED BY <2>3, <3>1, <3>2, <3>3, <3>4 DEF SubmitTypes, WaitTypes, Only
  <2>5. check' \in [result : Results, request : Nat] /\ check'.request \in {0} \cup DOMAIN issued
    BY <1>3, <2>2 DEF SubmitTypes
  <2>6. SubmitTypes'  BY <1>1, <1>2, <2>1, <2>4, <2>5 DEF SubmitTypes
  <2>7. CallsAreIssued'
    BY <1>1, <2>2, <2>3 DEF CallsAreIssued, Only
  <2> QED BY <1>1, <2>3, <2>6, <2>7
<1>4. CASE CheckRelay
  BY <1>3, <1>4 DEF CheckRelay
<1>5. CASE SubmitViaRelay
  BY <1>3, <1>5 DEF SubmitViaRelay, CanRelayBroadcast, CheckMatchesPayload
<1>6. CASE BroadcastWithNeoWallet
  <2>1. RelayInv' /\ call' = call /\ check' = check
    BY <1>6, RelayUnchanged DEF BroadcastWithNeoWallet, relayVars
  <2>2. Begin(Broadcasting) /\ Broadcasting \notin waits
    BY <1>6 DEF BroadcastWithNeoWallet
  <2>3. waits' = waits \cup {Broadcasting}  BY <1>2, <2>2
  <2>4. Broadcasting \in Waits /\ Broadcasting.call = Zero
    BY DEF Broadcasting, Waits
  <2>5. \A w \in waits : w.call # Zero
    BY <2>2 DEF SubmitTypes, WaitTypes
  <2>6. WaitTypes'
    BY <2>1, <2>3, <2>4, <2>5 DEF SubmitTypes, WaitTypes
  <2> QED BY <1>1, <1>2, <2>1, <2>2, <2>6 DEF SubmitTypes, CallsAreIssued
<1> QED BY <1>4, <1>5, <1>6

\* The steps by which the workspace hears from the relay, or stops to listen.
LEMMA HearInv ==
  ASSUME WorkspaceInv, RelayChecked \/ Submitted
  PROVE  WorkspaceInv'
<1> USE DEF WorkspaceInv
<1>1. ASSUME NEW wait \in waits, NEW kind, Settles(wait, kind),
             check' \in [result : Results, request : {check.request}]
      PROVE  WorkspaceInv'
  <2>1. /\ UNCHANGED <<config, store, sent, draftVars, pending, overlapped>>
        /\ waits' = waits \ {wait} /\ recording' = recording + 1
    BY <1>1 DEF Settles
  <2>2. DraftTypes' /\ issued' = issued  BY <2>1 DEF draftVars, DraftTypes
  <2>3. wait.call \in Calls \cup {Zero}  BY DEF SubmitTypes, WaitTypes, Waits
  <2>4. ASSUME WaitTypes' PROVE SubmitTypes'
    BY <1>1, <2>1, <2>2, <2>4 DEF SubmitTypes
  <2>5. CASE call' = call
    <3>1. RelayInv'  BY <2>1, <2>5, RelayUnchanged DEF relayVars
    <3>2. WaitTypes'  BY <2>1, <2>5 DEF SubmitTypes, WaitTypes
    <3> QED BY <2>2, <2>4, <2>5, <3>1, <3>2 DEF CallsAreIssued
  <2>6. CASE wait.call \in Calls /\ call' = [call EXCEPT ![wait.call] = NoCall]
    <3>1. RelayInv' /\ call'[wait.call] = NoCall /\ Only(wait.call)
      BY <2>1, <2>6, ForgetInv
    <3>2. CallsAreIssued'
      BY <2>2, <3>1, NoCallType DEF CallsAreIssued, Only
    <3>3. \A w \in waits' : w \in waits /\ w.call # wait.call /\ w.call \in Calls \cup {Zero}
      BY <2>1 DEF SubmitTypes, WaitTypes, Waits
    <3>4. WaitTypes'
      BY <2>1, <3>1, <3>3 DEF SubmitTypes, WaitTypes, Only
    <3> QED BY <2>2, <2>4, <3>1, <3>2, <3>4
  <2> QED BY <1>1, <2>3, <2>5, <2>6 DEF Settles
<1>2. CASE RelayChecked
  BY <1>1, <1>2 DEF RelayChecked, PreflightResult, SubmitTypes, Results
<1>3. CASE Submitted
  BY <1>1, <1>3 DEF Submitted, SubmitTypes
<1> QED BY <1>2, <1>3

\* The steps of the dialog, and the end of a submission.
LEMMA DialogInv ==
  ASSUME WorkspaceInv,
         RequestConfirmation \/ CancelConfirmation \/ SubmitRefused \/ OutcomeRecorded
  PROVE  WorkspaceInv'
<1> USE DEF WorkspaceInv, RequestConfirmation, CancelConfirmation, SubmitRefused, OutcomeRecorded
<1>1. UNCHANGED relayVars  OBVIOUS
<1>2. RelayInv'  BY <1>1, RelayUnchanged
<1>3. UNCHANGED <<call, check, waits, overlapped, issued, body, signatures, immutable, signing,
                  persisting>>
  BY DEF relayVars, draftVars, submissionVars
<1>4. pending' \in BOOLEAN
  BY DEF submissionVars, SubmitTypes
<1>5. recording' = recording \/ (recording > 0 /\ recording' = recording - 1)
  BY DEF submissionVars
<1>6. recording' \in Nat  BY <1>5 DEF SubmitTypes
<1> QED BY <1>2, <1>3, <1>4, <1>6 DEF DraftTypes, SubmitTypes, WaitTypes, CallsAreIssued

\* A place that is freed and what other browsers ask for keep the invariant.
LEMMA OthersInv ==
  ASSUME WorkspaceInv, Drop \/ OtherBrowser
  PROVE  WorkspaceInv'
<1> USE DEF WorkspaceInv
<1>1. /\ DraftTypes' /\ UNCHANGED <<issued, check, pending, waits, recording, overlapped>>
  BY DEF Drop, OtherBrowser, workspaceVars, draftVars, submissionVars, DraftTypes
<1>2. CASE Drop
  <2>1. PICK i \in Calls : Abandoned(i) /\ call' = [call EXCEPT ![i] = NoCall]
    BY <1>2 DEF Drop
  <2>2. RelayInv' /\ call'[i] = NoCall /\ Only(i)
    BY <1>2, <2>1, ForgetInv DEF Drop
  <2>3. \A w \in waits : w.call # i /\ w.call \in Calls \cup {Zero}
    BY <2>1 DEF Abandoned, SubmitTypes, WaitTypes, Waits
  <2>4. SubmitTypes' /\ CallsAreIssued'
    BY <1>1, <2>2, <2>3, NoCallType DEF SubmitTypes, WaitTypes, CallsAreIssued, Only
  <2> QED BY <1>1, <2>2, <2>4
<1>3. CASE OtherBrowser
  <2>1. PICK i \in Calls, n \in DOMAIN issued, simulate \in BOOLEAN : Post(i, n, simulate)
    BY <1>3 DEF OtherBrowser
  <2>2. n \in Invocations  BY DEF DraftTypes
  <2>3. /\ RelayInv' /\ call'[i].phase = "posted" /\ call'[i].invocation = n /\ Only(i)
    BY <2>1, <2>2, PostInv
  <2>4. call[i].phase = "free"  BY <2>1, NoCallType DEF Post
  <2>5. \A w \in waits : w.call # i /\ w.call \in Calls \cup {Zero}
    BY <2>4, RelayAssumption DEF SubmitTypes, WaitTypes, Waits
  <2>6. SubmitTypes' /\ CallsAreIssued'
    BY <1>1, <2>3, <2>5 DEF SubmitTypes, WaitTypes, CallsAreIssued, Only
  <2> QED BY <1>1, <2>3, <2>6
<1> QED BY <1>2, <1>3

\* The invariant is inductive.
LEMMA StepInv == WorkspaceInv /\ [WorkspaceNext]_allVars => WorkspaceInv'
<1> SUFFICES ASSUME WorkspaceInv, [WorkspaceNext]_allVars PROVE WorkspaceInv'
  OBVIOUS
<1>1. CASE WorkspaceStep
  <2>1. CASE StageOperation \/ PersistDraft \/ PersistFails
             \/ \E s \in Signers : StartSigning(s) \/ SigningFails(s) \/ FinishSigning(s)
    BY <2>1, DraftStepInv
       DEF StageOperation, PersistDraft, PersistFails, StartSigning, SigningFails, FinishSigning
  <2>2. CASE DraftPersisted \/ LoadDraft
    BY <2>2, RecordStepInv
  <2>3. CASE CheckRelay \/ SubmitViaRelay \/ BroadcastWithNeoWallet
    BY <2>3, AskInv
  <2>4. CASE RelayChecked \/ Submitted
    BY <2>4, HearInv
  <2>5. CASE RequestConfirmation \/ CancelConfirmation \/ SubmitRefused \/ OutcomeRecorded
    BY <2>5, DialogInv
  <2>6. CASE Drop \/ OtherBrowser
    BY <2>6, OthersInv
  <2> QED BY <1>1, <2>1, <2>2, <2>3, <2>4, <2>5, <2>6 DEF WorkspaceStep
<1>2. CASE RelayStep /\ UNCHANGED workspaceVars
  <2>1. RelayInv'  BY <1>2, RelayStepInv DEF WorkspaceInv
  <2>2. SameRequests  BY <1>2, RelayFrame DEF WorkspaceInv
  <2>3. UNCHANGED <<issued, body, signatures, immutable, signing, persisting, check, pending,
                    waits, recording, overlapped>>
    BY <1>2 DEF workspaceVars, draftVars, submissionVars
  <2>4. DraftTypes'  BY <2>3 DEF WorkspaceInv, DraftTypes
  <2>5. \A w \in waits : w.call \in Calls \cup {Zero}
    BY DEF WorkspaceInv, SubmitTypes, WaitTypes, Waits
  <2>6. SubmitTypes' /\ CallsAreIssued'
    BY <2>2, <2>3, <2>5 DEF WorkspaceInv, SubmitTypes, WaitTypes, CallsAreIssued, SameRequests
  <2> QED BY <2>1, <2>4, <2>6 DEF WorkspaceInv
<1>3. CASE UNCHANGED allVars
  <2>1. RelayInv' /\ call' = call
    BY <1>3, RelayUnchanged DEF WorkspaceInv, allVars, relayVars
  <2>2. UNCHANGED <<issued, body, signatures, immutable, signing, persisting, check, pending,
                    waits, recording, overlapped>>
    BY <1>3 DEF allVars, workspaceVars, draftVars, submissionVars
  <2> QED BY <2>1, <2>2 DEF WorkspaceInv, DraftTypes, SubmitTypes, WaitTypes, CallsAreIssued
<1> QED BY <1>1, <1>2, <1>3 DEF WorkspaceNext

\* It holds in every reachable state.
LEMMA InvHolds == WorkspaceSpec => []WorkspaceInv
BY InitInv, StepInv, PTL DEF WorkspaceSpec

-----------------------------------------------------------------------------
(* The locks. *)

Working == {"begun", "previewed", "approved", "concluded"}
LockCounts(f) == Cardinality(Workers(f)) <= expiries[f] + (IF lock[f] THEN 1 ELSE 0)

\* The requests at work can be counted.
LEMMA WorkersFinite ==
  ASSUME NEW f PROVE IsFiniteSet(Workers(f)) /\ Cardinality(Workers(f)) \in Nat
<1>1. Workers(f) \subseteq Calls  BY DEF Workers
<1> QED BY <1>1, RelayAssumption, FS_Subset, FS_CardinalityType

\* Steps that neither enter nor leave the work keep the count.
LEMMA SameWorkers ==
  ASSUME LocksCountWorkers, UNCHANGED <<config, lock, expiries>>,
         \A f \in Fingerprints : Workers(f)' = Workers(f)
  PROVE  LocksCountWorkers'
BY DEF LocksCountWorkers

\* A request that goes on working.
LEMMA StaysAtWork ==
  ASSUME RelayInv, RelayInv', NEW i \in Calls, Only(i),
         call[i].phase \in Working <=> call'[i].phase \in Working,
         call'[i].phase \in Working =>
           call'[i].invocation = call[i].invocation /\ call'[i].simulate = call[i].simulate
  PROVE  \A f \in Fingerprints : Workers(f)' = Workers(f)
BY DEF Only, Workers, Working, Fingerprint

\* A request that ends: there is one worker less, so its lock may go.
LEMMA Leaves ==
  ASSUME RelayInv, LocksCountWorkers, NEW i \in Calls, Only(i),
         call[i].phase \in Working, call'[i].phase \notin Working,
         UNCHANGED <<config, expiries>>, lock' \in [Fingerprints -> BOOLEAN],
         \A f \in Fingerprints \ {Fingerprint(call[i])} : lock'[f] = lock[f]
  PROVE  LocksCountWorkers'
<1> SUFFICES ASSUME config.upstash, NEW f \in Fingerprints
             PROVE  Cardinality(Workers(f)') <= expiries[f] + (IF lock'[f] THEN 1 ELSE 0)
  BY DEF LocksCountWorkers
<1>1. LockCounts(f)  BY DEF LocksCountWorkers, LockCounts
<1>2. Workers(f)' = Workers(f) \ {i}
  BY DEF Only, Workers, Working, Fingerprint
<1>3. IsFiniteSet(Workers(f)) /\ Cardinality(Workers(f)) \in Nat /\ expiries[f] \in Nat
  BY WorkersFinite DEF RelayInv, RelayTypes, StoreOK
<1>4. CASE f = Fingerprint(call[i])
  <2>1. i \in Workers(f)  BY <1>4 DEF Workers, Working
  <2>2. Cardinality(Workers(f)') = Cardinality(Workers(f)) - 1
    BY <1>2, <1>3, <2>1, FS_RemoveElement
  <2> QED BY <1>1, <1>3, <2>2 DEF LockCounts
<1>5. CASE f # Fingerprint(call[i])
  <2>1. Workers(f)' = Workers(f)  BY <1>2, <1>5 DEF Workers
  <2> QED BY <1>1, <1>5, <2>1 DEF LockCounts
<1> QED BY <1>4, <1>5

\* A request that finds no lock: there is one worker more, and a lock.
LEMMA Enters ==
  ASSUME RelayInv, RelayInv', LocksCountWorkers, NEW i \in Calls, TakeLock(i)
  PROVE  LocksCountWorkers'
<1>1. /\ call[i].phase = "missed" /\ ~lock[Fingerprint(call[i])] /\ Go(i, "begun")
      /\ lock' = [lock EXCEPT ![Fingerprint(call[i])] = config.upstash]
      /\ UNCHANGED <<config, expiries>>
  BY DEF TakeLock, In
<1>2. /\ Only(i) /\ call'[i].phase = "begun"
      /\ call'[i].invocation = call[i].invocation /\ call'[i].simulate = call[i].simulate
  BY <1>1, GoTypes DEF RelayInv, RelayTypes, Phases
<1>3. Fingerprint(call[i]) \in Fingerprints  BY <1>1, FingerprintType DEF RelayInv, RelayTypes
<1> SUFFICES ASSUME config.upstash, NEW f \in Fingerprints
             PROVE  Cardinality(Workers(f)') <= expiries[f] + (IF lock'[f] THEN 1 ELSE 0)
  BY <1>1 DEF LocksCountWorkers
<1>4. LockCounts(f)  BY DEF LocksCountWorkers, LockCounts
<1>5. IsFiniteSet(Workers(f)) /\ Cardinality(Workers(f)) \in Nat /\ expiries[f] \in Nat
  BY WorkersFinite DEF RelayInv, RelayTypes, StoreOK
<1>6. CASE f = Fingerprint(call[i])
  <2>1. Workers(f)' = Workers(f) \cup {i}
    BY <1>2, <1>6 DEF Only, Workers, Fingerprint
  <2>2. i \notin Workers(f)  BY <1>1 DEF Workers
  <2>3. Cardinality(Workers(f)') = Cardinality(Workers(f)) + 1
    BY <1>5, <2>1, <2>2, FS_AddElement
  <2>4. lock'[f] /\ ~lock[f]  BY <1>1, <1>3, <1>6 DEF RelayInv, RelayTypes, StoreOK
  <2> QED BY <1>4, <1>5, <2>3, <2>4 DEF LockCounts
<1>7. CASE f # Fingerprint(call[i])
  <2>1. Workers(f)' = Workers(f)
    BY <1>1, <1>2, <1>7 DEF Only, Workers, Fingerprint
  <2>2. lock'[f] = lock[f]  BY <1>1, <1>7 DEF RelayInv, RelayTypes, StoreOK
  <2> QED BY <1>4, <2>1, <2>2 DEF LockCounts
<1> QED BY <1>6, <1>7

\* A request enters the work only while the lock is free, and then holds it.
LEMMA LockStep ==
  ASSUME RelayInv, RelayInv', LocksCountWorkers, RelayStep
  PROVE  LocksCountWorkers'
<1> USE DEF RelayInv, RelayTypes
<1>1. ASSUME NEW i \in Calls, Serve(i) PROVE LocksCountWorkers'
  <2>1. ASSUME NEW a \in AllAnswers, call[i].phase \in Working, call' = Answered(i, a),
               UNCHANGED <<config, expiries>>, NEW held \in BOOLEAN,
               lock' = [lock EXCEPT ![Fingerprint(call[i])] = held] \/ lock' = lock
        PROVE  LocksCountWorkers'
    <3>1. Only(i) /\ call'[i].phase \notin Working
      BY <2>1, AnsweredTypes DEF Working
    <3>2. Fingerprint(call[i]) \in Fingerprints  BY <2>1, FingerprintType DEF Working
    <3>3. /\ lock' \in [Fingerprints -> BOOLEAN]
          /\ \A f \in Fingerprints \ {Fingerprint(call[i])} : lock'[f] = lock[f]
      BY <2>1, <3>2 DEF StoreOK
    <3> QED BY <2>1, <3>1, <3>3, Leaves
  <2>2. \A kind \in {"refused", "error"} : Reply(kind) \in AllAnswers
    BY DEF Reply, AllAnswers, Kinds
  <2>3. ASSUME NEW kind \in {"refused", "error"}, call[i].phase \in Working, Fail(i, kind),
               UNCHANGED config
        PROVE  LocksCountWorkers'
    BY <2>1, <2>2, <2>3 DEF Fail
  <2>4. ASSUME UNCHANGED <<config, lock, expiries>>, Only(i),
               call[i].phase \in Working <=> call'[i].phase \in Working,
               call'[i].invocation = call[i].invocation, call'[i].simulate = call[i].simulate
        PROVE  LocksCountWorkers'
    BY <2>4, StaysAtWork, SameWorkers
  <2>5. CASE Replay(i) \/ InProgress(i) \/ Miss(i)
    <3>1. call[i].phase \in {"posted", "missed"} /\ UNCHANGED <<config, lock, expiries>>
      BY <2>5 DEF Replay, InProgress, Miss, In, store
    <3>2. /\ Only(i) /\ call'[i].phase \in {"answered", "missed"}
          /\ call'[i].invocation = call[i].invocation /\ call'[i].simulate = call[i].simulate
      <4>1. CASE Miss(i)  BY <3>1, <4>1, GoTypes DEF Miss, Phases
      <4>2. CASE InProgress(i)  BY <2>2, <3>1, <4>2, AnsweredTypes DEF InProgress
      <4>3. CASE Replay(i)
        <5>1. cached[Fingerprint(call[i])] \in AllAnswers
          BY <3>1, FingerprintType DEF StoreOK
        <5> QED BY <3>1, <4>3, <5>1, AnsweredTypes DEF Replay
      <4> QED BY <2>5, <4>1, <4>2, <4>3
    <3> QED BY <2>4, <3>1, <3>2 DEF Working
  <2>6. CASE TakeLock(i)
    BY <2>6, Enters
  <2>7. CASE Refuse(i) \/ Throw(i)
    BY <2>3, <2>7 DEF Refuse, Throw, In, Working
  <2>8. CASE Preview(i) \/ Authorize(i) \/ (Deny(i) /\ call[i].simulate)
    <3>1. call[i].phase \in {"begun", "previewed"} /\ UNCHANGED <<config, lock, expiries>>
      BY <2>8 DEF Preview, Authorize, Deny, In, store
    <3>2. Go(i, "previewed") \/ (\E kind \in {"fault", "checked"} : Conclude(i, Reply(kind)))
          \/ \E a : call' = [call EXCEPT ![i].phase = "approved", ![i].approval = a]
      BY <2>8 DEF Preview, Authorize, Deny
    <3>3. /\ Only(i) /\ call'[i].phase \in Working
          /\ call'[i].invocation = call[i].invocation /\ call'[i].simulate = call[i].simulate
      <4>1. CASE Go(i, "previewed")  BY <3>1, <4>1, GoTypes DEF Phases, Working
      <4>2. CASE \E kind \in {"fault", "checked"} : Conclude(i, Reply(kind))
        BY <3>1, <4>2, ConcludeTypes DEF Reply, AllAnswers, Kinds, Working
      <4>3. CASE \E a : call' = [call EXCEPT ![i].phase = "approved", ![i].approval = a]
        BY <4>3 DEF Only, CallsOK, AllCalls, Working
      <4> QED BY <3>2, <4>1, <4>2, <4>3
    <3> QED BY <2>4, <3>1, <3>3 DEF Working
  <2>9. CASE Deny(i) /\ ~call[i].simulate
    BY <2>3, <2>9 DEF Deny, In, Working
  <2>10. CASE Broadcast(i)
    <3>1. call[i].phase = "approved" /\ UNCHANGED config  BY <2>10 DEF Broadcast, In
    <3>2. CASE Fail(i, "error")  BY <2>3, <3>1, <3>2 DEF Working
    <3>3. CASE /\ call' = [call EXCEPT ![i].phase = "concluded", ![i].tx = Len(sent'),
                                       ![i].answer = [kind |-> "txid", tx |-> Len(sent')]]
               /\ UNCHANGED store
      <4>1. /\ Only(i) /\ call'[i].phase = "concluded"
            /\ call'[i].invocation = call[i].invocation /\ call'[i].simulate = call[i].simulate
        BY <3>3 DEF Only, CallsOK, AllCalls
      <4> QED BY <2>4, <3>1, <3>3, <4>1 DEF store, Working
    <3> QED BY <2>10, <3>2, <3>3 DEF Broadcast
  <2>11. CASE Complete(i)
    <3>1. call[i].answer \in AllAnswers  BY DEF CallsOK, AllCalls
    <3> QED BY <2>1, <2>11, <3>1 DEF Complete, In, Working
  <2>12. CASE NotRecorded(i)
    <3>1. PICK held \in BOOLEAN :
            lock' = [lock EXCEPT ![Fingerprint(call[i])] = @ /\ held]
      BY <2>12 DEF NotRecorded
    <3>2. call[i].phase = "concluded" /\ lock[Fingerprint(call[i])] \in BOOLEAN
      BY <2>12, FingerprintType DEF NotRecorded, In, StoreOK
    <3>3. (lock[Fingerprint(call[i])] /\ held) \in BOOLEAN  OBVIOUS
    <3> QED BY <2>1, <2>2, <2>12, <3>1, <3>2, <3>3 DEF NotRecorded, Working
  <2>13. CASE Die(i)
    BY <2>1, <2>2, <2>13 DEF Die, store, Working
  <2> QED BY <1>1, <2>5, <2>6, <2>7, <2>8, <2>9, <2>10, <2>11, <2>12, <2>13 DEF Serve
<1>2. ASSUME NEW f \in Fingerprints, ExpireLock(f) PROVE LocksCountWorkers'
  <2>1. \A g \in Fingerprints : Workers(g)' = Workers(g)
    BY <1>2 DEF ExpireLock, Workers, Fingerprint
  <2>2. \A g \in Fingerprints :
          expiries'[g] + (IF lock'[g] THEN 1 ELSE 0) = expiries[g] + (IF lock[g] THEN 1 ELSE 0)
    BY <1>2 DEF ExpireLock, StoreOK
  <2> QED BY <1>2, <2>1, <2>2 DEF ExpireLock, LocksCountWorkers
<1>3. ASSUME NEW f \in Fingerprints, ExpireAnswer(f) PROVE LocksCountWorkers'
  <2>1. \A g \in Fingerprints : Workers(g)' = Workers(g)
    BY <1>3 DEF ExpireAnswer, Workers, Fingerprint
  <2> QED BY <1>3, <2>1, SameWorkers DEF ExpireAnswer
<1> QED BY <1>1, <1>2, <1>3 DEF RelayStep

\* Requests that come and requests that are forgotten work on nothing.
LEMMA LockStepWorkspace ==
  ASSUME RelayInv, LocksCountWorkers, WorkspaceStep
  PROVE  LocksCountWorkers'
<1> USE DEF RelayInv, RelayTypes
<1>0. ASSUME NEW i \in Calls, NEW c, call' = [call EXCEPT ![i] = c],
             call[i].phase \notin Working, c.phase \notin Working,
             UNCHANGED <<config, lock, expiries>>
      PROVE  LocksCountWorkers'
  <2>1. Only(i) /\ call'[i] = c  BY <1>0 DEF CallsOK, Only
  <2>2. \A f \in Fingerprints : Workers(f)' = Workers(f)
    BY <1>0, <2>1 DEF Only, Workers, Working, Fingerprint
  <2> QED BY <1>0, <2>2, SameWorkers
<1>1. NoCall.phase \notin Working  BY DEF NoCall, Working
<1>2. ASSUME NEW i \in Calls, NEW n, NEW simulate, Post(i, n, simulate)
      PROVE  LocksCountWorkers'
  <2>1. [NoCall EXCEPT !.phase = "posted", !.invocation = n, !.simulate = simulate].phase
          \notin Working
    BY DEF NoCall, Working
  <2> QED BY <1>0, <1>1, <1>2, <2>1 DEF Post, store
<1>3. ASSUME NEW action, NEW simulate, Submit(action, simulate) PROVE LocksCountWorkers'
  BY <1>2, <1>3 DEF Submit
<1>4. ASSUME UNCHANGED <<config, call, lock, expiries>> PROVE LocksCountWorkers'
  BY <1>4, SameWorkers DEF Workers, Fingerprint
<1>5. ASSUME NEW wait, NEW kind, Settles(wait, kind) PROVE LocksCountWorkers'
  <2>1. UNCHANGED <<config, lock, expiries>>  BY <1>5 DEF Settles, store
  <2>2. CASE call' = call  BY <1>4, <2>1, <2>2
  <2>3. CASE /\ call[wait.call].phase = "answered"
             /\ call' = [call EXCEPT ![wait.call] = NoCall]
    <3>1. CASE wait.call \in Calls  BY <1>0, <1>1, <2>1, <2>3, <3>1 DEF Working
    <3>2. CASE wait.call \notin Calls
      BY <1>4, <2>1, <2>3, <3>2 DEF CallsOK
    <3> QED BY <3>1, <3>2
  <2> QED BY <1>5, <2>2, <2>3 DEF Settles
<1>6. CASE CheckRelay \/ SubmitViaRelay
  BY <1>3, <1>6 DEF CheckRelay, SubmitViaRelay
<1>7. CASE RelayChecked \/ Submitted
  BY <1>5, <1>7 DEF RelayChecked, Submitted
<1>8. CASE Drop
  BY <1>0, <1>1, <1>8 DEF Drop, Abandoned, store, Working
<1>9. CASE OtherBrowser
  BY <1>2, <1>9 DEF OtherBrowser
<1>10. CASE \/ StageOperation \/ LoadDraft \/ PersistDraft \/ DraftPersisted \/ PersistFails
            \/ RequestConfirmation \/ CancelConfirmation \/ SubmitRefused
            \/ BroadcastWithNeoWallet \/ OutcomeRecorded
            \/ \E s \in Signers : StartSigning(s) \/ FinishSigning(s) \/ SigningFails(s)
  BY <1>4, <1>10 DEF StageOperation, LoadDraft, PersistDraft, DraftPersisted, PersistFails,
     RequestConfirmation, CancelConfirmation, SubmitRefused, BroadcastWithNeoWallet,
     OutcomeRecorded, StartSigning, FinishSigning, SigningFails, relayVars, store
<1> QED BY <1>6, <1>7, <1>8, <1>9, <1>10 DEF WorkspaceStep

-----------------------------------------------------------------------------
(* What was checked. *)

\* As long as submissions do not overlap there is one at a time.
OneAtATime ==
  \/ waits = {} /\ recording \in {0, 1}
  \/ recording = 0 /\ \E w : waits = {w}

\* No draft is persisted under this user's hands, and submissions do not overlap.
Patient == ~overlapped /\ (surface = "view" \/ ~immutable)

CheckIsUnderWay == \E w \in waits : w.action = "relay-check"

\* Then a result "ok" is about the invocation last asked about, once its answer is there.
CheckInv ==
  /\ ~overlapped => OneAtATime
  /\ ~overlapped => \A w \in waits : w.action = "relay-check" => w.invocation = check.request
  /\ Patient /\ check.result = "ok" /\ check.request # 0 /\ ~CheckIsUnderWay
       => check.request \in checked
  /\ surface = "view" =>
       /\ ~overlapped /\ confirming = "none" /\ persisting = NoSnapshot
       /\ ~pending => waits = {} /\ recording = 0
       /\ body = NoBody => check.request = 0

\* The check that is remembered is of what is submitted, as long as submissions do not overlap.
LEMMA CheckStep ==
  ASSUME DraftTypes, SubmitTypes, surface \in {"home", "view"}, CheckInv, WorkspaceStep
  PROVE  CheckInv' /\ (Unchecked => surface = "home" /\ (immutable \/ overlapped'))
<1> USE DEF CheckInv
<1>1. ASSUME UNCHANGED waits PROVE ~Unchecked
  BY <1>1 DEF Unchecked
<1>2. ASSUME UNCHANGED <<surface, immutable, check, confirming, persisting, submissionVars, checked>>,
             surface = "view" /\ body' = NoBody => body = NoBody
      PROVE  CheckInv'
  BY <1>2 DEF submissionVars, OneAtATime, Patient, CheckIsUnderWay
<1>3. CASE StageOperation \/ PersistDraft \/ PersistFails
  <2>1. surface = "home"
    BY <1>3 DEF StageOperation, PersistDraft, PersistFails
  <2>2. UNCHANGED <<surface, immutable, check, confirming, submissionVars, checked>>
    BY <1>3 DEF StageOperation, PersistDraft, PersistFails
  <2> QED BY <1>1, <2>1, <2>2 DEF submissionVars, OneAtATime, Patient, CheckIsUnderWay
<1>4. ASSUME NEW s \in Signers, StartSigning(s) \/ FinishSigning(s) \/ SigningFails(s)
      PROVE  CheckInv' /\ ~Unchecked
  <2>1. UNCHANGED <<surface, immutable, check, confirming, persisting, submissionVars, checked>>
    BY <1>4 DEF StartSigning, FinishSigning, SigningFails
  <2>2. body' = NoBody => body = NoBody
    <3>1. CASE StartSigning(s) \/ SigningFails(s)
      BY <3>1 DEF StartSigning, SigningFails
    <3>2. CASE FinishSigning(s)
      <4>1. Len(issued) + 1 # 0  BY DEF DraftTypes
      <4> QED BY <3>2, <4>1 DEF FinishSigning, NoBody, DraftTypes, DraftOK, Bodies
    <3> QED BY <1>4, <3>1, <3>2
  <2> QED BY <1>1, <1>2, <2>1, <2>2 DEF submissionVars
<1>5. CASE DraftPersisted \/ LoadDraft
  <2>1. /\ immutable' /\ check'.request = check.request
        /\ UNCHANGED <<surface, confirming, submissionVars, checked>>
    BY <1>5 DEF DraftPersisted, LoadDraft, Hydrate, SubmitTypes
  <2>2. CASE surface = "home"
    BY <1>1, <2>1, <2>2 DEF submissionVars, OneAtATime, Patient
  <2>3. CASE surface = "view"
    <3>1. body = NoBody /\ persisting' = persisting
      BY <1>5, <2>3 DEF DraftPersisted, LoadDraft
    <3>2. check'.request = 0  BY <2>1, <2>3, <3>1
    <3> QED BY <1>1, <2>1, <2>3, <3>1, <3>2 DEF submissionVars, OneAtATime, Patient
  <2> QED BY <2>2, <2>3
<1>6. CASE RequestConfirmation \/ CancelConfirmation \/ SubmitRefused
  <2>1. surface = "home"
    BY <1>6 DEF RequestConfirmation, CancelConfirmation, SubmitRefused
  <2>2. UNCHANGED <<surface, draftVars, check, waits, recording, overlapped, checked>>
    BY <1>6 DEF RequestConfirmation, CancelConfirmation, SubmitRefused, submissionVars
  <2> QED BY <1>1, <2>1, <2>2 DEF draftVars, OneAtATime, Patient, CheckIsUnderWay
<1>7. ASSUME NEW wait, Begin(wait), UNCHANGED <<surface, draftVars, checked>>, confirming' = "none",
             surface = "view" => ~pending,
             surface = "view" /\ body = NoBody => check'.request = 0,
             \/ wait.action = "relay-check" /\ wait.invocation = check'.request
             \/ wait.action # "relay-check" /\ check' = check
      PROVE  /\ CheckInv' /\ waits' = waits \cup {wait}
             /\ surface = "view" => ~overlapped'
             /\ ~overlapped' => ~overlapped /\ waits = {} /\ ~CheckIsUnderWay
  <2>1. /\ overlapped' = (overlapped \/ waits # {} \/ recording > 0)
        /\ waits' = waits \cup {wait} /\ pending' /\ recording' = recording
    BY <1>7 DEF Begin
  <2>2. surface = "view" => ~overlapped'
    <3>1. surface = "view" => ~overlapped /\ waits = {} /\ ~(recording > 0)
      BY <1>7
    <3> QED BY <2>1, <3>1, Zenon
  <2>3. ~overlapped' => ~overlapped /\ waits = {} /\ recording = 0 /\ waits' = {wait}
    <3>1. ~overlapped' => ~overlapped /\ waits = {} /\ ~(recording > 0)
      BY <2>1, Zenon
    <3>2. ~(recording > 0) => recording = 0  BY DEF SubmitTypes
    <3> QED BY <2>1, <3>1, <3>2
  <2>4. ~overlapped' => ~CheckIsUnderWay  BY <2>3 DEF CheckIsUnderWay
  <2>5. UNCHANGED <<immutable, persisting, body>>  BY <1>7 DEF draftVars
  <2>6. ~overlapped' /\ ~CheckIsUnderWay' => wait.action # "relay-check"
    BY <2>3 DEF CheckIsUnderWay
  <2>7. ~overlapped' => OneAtATime'
    BY <2>1, <2>3 DEF OneAtATime
  <2>8. Patient' => Patient /\ ~overlapped'
    BY <1>7, <2>3, <2>5 DEF Patient
  <2> QED BY <1>7, <2>1, <2>2, <2>3, <2>4, <2>5, <2>6, <2>7, <2>8
<1>8. CASE CheckRelay
  <2>1. PICK i \in Calls :
          Begin([action |-> "relay-check", call |-> i, invocation |-> SelectMetaInvocation])
    BY <1>8 DEF CheckRelay, Submit
  <2> DEFINE wait == [action |-> "relay-check", call |-> i, invocation |-> SelectMetaInvocation]
  <2>2. /\ check'.request = SelectMetaInvocation
        /\ UNCHANGED <<surface, draftVars, confirming, checked>> /\ ~pending /\ confirming = "none"
    BY <1>8 DEF CheckRelay, ButtonEnabled, SubmitTypes
  <2>3. body # NoBody  BY <1>8 DEF CheckRelay, SelectMetaInvocation, NoBody
  <2>4. wait.action = "relay-check" /\ wait.invocation = check'.request  BY <2>2
  <2>5. Begin(wait)  BY <2>1
  <2> HIDE DEF wait
  <2>6. CheckInv' /\ waits' = waits \cup {wait}
    BY <1>7, <2>2, <2>3, <2>4, <2>5
  <2>7. ~Unchecked  BY <2>4, <2>6 DEF Unchecked
  <2> QED BY <2>6, <2>7
<1>9. CASE SubmitViaRelay
  <2>1. PICK i \in Calls :
          Begin([action |-> "relay-submit", call |-> i, invocation |-> SelectMetaInvocation])
    BY <1>9 DEF SubmitViaRelay, Submit
  <2> DEFINE wait == [action |-> "relay-submit", call |-> i, invocation |-> SelectMetaInvocation]
  <2>2. /\ UNCHANGED <<surface, draftVars, check, checked>> /\ confirming' = "none"
        /\ surface = "view" => ~pending
    BY <1>9 DEF SubmitViaRelay, Clicked, ButtonEnabled
  <2>3. /\ check.result = "ok" /\ check.request # 0 /\ SelectMetaInvocation = check.request
    BY <1>9 DEF SubmitViaRelay, CanRelayBroadcast, CheckMatchesPayload
  <2>4. wait.action = "relay-submit" /\ wait.invocation = check.request  BY <2>3
  <2>5. Begin(wait)  BY <2>1
  <2> HIDE DEF wait
  <2>6. /\ CheckInv' /\ waits' = waits \cup {wait} /\ (surface = "view" => ~overlapped')
        /\ ~overlapped' => ~overlapped /\ waits = {} /\ ~CheckIsUnderWay
    BY <1>7, <2>2, <2>4, <2>5
  <2>7. Patient /\ ~overlapped' => check.request \in checked
    BY <2>3, <2>6
  <2>8. Unchecked => ~(Patient /\ ~overlapped')
    BY <2>4, <2>6, <2>7 DEF Unchecked
  <2>9. ~(Patient /\ ~overlapped') => surface = "home" /\ (immutable \/ overlapped')
    BY <2>6 DEF Patient
  <2> QED BY <2>6, <2>8, <2>9
<1>10. CASE BroadcastWithNeoWallet
  <2>1. /\ Begin(Broadcasting) /\ UNCHANGED <<surface, draftVars, check, checked>>
        /\ confirming' = "none" /\ (surface = "view" => ~pending) /\ body # NoBody
    BY <1>10 DEF BroadcastWithNeoWallet, Clicked, ButtonEnabled
  <2>2. Broadcasting.action = "client-broadcast"  BY DEF Broadcasting
  <2>3. CheckInv' /\ waits' = waits \cup {Broadcasting}
    BY <1>7, <2>1, <2>2
  <2>4. ~Unchecked  BY <2>2, <2>3 DEF Unchecked
  <2> QED BY <2>3, <2>4
<1>11. ASSUME NEW wait \in waits, NEW kind, Settles(wait, kind), check'.request = check.request,
              Patient /\ wait.action = "relay-check" /\ check'.result = "ok"
                => wait.invocation \in checked',
              wait.action # "relay-check" => UNCHANGED <<check, checked>>
       PROVE  CheckInv' /\ ~Unchecked
  <2>1. /\ waits' = waits \ {wait} /\ recording' = recording + 1
        /\ UNCHANGED <<surface, draftVars, confirming, pending, overlapped>>
    BY <1>11 DEF Settles
  <2>2. ~overlapped => waits = {wait} /\ recording = 0 /\ waits' = {} /\ recording' = 1
    BY <2>1 DEF OneAtATime
  <2>3. UNCHANGED <<immutable, persisting, body>> /\ (Patient' => Patient)
    BY <2>1 DEF draftVars, Patient
  <2>4. ~Unchecked  BY <2>1 DEF Unchecked
  <2>5. ~overlapped' => OneAtATime'  BY <2>1, <2>2 DEF OneAtATime
  <2>6. Patient' /\ check'.result = "ok" /\ check'.request # 0 => check'.request \in checked'
    <3> SUFFICES ASSUME Patient, check'.result = "ok", check'.request # 0
                 PROVE  check'.request \in checked'
      BY <2>3
    <3>1. waits = {wait}  BY <2>2 DEF Patient
    <3>2. CASE wait.action = "relay-check"  BY <1>11, <3>2 DEF Patient
    <3>3. CASE wait.action # "relay-check"
      BY <1>11, <3>1, <3>3 DEF CheckIsUnderWay
    <3> QED BY <3>2, <3>3
  <2>7. surface' = "view" /\ ~pending' => waits' = {} /\ recording' = 0
    BY <2>1, <2>2
  <2> QED BY <1>11, <2>1, <2>2, <2>3, <2>4, <2>5, <2>6, <2>7
<1>12. CASE RelayChecked
  <2>1. PICK wait \in waits, kind \in Success \cup Failure :
          /\ wait.action = "relay-check" /\ Settles(wait, kind)
          /\ check' = [check EXCEPT !.result = PreflightResult(kind)]
          /\ checked' = IF kind = "checked" THEN checked \cup {wait.invocation} ELSE checked
    BY <1>12 DEF RelayChecked
  <2>2. check'.request = check.request /\ (check'.result = "ok" => kind = "checked")
    BY <2>1 DEF PreflightResult, SubmitTypes
  <2>3. check'.result = "ok" => wait.invocation \in checked'  BY <2>1, <2>2
  <2> QED BY <1>11, <2>1, <2>2, <2>3
<1>13. CASE Submitted
  <2>1. PICK wait \in waits, kind \in Success \cup Failure :
          wait.action # "relay-check" /\ Settles(wait, kind)
    BY <1>13 DEF Submitted
  <2> QED BY <1>11, <1>13, <2>1 DEF Submitted
<1>14. CASE OutcomeRecorded
  <2>1. /\ recording > 0 /\ recording' = recording - 1
        /\ UNCHANGED <<surface, draftVars, check, confirming, waits, overlapped, checked>>
    BY <1>14 DEF OutcomeRecorded
  <2>2. ~overlapped => waits = {} /\ recording' = 0
    BY <2>1 DEF OneAtATime, SubmitTypes
  <2> QED BY <1>1, <2>1, <2>2 DEF draftVars, OneAtATime, Patient, CheckIsUnderWay
<1>15. CASE Drop \/ OtherBrowser
  <2>1. UNCHANGED workspaceVars  BY <1>15 DEF Drop, OtherBrowser
  <2> QED BY <1>1, <1>2, <2>1 DEF workspaceVars, draftVars, submissionVars
<1> QED BY <1>3, <1>4, <1>5, <1>6, <1>8, <1>9, <1>10, <1>12, <1>13, <1>14, <1>15 DEF WorkspaceStep

-----------------------------------------------------------------------------
(* The theorems.                                                           *)

\* The workspace and the relay's requests keep their types: in particular what is staged,
\* collected, checked, pending or posted refers to an invocation that was signed.
THEOREM WorkspaceTypeCorrect == WorkspaceSpec => []WorkspaceTypeOK
<1>1. WorkspaceInv => WorkspaceTypeOK
  <2> SUFFICES ASSUME WorkspaceInv PROVE WorkspaceTypeOK
    OBVIOUS
  <2>1. \A i \in Calls :
          /\ call[i].phase \in Phases /\ call[i].answer.kind \in Kinds \cup {"none"}
          /\ call[i].invocation \in {Zero} \cup DOMAIN issued
    BY DEF WorkspaceInv, RelayInv, RelayTypes, CallsOK, AllCalls, AllAnswers, CallsAreIssued
  <2> QED BY <2>1 DEF WorkspaceInv, DraftTypes, DraftOK, SubmitTypes, WaitTypes, WorkspaceTypeOK, Phases
<1> QED BY <1>1, InvHolds, PTL

\* relayTransaction.js sends nothing that was not approved and compared with every ceiling,
\* however requests about the same and other invocations interleave, die or are repeated.
THEOREM SpendingsAreApproved == WorkspaceSpec => []SpendIsApproved
<1>1. WorkspaceInv => SpendIsApproved  BY DEF WorkspaceInv, RelayInv
<1> QED BY <1>1, InvHolds, PTL

\* Whatever is replayed from the store, an answer of the relay is true of the request it is
\* given to.
THEOREM AnswersStayTrue == WorkspaceSpec => []AnswersAreTrue
<1>1. WorkspaceInv => AnswersAreTrue
  BY DEF WorkspaceInv, RelayInv, CallInv, Fits, AnswersAreTrue
<1> QED BY <1>1, InvHolds, PTL

\* However locks expire under slow requests and are deleted by others, no more requests work on
\* one thing at a time than its lock, if there is one, and its expiries admit.
THEOREM LocksKeepCount == WorkspaceSpec => []LocksCountWorkers
<1>1. WorkspaceInit => LocksCountWorkers
  <2> SUFFICES ASSUME WorkspaceInit, NEW f \in Fingerprints
               PROVE  Cardinality(Workers(f)) <= expiries[f] + (IF lock[f] THEN 1 ELSE 0)
    BY DEF LocksCountWorkers
  <2>1. Workers(f) = {}  BY DEF WorkspaceInit, RelayInit, Workers, NoCall
  <2>2. expiries[f] = 0 /\ ~lock[f]  BY DEF WorkspaceInit, RelayInit
  <2> QED BY <2>1, <2>2, FS_EmptySet
<1>2. WorkspaceInv /\ WorkspaceInv' /\ LocksCountWorkers /\ [WorkspaceNext]_allVars
        => LocksCountWorkers'
  <2> SUFFICES ASSUME WorkspaceInv, WorkspaceInv', LocksCountWorkers, [WorkspaceNext]_allVars
               PROVE  LocksCountWorkers'
    OBVIOUS
  <2>1. CASE WorkspaceStep  BY <2>1, LockStepWorkspace DEF WorkspaceInv
  <2>2. CASE RelayStep  BY <2>2, LockStep DEF WorkspaceInv
  <2>3. CASE UNCHANGED allVars
    BY <2>3, SameWorkers DEF allVars, relayVars, store, Workers, Fingerprint
  <2> QED BY <2>1, <2>2, <2>3 DEF WorkspaceNext
<1> QED BY <1>1, <1>2, InvHolds, PTL DEF WorkspaceSpec

\* TransactionInfoView.vue, and HomeOperationsWorkspace.vue as long as nothing was persisted and no
\* submission begun over another: what is submitted by the relay is an invocation that the relay
\* was asked about and said would run.
THEOREM PatientIsChecked == WorkspaceSpec => PatientSubmitsChecked
<1> DEFINE Inv == CheckInv /\ surface \in {"home", "view"}
<1>1. WorkspaceInit => Inv
  BY WorkspaceAssumption DEF WorkspaceInit, CheckInv, OneAtATime
<1>2. WorkspaceInv /\ Inv /\ [WorkspaceNext]_allVars
        => Inv' /\ [Unchecked => surface = "home" /\ (immutable \/ overlapped')]_allVars
  <2> SUFFICES ASSUME WorkspaceInv, Inv, [WorkspaceNext]_allVars
               PROVE  /\ CheckInv' /\ surface' = surface
                      /\ Unchecked => surface = "home" /\ (immutable \/ overlapped')
    OBVIOUS
  <2>1. CASE WorkspaceStep
    <3>1. surface' = surface
      BY <2>1 DEF WorkspaceStep, StageOperation, LoadDraft, PersistDraft, DraftPersisted, PersistFails,
         StartSigning, FinishSigning, SigningFails, RequestConfirmation, CancelConfirmation,
         CheckRelay, SubmitViaRelay, SubmitRefused, BroadcastWithNeoWallet, RelayChecked,
         Submitted, Settles, OutcomeRecorded, Drop, OtherBrowser, workspaceVars
    <3> QED BY <2>1, <3>1, CheckStep DEF WorkspaceInv
  <2>2. CASE UNCHANGED workspaceVars
    BY <2>2 DEF CheckInv, OneAtATime, Patient, CheckIsUnderWay, Unchecked, workspaceVars, draftVars,
       submissionVars
  <2> QED BY <2>1, <2>2 DEF WorkspaceNext, allVars
<1> HIDE DEF Inv
<1> QED BY <1>1, <1>2, InvHolds, PTL DEF WorkspaceSpec, PatientSubmitsChecked

-----------------------------------------------------------------------------
(***************************************************************************)
(* The wallet session, for any accounts and bounds.                        *)
(***************************************************************************)

\* The session and its copy name accounts of the wallet, and there is a session exactly if an
\* account is connected.
SessionTypes ==
  /\ stored \in Accounts \cup {Nobody}
  /\ session \in [state : {"disconnected", "pending", "verified"}, account : Accounts \cup {Nobody}]
  /\ session.state = "disconnected" <=> session.account = Nobody
  /\ named \subseteq Accounts
  /\ connecting \in Nat /\ loads \in Nat

\* The strengthening: what is verified now was named before.
SessionInv ==
  /\ SessionTypes
  /\ session.state = "verified" => session.account \in named

\* A session that is restored is pending, or there is none.
LEMMA RestoredType ==
  ASSUME NEW account \in Accounts \cup {Nobody}
  PROVE  /\ Restored(account) \in [state : {"disconnected", "pending"},
                                   account : Accounts \cup {Nobody}]
         /\ Restored(account).state = "disconnected" <=> Restored(account).account = Nobody
BY SessionAssumption DEF Restored, Disconnected

\* A session is set to a named account, ended, restored, made pending, or left alone.
LEMMA Established ==
  ASSUME SessionInv, NEW account \in Accounts, SetConnected(account),
         account \in named', named' \subseteq Accounts, {connecting', loads'} \subseteq Nat
  PROVE  SessionInv'
BY SessionAssumption DEF SessionInv, SessionTypes, SetConnected

\* A session that ends names nobody.
LEMMA Ended ==
  ASSUME SessionInv, ClearSession, named' \subseteq Accounts, {connecting', loads'} \subseteq Nat
  PROVE  SessionInv' /\ session'.account = Nobody
BY SessionAssumption DEF SessionInv, SessionTypes, ClearSession, Disconnected

\* Steps beside the session keep what is known of it.
LEMMA Untouched ==
  ASSUME SessionInv, UNCHANGED session, stored' \in Accounts \cup {Nobody},
         named \subseteq named', named' \subseteq Accounts, {connecting', loads'} \subseteq Nat
  PROVE  SessionInv'
BY DEF SessionInv, SessionTypes

Vouched ==
  /\ ~Connected /\ Connected' => connecting' < connecting \/ loads' # loads
  /\ session'.state = "verified" => session'.account \in named'

\* Every step keeps the invariant and vouches for the session it makes.
LEMMA SessionStep ==
  ASSUME SessionInv, [Next]_vars
  PROVE  SessionInv' /\ Vouched
<1> USE DEF Vouched, Connected
<1>0. named \subseteq Accounts /\ {connecting, loads} \subseteq Nat /\ stored \in Accounts \cup {Nobody}
  BY DEF SessionInv, SessionTypes
<1>1. CASE Load
  <2>1. SessionInv'
    BY <1>0, <1>1, RestoredType DEF Load, SessionInv, SessionTypes
  <2>2. session'.state # "verified" /\ loads' # loads
    <3>1. loads' # loads  BY <1>0, <1>1 DEF Load
    <3> QED BY <1>0, <1>1, <3>1, RestoredType DEF Load
  <2> QED BY <2>1, <2>2
<1>2. CASE ProviderAppears \/ OtherTab \/ Connect \/ ConnectFails \/ Mount \/ ProviderReady
  <2>1. /\ UNCHANGED <<session, named>> /\ stored' \in Accounts \cup {Nobody}
        /\ connecting' \in Nat /\ loads' = loads
    BY <1>0, <1>2 DEF ProviderAppears, OtherTab, Connect, ConnectFails, Mount, ProviderReady
  <2> QED BY <1>0, <2>1, Untouched DEF SessionInv
<1>3. CASE Disconnect
  BY <1>0, <1>3, Ended, SessionAssumption DEF Disconnect, SessionInv
<1>4. CASE ConnectDone
  <2>1. PICK account \in Accounts : SetConnected(account) /\ named' = named \cup {account}
    BY <1>4 DEF ConnectDone
  <2>2. connecting' \in Nat /\ connecting' < connecting /\ loads' = loads
    BY <1>0, <1>4 DEF ConnectDone
  <2>3. SessionInv'  BY <1>0, <2>1, <2>2, Established
  <2> QED BY <2>2, <2>3 DEF SessionInv
<1>5. CASE ProviderTimeout
  <2>1. UNCHANGED <<named, connecting, loads>>  BY <1>5 DEF ProviderTimeout
  <2>2. CASE ClearSession
    BY <1>0, <2>1, <2>2, Ended DEF SessionInv
  <2>3. CASE UNCHANGED <<session, stored>>
    BY <1>0, <2>1, <2>3, Untouched DEF SessionInv
  <2> QED BY <1>5, <2>2, <2>3 DEF ProviderTimeout
<1>6. CASE AccountsAnswered
  <2>1. PICK accounts \in SUBSET Accounts :
          /\ named' = named \cup accounts
          /\ IF StillPending THEN Adopt(accounts) ELSE UNCHANGED <<session, stored>>
    BY <1>6 DEF AccountsAnswered
  <2>2. connecting' = connecting /\ loads' = loads  BY <1>6 DEF AccountsAnswered
  <2>3. CASE ~StillPending
    BY <1>0, <2>1, <2>2, <2>3, Untouched DEF SessionInv
  <2>4. CASE StillPending /\ accounts = {}
    <3>1. ClearSession  BY <2>1, <2>4 DEF Adopt
    <3> QED BY <1>0, <2>1, <2>2, <3>1, Ended DEF SessionInv
  <2>5. CASE StillPending /\ accounts # {}
    <3>1. PICK account \in Selection(accounts) : SetConnected(account)
      BY <2>1, <2>5 DEF Adopt
    <3>2. account \in accounts  BY DEF Selection
    <3>3. SessionInv'  BY <1>0, <2>1, <2>2, <3>1, <3>2, Established
    <3>4. Connected
      BY <2>5, SessionAssumption DEF StillPending, Pending, SessionInv, SessionTypes
    <3> QED BY <3>3, <3>4 DEF SessionInv
  <2> QED BY <2>3, <2>4, <2>5
<1>7. CASE HandleAccountChanged
  <2>1. PICK account \in Accounts : SetConnected(account) /\ named' = named \cup {account}
    BY <1>7 DEF HandleAccountChanged
  <2>2. Connected /\ connecting' = connecting /\ loads' = loads  BY <1>7 DEF HandleAccountChanged
  <2>3. SessionInv'  BY <1>0, <2>1, <2>2, Established
  <2> QED BY <2>2, <2>3 DEF SessionInv
<1>8. CASE HandleNetworkChanged
  <2>1. /\ session' = [session EXCEPT !.state = "pending"]
        /\ UNCHANGED <<stored, named, connecting, loads>> /\ session.account # Nobody
    BY <1>8 DEF HandleNetworkChanged
  <2> QED BY <2>1 DEF SessionInv, SessionTypes
<1>9. CASE UNCHANGED vars
  BY <1>0, <1>9, Untouched DEF vars, SessionInv
<1> QED
  BY <1>1, <1>2, <1>3, <1>4, <1>5, <1>6, <1>7, <1>8, <1>9 DEF Next

\* Whatever answers and events come late, and in whatever order: a session that was ended stays
\* ended until the user connects, and what counts as verified was named by the wallet.
THEOREM SessionsAreVouchedFor == Spec => SessionIsVouchedFor
<1>1. Init => SessionInv
  <2> SUFFICES ASSUME Init PROVE SessionInv  OBVIOUS
  <2>1. stored \in Accounts \cup {Nobody} /\ session = Restored(stored)
        /\ named = {} /\ connecting = 0 /\ loads = 0
    BY DEF Init
  <2> QED BY <2>1, RestoredType DEF SessionInv, SessionTypes
<1>2. SessionInv /\ [Next]_vars => SessionInv' /\ [Vouched]_vars
  BY SessionStep
<1> QED BY <1>1, <1>2, PTL DEF Spec, SessionIsVouchedFor, Vouched
=============================================================================

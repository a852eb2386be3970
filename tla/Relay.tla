-------------------------------- MODULE Relay --------------------------------
(***************************************************************************)
(* The relay endpoint (api/relay-transaction.js): a request to simulate a  *)
(* signed invocation or to submit it at the relay's expense, behind the    *)
(* idempotency store of api/requestDurability.js.                          *)
(*                                                                         *)
(* A request looks for a stored answer, takes a lock, is checked,          *)
(* simulated, put to the paymaster, simulated again for its fees, signed   *)
(* with the relay's key and sent; its answer is stored and the lock        *)
(* deleted.  Every one of these is a call to another service, and requests *)
(* interleave at each.  The function may die at any of them.               *)
(*                                                                         *)
(* The chain, the paymaster and the store are outside: a simulation may    *)
(* halt or fault and cost anything in Fees, and a paymaster may answer     *)
(* anything.  Forwarding of raw transactions, off by default, is left out. *)
(***************************************************************************)
EXTENDS Integers, Sequences, FiniteSets

CONSTANTS
  Zero,
  Invocations,    \* the signed invocations there are
  ConfigChoices,  \* what the environment may say: see RelayConfig
  Fees,           \* [system, network] fees of a transaction
  Ceilings,       \* the maximum a paymaster may approve, 0 for none
  Calls,          \* bound of the model: requests at a time
  MaxSent,        \* bound of the model: transactions sent
  MaxExpiries     \* bound of the model: locks expired under one fingerprint

\* The store's URL, a paymaster, AA_RELAY_ALLOW_UNSPONSORED, and three ceilings, 0 for unset.
RelayConfig ==
  [upstash : BOOLEAN, paymaster : BOOLEAN, unsponsored : BOOLEAN,
   maxSystem : Nat, maxNetwork : Nat, maxTotal : Nat]

ASSUME RelayAssumption ==
  /\ ConfigChoices \subseteq RelayConfig
  /\ Fees \subseteq [system : Nat, network : Nat] /\ Ceilings \subseteq Nat
  /\ Zero \notin Invocations \cup Calls /\ IsFiniteSet(Calls)
  /\ {MaxSent, MaxExpiries} \subseteq Nat

VARIABLES
  config,
  call,       \* the requests
  lock,       \* which fingerprints are locked
  cached,     \* the stored answers
  sent,       \* the transactions sent; a transaction's id is its place
  expiries    \* history: how often the lock of a fingerprint expired
store == <<lock, cached, expiries>>
relayVars == <<config, call, store, sent>>

NoAnswer == [kind |-> "none", tx |-> 0]
Unsponsored == [invocation |-> Zero, ceiling |-> 0]
NoCall ==
  [phase |-> "free", invocation |-> Zero, simulate |-> FALSE, approval |-> Unsponsored,
   tx |-> 0, answer |-> NoAnswer]

Kinds == {"checked", "fault", "txid", "refused", "error"}
Fingerprints == Invocations \X BOOLEAN
FingerprintWithoutMode(r) == <<r.invocation, FALSE>>  \* mutant
Fingerprint(r) == <<r.invocation, r.simulate>>

RelayInit ==
  /\ config \in ConfigChoices
  /\ call = [i \in Calls |-> NoCall]
  /\ lock = [f \in Fingerprints |-> FALSE]
  /\ cached = [f \in Fingerprints |-> NoAnswer]
  /\ sent = <<>>
  /\ expiries = [f \in Fingerprints |-> 0]

Post(i, invocation, simulate) ==
  /\ call[i] = NoCall
  /\ call' = [call EXCEPT ![i] =
       [NoCall EXCEPT !.phase = "posted", !.invocation = invocation, !.simulate = simulate]]
  /\ UNCHANGED <<config, store, sent>>

In(i, phase) == call[i].phase = phase
Go(i, phase) == call' = [call EXCEPT ![i].phase = phase]
Answered(i, answer) ==
  [call EXCEPT ![i].phase = "answered", ![i].answer = answer, ![i].approval = Unsponsored]
Reply(kind) == [kind |-> kind, tx |-> 0]

\* failDurableRequest: nothing is stored, and the lock is deleted whoever holds it.
Fail(i, kind) ==
  /\ call' = Answered(i, Reply(kind))
  /\ lock' = [lock EXCEPT ![Fingerprint(call[i])] = FALSE]
  /\ UNCHANGED <<cached, expiries>>

\* What completeDurableRequest is going to store and answer.
Conclude(i, answer) ==
  call' = [call EXCEPT ![i].phase = "concluded", ![i].answer = answer]

-----------------------------------------------------------------------------
(* beginDurableRequest. *)

Replay(i) ==
  /\ In(i, "posted") /\ config.upstash
  /\ cached[Fingerprint(call[i])] # NoAnswer
  /\ call' = Answered(i, cached[Fingerprint(call[i])])
  /\ UNCHANGED <<config, store, sent>>

\* A failed look-up counts as a miss.
Miss(i) ==
  /\ In(i, "posted")
  /\ Go(i, "missed")
  /\ UNCHANGED <<config, store, sent>>

\* Mutant: the lock is set, whether it was there or not.
SetLock(i) ==
  /\ In(i, "missed")
  /\ lock' = [lock EXCEPT ![Fingerprint(call[i])] = config.upstash]
  /\ Go(i, "begun")
  /\ UNCHANGED <<config, cached, expiries, sent>>

TakeLock(i) ==
  /\ In(i, "missed")
  /\ ~lock[Fingerprint(call[i])]
  /\ lock' = [lock EXCEPT ![Fingerprint(call[i])] = config.upstash]
  /\ Go(i, "begun")
  /\ UNCHANGED <<config, cached, expiries, sent>>

InProgress(i) ==
  /\ In(i, "missed")
  /\ lock[Fingerprint(call[i])]
  /\ call' = Answered(i, Reply("refused"))
  /\ UNCHANGED <<config, store, sent>>

-----------------------------------------------------------------------------
(* The handler. *)

\* Method, rate limit, configuration, form of the invocation, its contract and method.
Refuse(i) ==
  /\ In(i, "begun")
  /\ Fail(i, "refused")
  /\ UNCHANGED <<config, sent>>

HasConfiguredFeeCeiling == \E c \in {config.maxSystem, config.maxNetwork, config.maxTotal} : c > 0

MayBroadcast(r) ==
  \/ r.simulate
  \/ /\ config.paymaster \/ config.unsponsored
     /\ HasConfiguredFeeCeiling

\* simulateMetaInvocation.  A fault is an answer, for a submission too.
Preview(i) ==
  /\ In(i, "begun") /\ MayBroadcast(call[i])
  /\ Go(i, "previewed") \/ Conclude(i, Reply("fault"))
  /\ UNCHANGED <<config, store, sent>>

\* A call to the node or to the paymaster throws, or the answer is not an approval of this invocation.
Throw(i) ==
  /\ \/ In(i, "begun") /\ MayBroadcast(call[i])
     \/ In(i, "previewed") \/ In(i, "approved")
  /\ Fail(i, "error")
  /\ UNCHANGED <<config, sent>>

\* verifyPaymasterApproval: the approval must name the operation it was asked for.
VerifyPaymasterApproval(r, approval) == approval.invocation = r.invocation

\* maybeAuthorizePaymaster, when it lets the request pass.
Approvals(r) ==
  IF config.paymaster
  THEN {a \in [invocation : Invocations, ceiling : Ceilings] : VerifyPaymasterApproval(r, a)}
  ELSE IF config.unsponsored THEN {Unsponsored} ELSE {}

Authorize(i) ==
  /\ In(i, "previewed")
  /\ \E a \in Approvals(call[i]) :
       IF call[i].simulate THEN Conclude(i, Reply("checked"))
       ELSE call' = [call EXCEPT ![i].phase = "approved", ![i].approval = a]
  /\ UNCHANGED <<config, store, sent>>

\* To a simulation a denial is a result like another.
Deny(i) ==
  /\ In(i, "previewed")
  /\ config.paymaster \/ ~config.unsponsored
  /\ IF call[i].simulate THEN Conclude(i, Reply("fault")) /\ UNCHANGED store
     ELSE Fail(i, "refused")
  /\ UNCHANGED <<config, sent>>

Within(amount, ceiling) == ceiling = 0 \/ amount <= ceiling

\* Mutant: each fee alone is held against the approval.
EachFeeIsApproved(fee, approval) ==
  /\ Within(fee.system, config.maxSystem)
  /\ Within(fee.network, config.maxNetwork)
  /\ Within(fee.system + fee.network, config.maxTotal)
  /\ Within(fee.system, approval.ceiling) /\ Within(fee.network, approval.ceiling)

EnforceRelayFeePolicy(fee, approval) ==
  /\ Within(fee.system, config.maxSystem)
  /\ Within(fee.network, config.maxNetwork)
  /\ Within(fee.system + fee.network, config.maxTotal)
  /\ Within(fee.system + fee.network, approval.ceiling)

\* relayMetaInvocation: the fees are those of a second simulation.  The node may have
\* taken the transaction although its answer is lost.
Broadcast(i) ==
  /\ In(i, "approved")
  /\ Len(sent) < MaxSent                                     \* bound of the model
  /\ \E fee \in Fees :
       /\ EnforceRelayFeePolicy(fee, call[i].approval)
       /\ sent' = Append(sent, [invocation |-> call[i].invocation, fee |-> fee,
                                approval |-> call[i].approval])
  /\ \/ /\ call' = [call EXCEPT ![i].phase = "concluded", ![i].tx = Len(sent'),
                                ![i].answer = [kind |-> "txid", tx |-> Len(sent')]]
        /\ UNCHANGED store
     \/ Fail(i, "error")
  /\ UNCHANGED config

-----------------------------------------------------------------------------
(* completeDurableRequest. *)

StoreAnswer(i) ==
  cached' = [cached EXCEPT ![Fingerprint(call[i])] = IF config.upstash THEN call[i].answer ELSE @]

Complete(i) ==
  /\ In(i, "concluded")
  /\ StoreAnswer(i)
  /\ lock' = [lock EXCEPT ![Fingerprint(call[i])] = FALSE]
  /\ call' = Answered(i, call[i].answer)
  /\ UNCHANGED <<config, sent, expiries>>

\* The store fails while the answer is recorded: the request ends as an error.
NotRecorded(i) ==
  /\ In(i, "concluded") /\ config.upstash
  /\ StoreAnswer(i) \/ UNCHANGED cached
  /\ \E held \in BOOLEAN : lock' = [lock EXCEPT ![Fingerprint(call[i])] = @ /\ held]
  /\ call' = Answered(i, Reply("error"))
  /\ UNCHANGED <<config, sent, expiries>>

\* The function is killed and leaves its lock behind.
Die(i) ==
  /\ call[i].phase \in {"begun", "previewed", "approved", "concluded"}
  /\ call' = Answered(i, Reply("error"))
  /\ UNCHANGED <<config, store, sent>>

ExpireLock(f) ==
  /\ lock[f]
  /\ expiries[f] < MaxExpiries /\ \A g \in Fingerprints \ {f} : expiries[g] = 0  \* bounds of the model
  /\ lock' = [lock EXCEPT ![f] = FALSE]
  /\ expiries' = [expiries EXCEPT ![f] = @ + 1]
  /\ UNCHANGED <<config, call, cached, sent>>

ExpireAnswer(f) ==
  /\ cached[f] # NoAnswer
  /\ cached' = [cached EXCEPT ![f] = NoAnswer]
  /\ UNCHANGED <<config, call, lock, expiries, sent>>

Serve(i) ==
  \/ Replay(i) \/ Miss(i) \/ TakeLock(i) \/ InProgress(i)
  \/ Refuse(i) \/ Preview(i) \/ Throw(i) \/ Authorize(i) \/ Deny(i) \/ Broadcast(i)
  \/ Complete(i) \/ NotRecorded(i) \/ Die(i)

RelayStep ==
  \/ \E i \in Calls : Serve(i)
  \/ \E f \in Fingerprints : ExpireLock(f) \/ ExpireAnswer(f)

-----------------------------------------------------------------------------
(* Properties. *)

Workers(f) ==
  {i \in Calls : /\ call[i].phase \in {"begun", "previewed", "approved", "concluded"}
                 /\ Fingerprint(call[i]) = f}

\* Every expiry of a lock lets one more request work on the same thing, no more, although
\* a request whose lock expired deletes its successor's lock when it ends.
LocksCountWorkers ==
  config.upstash =>
    \A f \in Fingerprints : Cardinality(Workers(f)) <= expiries[f] + (IF lock[f] THEN 1 ELSE 0)

\* An answer says what its request did, or what the request did whose answer it repeats: a
\* transaction it names was sent for this invocation by a submission, and a request that was
\* refused or told of a fault has sent nothing.
AnswersAreTrue ==
  \A i \in Calls :
    call[i].phase = "answered" =>
      LET answer == call[i].answer IN
      /\ answer.kind = "txid" =>
           ~call[i].simulate /\ sent[answer.tx].invocation = call[i].invocation
      /\ answer.kind = "checked" => call[i].simulate
      /\ answer.kind \in {"refused", "fault"} => call[i].tx = 0

\* The relay pays for nothing unless an approval of just this invocation, or the operator's
\* permission to do without, covers the fees, and the fees it pays are those that were compared.
SpendIsApproved ==
  \A n \in DOMAIN sent :
    LET total == sent[n].fee.system + sent[n].fee.network IN
    /\ HasConfiguredFeeCeiling
    /\ IF config.paymaster
       THEN /\ sent[n].approval.invocation = sent[n].invocation
            /\ Within(total, sent[n].approval.ceiling)
       ELSE config.unsponsored
    /\ Within(sent[n].fee.system, config.maxSystem)
    /\ Within(sent[n].fee.network, config.maxNetwork)
    /\ Within(total, config.maxTotal)
=============================================================================

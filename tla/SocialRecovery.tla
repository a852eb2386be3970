--------------------------- MODULE SocialRecovery ---------------------------
(***************************************************************************)
(* contracts/recovery: SocialRecoveryVerifier.  The owner of an account    *)
(* names recovery factors (master nullifiers), a threshold, a timelock and *)
(* an oracle.  Signed tickets, one per factor, arrive directly or as the   *)
(* answer of the oracle to an earlier request; with enough of them for one *)
(* new owner the recovery becomes executable after the timelock, by        *)
(* anyone, unless the owner cancels it.  Other tickets open a session for  *)
(* an executor.                                                            *)
(*                                                                         *)
(* A ticket's signature covers every field that matters here and is        *)
(* checked against the key the account has now, so a ticket is any tuple   *)
(* of its fields: the signer may sign what it likes, whenever it likes,    *)
(* also for nonces that are past or still to come.  An answer that is not  *)
(* accepted faults, and its request is still there afterwards.  Oracles    *)
(* number their requests each on its own.                                  *)
(*                                                                         *)
(* The contract's own administration (its core, admin and upgrades) and    *)
(* the core's attestation that `owner` is the backup owner are not part    *)
(* of this module: SetupRecovery takes any owner the core attests.         *)
(***************************************************************************)
EXTENDS Integers, FiniteSets, Functions

CONSTANTS
  Accounts,          \* ids that may be set up
  Owners,            \* addresses: owners, new owners, executors
  Zero,
  Oracles,
  Factors,           \* master nullifiers
  ActionNullifiers,
  RecoveryChoices,   \* the configurations an owner may choose
  Amounts,           \* GAS amounts a caller may name
  MaxTime,           \* bound of the model: the clock
  MaxNonce,          \* bound of the model: attempts per account
  MaxRequests,       \* bound of the model: requests per oracle
  MaxCredit          \* bound of the model: GAS the contract holds

ASSUME RecoveryAssumption ==
  /\ Zero \notin Owners \cup Oracles \cup ActionNullifiers
  /\ IsFiniteSet(Accounts) /\ IsFiniteSet(Factors) /\ IsFiniteSet(ActionNullifiers)
  /\ \A c \in RecoveryChoices :
       /\ DOMAIN c = {"oracle", "factors", "threshold", "timelock"}
       /\ c.oracle \in Oracles /\ c.factors \subseteq Factors
       /\ c.threshold \in 1..Cardinality(c.factors)
       /\ c.timelock \in Nat \ {0}
  /\ Amounts \subseteq Nat \ {0}
  /\ MaxTime \in Nat \ {0} /\ {MaxNonce, MaxRequests, MaxCredit} \subseteq Nat

VARIABLES
  owner,           \* PREFIX_OWNER
  config,          \* the configuration's prefixes, from PREFIX_THRESHOLD to PREFIX_MORPHEUS_ORACLE
  recoveryNonce,   \* PREFIX_RECOVERY_NONCE
  pending,         \* PREFIX_PENDING_*
  approved,        \* PREFIX_APPROVAL: (nonce, factor)
  usedAction,      \* PREFIX_USED_ACTION
  session,         \* PREFIX_ACTIVE_SESSION
  sessionNonce,    \* PREFIX_SESSION_NONCE
  recoveryRequest, \* PREFIX_ORACLE_REQUEST
  actionRequest,   \* PREFIX_ORACLE_ACTION_REQUEST
  nextId,          \* the oracles' counters
  credit,          \* PREFIX_ORACLE_CREDIT
  gas,             \* the contract's GAS balance
  now

attemptVars == <<owner, config, recoveryNonce, pending, approved>>
sessionVars == <<session, sessionNonce>>
requestVars == <<recoveryRequest, actionRequest, nextId>>
creditVars == <<credit, gas>>
vars == <<attemptVars, usedAction, sessionVars, requestVars, creditVars, now>>

NoConfig == [oracle |-> Zero, factors |-> {}, threshold |-> 0, timelock |-> 0]
NoPending == [newOwner |-> Zero, nonce |-> -1, approvedCount |-> 0, executableAt |-> 0]
NoSession == [executor |-> Zero, nullifier |-> Zero, expiresAt |-> 0]
NoRequest == [account |-> Zero]

Nonces == 0..MaxNonce
Times == 1..MaxTime
Ids == 1..MaxRequests
RecoveryRequests ==
  [account : Accounts, newOwner : Owners, nonce : Nonces, expiresAt : Times]
ActionRequests == [account : Accounts, executor : Owners, expiresAt : Times]

IsSetUp(a) == owner[a] # Zero
IsPending(a) == pending[a] # NoPending
IsAllowedMasterNullifier(a, f) == f \in config[a].factors
HasApprovedFactor(a, nonce, f) == <<nonce, f>> \in approved[a]
IsActionNullifierUsed(a, n) == n \in usedAction[a]
PendingTargets(a, newOwner) ==
  IsPending(a) => pending[a].nonce = recoveryNonce[a] /\ pending[a].newOwner = newOwner

Init ==
  /\ owner = [a \in Accounts |-> Zero]
  /\ config = [a \in Accounts |-> NoConfig]
  /\ recoveryNonce = [a \in Accounts |-> 0]
  /\ pending = [a \in Accounts |-> NoPending]
  /\ approved = [a \in Accounts |-> {}]
  /\ usedAction = [a \in Accounts |-> {}]
  /\ session = [a \in Accounts |-> NoSession]
  /\ sessionNonce = [a \in Accounts |-> 0]
  /\ recoveryRequest = [i \in Ids |-> NoRequest]
  /\ actionRequest = [i \in Ids |-> NoRequest]
  /\ nextId = [m \in Oracles |-> 1]
  /\ credit = [a \in Accounts |-> 0]
  /\ gas = 0
  /\ now = 1

-----------------------------------------------------------------------------
(* Configuration, by the owner. *)

SetupRecovery(a, o, c) ==
  /\ ~IsSetUp(a)
  /\ owner' = [owner EXCEPT ![a] = o]
  /\ config' = [config EXCEPT ![a] = c]
  /\ recoveryNonce' = [recoveryNonce EXCEPT ![a] = 0]
  /\ UNCHANGED <<pending, approved, usedAction, sessionVars, requestVars, creditVars, now>>

\* Mutant: the check that no recovery is in progress is missing.
UpdateAnytime(a, c) ==
  /\ IsSetUp(a)
  /\ config' = [config EXCEPT ![a] = c]
  /\ UNCHANGED <<owner, recoveryNonce, pending, approved, usedAction, sessionVars,
                 requestVars, creditVars, now>>

UpdateRecoveryConfig(a, c) ==
  /\ IsSetUp(a) /\ ~IsPending(a)
  /\ config' = [config EXCEPT ![a] = c]
  /\ UNCHANGED <<owner, recoveryNonce, pending, approved, usedAction, sessionVars,
                 requestVars, creditVars, now>>

-----------------------------------------------------------------------------
(* Recovery tickets. *)

\* SubmitRecoveryTicketInternal: its checks, and what it writes apart from the nullifier.
IsAcceptable(a, newOwner, nonce, expiresAt, f, n) ==
  /\ IsSetUp(a)
  /\ IsAllowedMasterNullifier(a, f) /\ ~IsActionNullifierUsed(a, n)
  /\ nonce = recoveryNonce[a] /\ expiresAt >= now
  /\ ~HasApprovedFactor(a, nonce, f)
  /\ PendingTargets(a, newOwner) /\ pending[a].executableAt = 0

CountApproval(a, newOwner, nonce, f) ==
  LET count == pending[a].approvedCount + 1 IN
  /\ approved' = [approved EXCEPT ![a] = @ \cup {<<nonce, f>>}]
  /\ pending' = [pending EXCEPT ![a] =
       [newOwner |-> newOwner, nonce |-> nonce, approvedCount |-> count,
        executableAt |-> IF count >= config[a].threshold THEN now + config[a].timelock ELSE 0]]
  /\ UNCHANGED <<owner, config, recoveryNonce, sessionVars, creditVars, now>>

\* Mutant: the ticket's nullifier is not marked as used.
AcceptWithoutMark(a, newOwner, nonce, expiresAt, f, n) ==
  /\ IsAcceptable(a, newOwner, nonce, expiresAt, f, n)
  /\ CountApproval(a, newOwner, nonce, f)
  /\ UNCHANGED usedAction

SubmitRecoveryTicketInternal(a, newOwner, nonce, expiresAt, f, n) ==
  /\ IsAcceptable(a, newOwner, nonce, expiresAt, f, n)
  /\ CountApproval(a, newOwner, nonce, f)
  /\ usedAction' = [usedAction EXCEPT ![a] = @ \cup {n}]

SubmitRecoveryTicket(a, newOwner, nonce, expiresAt, f, n) ==
  /\ SubmitRecoveryTicketInternal(a, newOwner, nonce, expiresAt, f, n)
  /\ UNCHANGED requestVars

\* The new owner takes over; the caller says what becomes of the session.
TakeOver(a) ==
  /\ IsPending(a) /\ pending[a].executableAt > 0
  /\ pending[a].nonce < MaxNonce
  /\ owner' = [owner EXCEPT ![a] = pending[a].newOwner]
  /\ recoveryNonce' = [recoveryNonce EXCEPT ![a] = pending[a].nonce + 1]
  /\ pending' = [pending EXCEPT ![a] = NoPending]
  /\ UNCHANGED <<config, approved, usedAction, sessionNonce, requestVars, creditVars, now>>

\* Mutant: the sessions of the old owner's time go on.
FinalizeKeepingSession(a) ==
  now >= pending[a].executableAt /\ TakeOver(a) /\ UNCHANGED session

\* Mutant: the timelock must be met to the tick.
FinalizeOnTheTick(a) ==
  /\ now = pending[a].executableAt /\ TakeOver(a)
  /\ session' = [session EXCEPT ![a] = NoSession]

FinalizeRecovery(a) ==
  /\ now >= pending[a].executableAt /\ TakeOver(a)
  /\ session' = [session EXCEPT ![a] = NoSession]

\* Mutant: the nonce is not moved on.
CancelKeepingNonce(a) ==
  /\ IsSetUp(a) /\ IsPending(a)
  /\ pending' = [pending EXCEPT ![a] = NoPending]
  /\ UNCHANGED <<owner, config, recoveryNonce, approved, usedAction, sessionVars, requestVars,
                 creditVars, now>>

\* Mutant: one of the keys of the pending recovery is not deleted.
CancelLeavingKey(a) ==
  /\ IsSetUp(a) /\ IsPending(a)
  /\ pending[a].nonce < MaxNonce
  /\ pending' = [pending EXCEPT ![a] = [NoPending EXCEPT !.executableAt = pending[a].executableAt]]
  /\ recoveryNonce' = [recoveryNonce EXCEPT ![a] = pending[a].nonce + 1]
  /\ UNCHANGED <<owner, config, approved, usedAction, sessionVars, requestVars, creditVars, now>>

CancelRecovery(a) ==
  /\ IsSetUp(a) /\ IsPending(a)
  /\ pending[a].nonce < MaxNonce
  /\ pending' = [pending EXCEPT ![a] = NoPending]
  /\ recoveryNonce' = [recoveryNonce EXCEPT ![a] = pending[a].nonce + 1]
  /\ UNCHANGED <<owner, config, approved, usedAction, sessionVars, requestVars, creditVars, now>>

-----------------------------------------------------------------------------
(* Action sessions. *)

ActivateActionSessionInternal(a, executor, expiresAt, n) ==
  /\ IsSetUp(a)         \* without a configured key no signature is valid
  /\ expiresAt > now /\ ~IsActionNullifierUsed(a, n)
  /\ usedAction' = [usedAction EXCEPT ![a] = @ \cup {n}]
  /\ session' = [session EXCEPT ![a] =
       [executor |-> executor, nullifier |-> n, expiresAt |-> expiresAt]]
  /\ sessionNonce' = [sessionNonce EXCEPT ![a] = @ + 1]
  /\ UNCHANGED <<attemptVars, creditVars, now>>

SubmitActionTicket(a, executor, expiresAt, n) ==
  /\ ActivateActionSessionInternal(a, executor, expiresAt, n)
  /\ UNCHANGED requestVars

RevokeActionSession(a) ==
  /\ IsSetUp(a) /\ session[a] # NoSession
  /\ session' = [session EXCEPT ![a] = NoSession]
  /\ UNCHANGED <<attemptVars, usedAction, sessionNonce, requestVars, creditVars, now>>

-----------------------------------------------------------------------------
(* Requests to the account's oracle and its answers. *)

RequestRecoveryTicket(a, newOwner, expiresAt) ==
  LET oracle == config[a].oracle IN
  /\ oracle # Zero /\ nextId[oracle] \in Ids
  /\ PendingTargets(a, newOwner)
  /\ nextId' = [nextId EXCEPT ![oracle] = @ + 1]
  /\ recoveryRequest' = [recoveryRequest EXCEPT ![nextId[oracle]] =
       [account |-> a, newOwner |-> newOwner, nonce |-> recoveryNonce[a],
        expiresAt |-> expiresAt]]
  /\ UNCHANGED <<attemptVars, usedAction, sessionVars, actionRequest, creditVars, now>>

RequestActionSession(a, executor, expiresAt) ==
  LET oracle == config[a].oracle IN
  /\ expiresAt > now
  /\ oracle # Zero /\ nextId[oracle] \in Ids
  /\ nextId' = [nextId EXCEPT ![oracle] = @ + 1]
  /\ actionRequest' = [actionRequest EXCEPT ![nextId[oracle]] =
       [account |-> a, executor |-> executor, expiresAt |-> expiresAt]]
  /\ UNCHANGED <<attemptVars, usedAction, sessionVars, recoveryRequest, creditVars, now>>

\* OnOracleResult, by whoever is the account's oracle when the answer comes.
OnRecoveryResult(m, id, f, n) ==
  LET context == recoveryRequest[id] IN
  /\ context # NoRequest
  /\ m = config[context.account].oracle
  /\ recoveryRequest' = [recoveryRequest EXCEPT ![id] = NoRequest]
  /\ SubmitRecoveryTicketInternal(context.account, context.newOwner, context.nonce,
                                  context.expiresAt, f, n)
  /\ UNCHANGED <<actionRequest, nextId>>

OnActionResult(m, id, n) ==
  LET context == actionRequest[id] IN
  /\ context # NoRequest
  /\ m = config[context.account].oracle
  /\ actionRequest' = [actionRequest EXCEPT ![id] = NoRequest]
  /\ ActivateActionSessionInternal(context.account, context.executor, context.expiresAt, n)
  /\ UNCHANGED <<recoveryRequest, nextId>>

-----------------------------------------------------------------------------
(* GAS that pays for an account's oracle requests. *)

OnNEP17Payment(a, amount) ==
  /\ IsSetUp(a) /\ gas + amount <= MaxCredit
  /\ credit' = [credit EXCEPT ![a] = @ + amount]
  /\ gas' = gas + amount
  /\ UNCHANGED <<attemptVars, usedAction, sessionVars, requestVars, now>>

\* Mutant: the transfer is not charged to the account.
DepositWithoutDebit(a, amount) ==
  /\ config[a].oracle # Zero /\ credit[a] >= amount
  /\ gas >= amount          \* or the transfer fails, and with it the call
  /\ gas' = gas - amount
  /\ UNCHANGED <<attemptVars, usedAction, sessionVars, requestVars, credit, now>>

DepositOracleCredits(a, amount) ==
  /\ config[a].oracle # Zero /\ credit[a] >= amount
  /\ gas >= amount          \* or the transfer fails, and with it the call
  /\ credit' = [credit EXCEPT ![a] = @ - amount]
  /\ gas' = gas - amount
  /\ UNCHANGED <<attemptVars, usedAction, sessionVars, requestVars, now>>

Tick ==
  /\ now < MaxTime
  /\ now' = now + 1
  /\ UNCHANGED <<attemptVars, usedAction, sessionVars, requestVars, creditVars>>

Next ==
  \/ \E a \in Accounts, o \in Owners, c \in RecoveryChoices : SetupRecovery(a, o, c)
  \/ \E a \in Accounts, c \in RecoveryChoices : UpdateRecoveryConfig(a, c)
  \/ \E a \in Accounts, o \in Owners, nonce \in Nonces, t \in Times,
        f \in Factors, n \in ActionNullifiers : SubmitRecoveryTicket(a, o, nonce, t, f, n)
  \/ \E a \in Accounts : FinalizeRecovery(a) \/ CancelRecovery(a) \/ RevokeActionSession(a)
  \/ \E a \in Accounts, e \in Owners, t \in Times, n \in ActionNullifiers :
       SubmitActionTicket(a, e, t, n)
  \/ \E a \in Accounts, o \in Owners, t \in Times :
       RequestRecoveryTicket(a, o, t) \/ RequestActionSession(a, o, t)
  \/ \E m \in Oracles, id \in Ids, n \in ActionNullifiers :
       OnActionResult(m, id, n) \/ \E f \in Factors : OnRecoveryResult(m, id, f, n)
  \/ \E a \in Accounts, amount \in Amounts :
       OnNEP17Payment(a, amount) \/ DepositOracleCredits(a, amount)
  \/ Tick

Spec == Init /\ [][Next]_vars

\* Blocks keep coming, and FinalizeRecovery is open to anyone, so somebody sends it.
FairSpec ==
  /\ Spec /\ SF_vars(Tick)
  /\ \A a \in Accounts : WF_vars(FinalizeRecovery(a))

-----------------------------------------------------------------------------
(* Properties. *)

\* Every variable keeps its type.
TypeOK ==
  /\ owner \in [Accounts -> Owners \cup {Zero}]
  /\ config \in [Accounts -> RecoveryChoices \cup {NoConfig}]
  /\ recoveryNonce \in [Accounts -> Nonces]
  /\ pending \in [Accounts -> {NoPending} \cup
       [newOwner : Owners, nonce : Nonces, approvedCount : Nat, executableAt : Nat]]
  /\ approved \in [Accounts -> SUBSET (Nonces \X Factors)]
  /\ usedAction \in [Accounts -> SUBSET ActionNullifiers]
  /\ session \in [Accounts -> {NoSession} \cup
       [executor : Owners, nullifier : ActionNullifiers, expiresAt : Times]]
  /\ sessionNonce \in [Accounts -> Nat]
  /\ recoveryRequest \in [Ids -> RecoveryRequests \cup {NoRequest}]
  /\ actionRequest \in [Ids -> ActionRequests \cup {NoRequest}]
  /\ nextId \in [Oracles -> 1..(MaxRequests + 1)]
  /\ credit \in [Accounts -> Nat] /\ gas \in Nat
  /\ now \in Times

\* The factors that approved the attempt with the account's current nonce.
Votes(a) == {f \in Factors : HasApprovedFactor(a, recoveryNonce[a], f)}

\* The counter of a pending recovery agrees with the approvals on record, which are all by factors
\* that are still configured; it is executable exactly if they are a quorum.  Without a pending
\* recovery the current nonce has no approvals, nor has any later one: what was approved in an
\* attempt that was cancelled, or completed, does not help the next one.
AttemptIsExact ==
  \A a \in Accounts :
    /\ \A vote \in approved[a] : vote[1] <= recoveryNonce[a]
    /\ IF IsPending(a)
       THEN /\ pending[a].nonce = recoveryNonce[a]
            /\ pending[a].approvedCount = Cardinality(Votes(a))
            /\ Votes(a) \subseteq config[a].factors
            /\ pending[a].executableAt = 0 <=> Cardinality(Votes(a)) < config[a].threshold
       ELSE Votes(a) = {}

\* Whichever way a ticket comes, directly or as an oracle's answer, for a recovery or for a
\* session, it counts once: an account has spent as many nullifiers as it has approvals and
\* sessions so far.
EveryTicketCountsOnce ==
  \A a \in Accounts :
    Cardinality(usedAction[a]) = Cardinality(approved[a]) + sessionNonce[a]

\* Who VerifyExecution accepts.
Authorised(a) ==
  LET executors == IF session[a].expiresAt >= now THEN {session[a].executor} ELSE {} IN
  (executors \cup {owner[a]}) \ {Zero}

\* An address gains authority over an account that is set up only as the new owner of a recovery
\* whose quorum and timelock are complete, or by a ticket never used before; and at the moment an
\* owner takes over, nobody else has any, be it from a session of the old owner's time.
AuthorityIsEarned ==
  [][\A a \in Accounts : IsSetUp(a) =>
       /\ \A x \in Authorised(a)' \ Authorised(a) :
            \/ x = pending[a].newOwner /\ pending[a].executableAt \in 1..now
            \/ session'[a].nullifier \in usedAction'[a] \ usedAction[a]
       /\ recoveryNonce'[a] # recoveryNonce[a] /\ owner'[a] # owner[a] =>
            Authorised(a)' = {pending[a].newOwner}]_vars

\* What the contract owes the accounts for their oracle requests is what it holds.
CreditsAreBacked == SumFunction(credit) = gas

\* An attempt as GuardedRecovery sees it: its votes are the approvals under the current nonce.
Attempt(a) ==
  [newOwner |-> pending[a].newOwner, votes |-> Votes(a), readyAt |-> pending[a].executableAt]
Attempts == [a \in Accounts |-> Attempt(a)]

\* Recovery keeps the promise of GuardedRecovery: a quorum of votes given in one attempt under one
\* configuration, then the timelock, and nothing else, makes a new owner.
Promise == INSTANCE GuardedRecovery WITH attempt <- Attempts
RecoveryKeepsPromise == Promise!Spec

\* An executable recovery is completed or cancelled, if its timelock can run out within the bounds
\* of the model.
ReadyRecoveryEnds ==
  \A a \in Accounts :
    (pending[a].executableAt \in Times /\ recoveryNonce[a] < MaxNonce) ~>
      (pending[a].executableAt = 0 \/ recoveryNonce[a] = MaxNonce)
=============================================================================

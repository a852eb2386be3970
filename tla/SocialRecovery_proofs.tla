------------------------ MODULE SocialRecovery_proofs ------------------------
(***************************************************************************)
(* Proofs about SocialRecovery for every set of accounts, addresses,       *)
(* oracles, factors and nullifiers, every choice of configurations and     *)
(* every bound: types, the exactness of recovery attempts, that a ticket   *)
(* counts once, who gains authority, and that the contract implements      *)
(* GuardedRecovery.                                                        *)
(***************************************************************************)
EXTENDS SocialRecovery, Sums

(***************************************************************************)
(* What a step does to the recovery attempts.  An oracle's answer is a     *)
(* ticket for the account its request was made for.                        *)
(***************************************************************************)
LEMMA AttemptCases ==
  ASSUME TypeOK, [Next]_vars
  PROVE  \/ UNCHANGED <<attemptVars, now>>
         \/ Tick
         \/ \E a \in Accounts :
              \/ \E o \in Owners, c \in RecoveryChoices : SetupRecovery(a, o, c)
              \/ \E c \in RecoveryChoices : UpdateRecoveryConfig(a, c)
              \/ \E o \in Owners, nonce \in Nonces, t \in Times, f \in Factors,
                    n \in ActionNullifiers : SubmitRecoveryTicketInternal(a, o, nonce, t, f, n)
              \/ FinalizeRecovery(a)
              \/ CancelRecovery(a)
<1>1. ASSUME NEW m \in Oracles, NEW id \in Ids, NEW f \in Factors, NEW n \in ActionNullifiers,
             OnRecoveryResult(m, id, f, n)
      PROVE  \E a \in Accounts, o \in Owners, nonce \in Nonces, t \in Times :
               SubmitRecoveryTicketInternal(a, o, nonce, t, f, n)
  <2>1. recoveryRequest[id] \in RecoveryRequests
    BY <1>1 DEF OnRecoveryResult, TypeOK
  <2> QED
    BY <1>1, <2>1 DEF OnRecoveryResult, RecoveryRequests
<1>2. ASSUME NEW m \in Oracles, NEW id \in Ids, NEW n \in ActionNullifiers, OnActionResult(m, id, n)
      PROVE  UNCHANGED <<attemptVars, now>>
  BY <1>2 DEF OnActionResult, ActivateActionSessionInternal
<1>3. ASSUME NEW a \in Accounts, NEW o \in Owners, NEW t \in Times,
             RequestRecoveryTicket(a, o, t) \/ RequestActionSession(a, o, t)
      PROVE  UNCHANGED <<attemptVars, now>>
  BY <1>3 DEF RequestRecoveryTicket, RequestActionSession
<1>4. ASSUME NEW a \in Accounts, NEW x \in Amounts,
             OnNEP17Payment(a, x) \/ DepositOracleCredits(a, x)
      PROVE  UNCHANGED <<attemptVars, now>>
  BY <1>4 DEF OnNEP17Payment, DepositOracleCredits
<1>5. ASSUME NEW a \in Accounts, NEW e \in Owners, NEW t \in Times, NEW n \in ActionNullifiers,
             SubmitActionTicket(a, e, t, n)
      PROVE  UNCHANGED <<attemptVars, now>>
  BY <1>5 DEF SubmitActionTicket, ActivateActionSessionInternal
<1>6. ASSUME NEW a \in Accounts, RevokeActionSession(a)
      PROVE  UNCHANGED <<attemptVars, now>>
  BY <1>6 DEF RevokeActionSession
<1>7. CASE UNCHANGED vars
  BY <1>7 DEF vars
<1> QED
  BY <1>1, <1>2, <1>3, <1>4, <1>5, <1>6, <1>7 DEF Next, SubmitRecoveryTicket

(***************************************************************************)
(* Type correctness.                                                       *)
(***************************************************************************)
LEMMA TypeInit == Init => TypeOK
BY RecoveryAssumption DEF Init, TypeOK, Nonces, Times, Ids

\* The variables of the attempts and the clock.
AttemptTypes ==
  /\ owner \in [Accounts -> Owners \cup {Zero}]
  /\ config \in [Accounts -> RecoveryChoices \cup {NoConfig}]
  /\ recoveryNonce \in [Accounts -> Nonces]
  /\ pending \in [Accounts -> {NoPending} \cup
       [newOwner : Owners, nonce : Nonces, approvedCount : Nat, executableAt : Nat]]
  /\ approved \in [Accounts -> SUBSET (Nonces \X Factors)]
  /\ now \in Times

\* A configuration has finitely many factors and natural numbers.
LEMMA ConfigType ==
  ASSUME NEW c \in RecoveryChoices \cup {NoConfig}
  PROVE  /\ c.factors \subseteq Factors /\ c.timelock \in Nat /\ c.threshold \in Nat
         /\ IsFiniteSet(c.factors)
<1>1. CASE c = NoConfig
  BY <1>1, FS_EmptySet DEF NoConfig
<1>2. CASE c \in RecoveryChoices
  <2>1. c.factors \subseteq Factors /\ c.timelock \in Nat
    BY <1>2, RecoveryAssumption
  <2>2. IsFiniteSet(c.factors) /\ Cardinality(c.factors) \in Nat
    BY <2>1, RecoveryAssumption, FS_Subset, FS_CardinalityType
  <2> QED
    BY <1>2, <2>1, <2>2, RecoveryAssumption
<1> QED
  BY <1>1, <1>2

\* Every step keeps the types of what belongs to an attempt.
LEMMA AttemptTypesStep ==
  ASSUME TypeOK, [Next]_vars
  PROVE  AttemptTypes'
<1> USE RecoveryAssumption
<1>0. AttemptTypes
  BY DEF TypeOK, AttemptTypes
<1>1. CASE UNCHANGED <<attemptVars, now>>
  BY <1>0, <1>1 DEF AttemptTypes, attemptVars
<1>2. CASE Tick
  BY <1>0, <1>2 DEF Tick, AttemptTypes, attemptVars, Times
<1>3. ASSUME NEW a \in Accounts, NEW o \in Owners, NEW c \in RecoveryChoices, SetupRecovery(a, o, c)
      PROVE  AttemptTypes'
  BY <1>0, <1>3 DEF SetupRecovery, AttemptTypes, Nonces
<1>4. ASSUME NEW a \in Accounts, NEW c \in RecoveryChoices, UpdateRecoveryConfig(a, c)
      PROVE  AttemptTypes'
  BY <1>0, <1>4 DEF UpdateRecoveryConfig, AttemptTypes
<1>5. ASSUME NEW a \in Accounts, NEW o \in Owners, NEW nonce \in Nonces, NEW t \in Times,
             NEW f \in Factors, NEW n \in ActionNullifiers,
             SubmitRecoveryTicketInternal(a, o, nonce, t, f, n)
      PROVE  AttemptTypes'
  <2>1. config[a].timelock \in Nat /\ now \in Nat /\ pending[a].approvedCount \in Nat
    BY <1>0, ConfigType DEF AttemptTypes, Times, NoPending
  <2>2. \A x : [newOwner |-> o, nonce |-> nonce, approvedCount |-> pending[a].approvedCount + 1,
                executableAt |-> IF x THEN now + config[a].timelock ELSE 0]
          \in [newOwner : Owners, nonce : Nonces, approvedCount : Nat, executableAt : Nat]
    BY <2>1
  <2>3. approved' \in [Accounts -> SUBSET (Nonces \X Factors)]
    BY <1>0, <1>5 DEF SubmitRecoveryTicketInternal, CountApproval, AttemptTypes
  <2> QED
    BY <1>0, <1>5, <2>2, <2>3 DEF SubmitRecoveryTicketInternal, CountApproval, AttemptTypes
<1>6. ASSUME NEW a \in Accounts, FinalizeRecovery(a) \/ CancelRecovery(a)
      PROVE  AttemptTypes'
  <2>1. pending[a] \in [newOwner : Owners, nonce : Nonces, approvedCount : Nat, executableAt : Nat]
        /\ pending[a].nonce < MaxNonce
    BY <1>0, <1>6 DEF FinalizeRecovery, TakeOver, CancelRecovery, IsPending, AttemptTypes
  <2>2. pending[a].nonce + 1 \in Nonces /\ pending[a].newOwner \in Owners
    BY <2>1 DEF Nonces
  <2> QED
    BY <1>0, <1>6, <2>2 DEF FinalizeRecovery, TakeOver, CancelRecovery, AttemptTypes
<1> QED
  BY <1>1, <1>2, <1>3, <1>4, <1>5, <1>6, AttemptCases

\* The variables of the sessions, the requests and the credits.
OtherTypes ==
  /\ usedAction \in [Accounts -> SUBSET ActionNullifiers]
  /\ session \in [Accounts -> {NoSession} \cup
       [executor : Owners, nullifier : ActionNullifiers, expiresAt : Times]]
  /\ sessionNonce \in [Accounts -> Nat]
  /\ recoveryRequest \in [Ids -> RecoveryRequests \cup {NoRequest}]
  /\ actionRequest \in [Ids -> ActionRequests \cup {NoRequest}]
  /\ nextId \in [Oracles -> 1..(MaxRequests + 1)]
  /\ credit \in [Accounts -> Nat] /\ gas \in Nat

\* Every step keeps the types of nullifiers, sessions, requests and credits.
LEMMA OtherTypesStep ==
  ASSUME TypeOK, [Next]_vars
  PROVE  OtherTypes'
<1> USE RecoveryAssumption
<1>0. OtherTypes /\ AttemptTypes
  BY DEF TypeOK, OtherTypes, AttemptTypes
<1>1. ASSUME NEW a \in Accounts, NEW o, NEW nonce, NEW t, NEW f, NEW n \in ActionNullifiers,
             SubmitRecoveryTicketInternal(a, o, nonce, t, f, n)
      PROVE  /\ usedAction' \in [Accounts -> SUBSET ActionNullifiers]
             /\ UNCHANGED <<sessionVars, creditVars>>
  BY <1>0, <1>1 DEF SubmitRecoveryTicketInternal, CountApproval, OtherTypes
<1>2. ASSUME NEW a \in Accounts, NEW e \in Owners, NEW t \in Times, NEW n \in ActionNullifiers,
             ActivateActionSessionInternal(a, e, t, n)
      PROVE  /\ usedAction' \in [Accounts -> SUBSET ActionNullifiers]
             /\ session' \in [Accounts -> {NoSession} \cup
                  [executor : Owners, nullifier : ActionNullifiers, expiresAt : Times]]
             /\ sessionNonce' \in [Accounts -> Nat]
             /\ UNCHANGED creditVars
  BY <1>0, <1>2 DEF ActivateActionSessionInternal, OtherTypes
<1>3. ASSUME NEW a \in Accounts, NEW o \in Owners, NEW nonce \in Nonces, NEW t \in Times,
             NEW f \in Factors, NEW n \in ActionNullifiers,
             SubmitRecoveryTicket(a, o, nonce, t, f, n)
      PROVE  OtherTypes'
  BY <1>0, <1>1, <1>3 DEF SubmitRecoveryTicket, OtherTypes, sessionVars, creditVars, requestVars
<1>4. ASSUME NEW a \in Accounts, NEW e \in Owners, NEW t \in Times, NEW n \in ActionNullifiers,
             SubmitActionTicket(a, e, t, n)
      PROVE  OtherTypes'
  BY <1>0, <1>2, <1>4 DEF SubmitActionTicket, OtherTypes, creditVars, requestVars
<1>5. ASSUME NEW m \in Oracles, NEW id \in Ids, NEW f \in Factors, NEW n \in ActionNullifiers,
             OnRecoveryResult(m, id, f, n)
      PROVE  OtherTypes'
  <2>1. recoveryRequest[id] \in RecoveryRequests
    BY <1>0, <1>5 DEF OnRecoveryResult, OtherTypes
  <2>2. /\ usedAction' \in [Accounts -> SUBSET ActionNullifiers]
        /\ UNCHANGED <<sessionVars, creditVars>>
    BY <1>1, <1>5, <2>1 DEF OnRecoveryResult, RecoveryRequests
  <2> QED
    BY <1>0, <1>5, <2>2 DEF OnRecoveryResult, OtherTypes, sessionVars, creditVars
<1>6. ASSUME NEW m \in Oracles, NEW id \in Ids, NEW n \in ActionNullifiers, OnActionResult(m, id, n)
      PROVE  OtherTypes'
  <2>1. actionRequest[id] \in ActionRequests
    BY <1>0, <1>6 DEF OnActionResult, OtherTypes
  <2>2. /\ actionRequest[id].account \in Accounts /\ actionRequest[id].executor \in Owners
        /\ actionRequest[id].expiresAt \in Times
        /\ ActivateActionSessionInternal(actionRequest[id].account, actionRequest[id].executor,
                                         actionRequest[id].expiresAt, n)
    BY <1>6, <2>1 DEF OnActionResult, ActionRequests
  <2>3. /\ usedAction' \in [Accounts -> SUBSET ActionNullifiers]
        /\ session' \in [Accounts -> {NoSession} \cup
             [executor : Owners, nullifier : ActionNullifiers, expiresAt : Times]]
        /\ sessionNonce' \in [Accounts -> Nat]
        /\ UNCHANGED creditVars
    BY <1>2, <2>2
  <2> QED
    BY <1>0, <1>6, <2>3 DEF OnActionResult, OtherTypes, creditVars
<1>7. ASSUME NEW a \in Accounts, NEW o \in Owners, NEW t \in Times,
             RequestRecoveryTicket(a, o, t) \/ RequestActionSession(a, o, t)
      PROVE  OtherTypes'
  <2>1. config[a].oracle # Zero => config[a].oracle \in Oracles
    BY <1>0 DEF AttemptTypes, NoConfig
  <2>2. \A m \in Oracles : nextId[m] \in Ids => nextId[m] + 1 \in 1..(MaxRequests + 1)
    BY DEF Ids
  <2>3. CASE RequestRecoveryTicket(a, o, t)
    <3>1. [account |-> a, newOwner |-> o, nonce |-> recoveryNonce[a], expiresAt |-> t]
            \in RecoveryRequests
      BY <1>0 DEF AttemptTypes, RecoveryRequests
    <3> QED
      BY <1>0, <2>1, <2>2, <2>3, <3>1 DEF RequestRecoveryTicket, OtherTypes, sessionVars, creditVars
  <2>4. CASE RequestActionSession(a, o, t)
    <3>1. [account |-> a, executor |-> o, expiresAt |-> t] \in ActionRequests
      BY DEF ActionRequests
    <3> QED
      BY <1>0, <2>1, <2>2, <2>4, <3>1 DEF RequestActionSession, OtherTypes, sessionVars, creditVars
  <2> QED
    BY <1>7, <2>3, <2>4
<1>8. ASSUME NEW a \in Accounts, NEW x \in Amounts,
             OnNEP17Payment(a, x) \/ DepositOracleCredits(a, x)
      PROVE  OtherTypes'
  <2>1. x \in Nat /\ gas \in Nat /\ credit[a] \in Nat
    BY <1>0 DEF OtherTypes
  <2>2. CASE OnNEP17Payment(a, x)
    BY <1>0, <2>1, <2>2 DEF OnNEP17Payment, OtherTypes, sessionVars, requestVars
  <2>3. CASE DepositOracleCredits(a, x)
    <3>1. credit[a] - x \in Nat /\ gas - x \in Nat
      BY <2>1, <2>3 DEF DepositOracleCredits
    <3> QED
      BY <1>0, <2>3, <3>1 DEF DepositOracleCredits, OtherTypes, sessionVars, requestVars
  <2> QED
    BY <1>8, <2>2, <2>3
<1>9. ASSUME NEW a \in Accounts,
             FinalizeRecovery(a) \/ CancelRecovery(a) \/ RevokeActionSession(a)
      PROVE  OtherTypes'
  BY <1>0, <1>9 DEF FinalizeRecovery, TakeOver, CancelRecovery, RevokeActionSession, OtherTypes,
                    sessionVars, requestVars, creditVars
<1>10. ASSUME NEW a \in Accounts, NEW c \in RecoveryChoices,
              UpdateRecoveryConfig(a, c) \/ \E o \in Owners : SetupRecovery(a, o, c)
       PROVE  OtherTypes'
  BY <1>0, <1>10 DEF SetupRecovery, UpdateRecoveryConfig, OtherTypes, sessionVars, requestVars, creditVars
<1>11. CASE UNCHANGED vars \/ Tick
  BY <1>0, <1>11 DEF vars, Tick, OtherTypes, sessionVars, requestVars, creditVars
<1> QED
  BY <1>3, <1>4, <1>5, <1>6, <1>7, <1>8, <1>9, <1>10, <1>11 DEF Next

\* Every step keeps the types.
LEMMA TypeStep == TypeOK /\ [Next]_vars => TypeOK'
BY AttemptTypesStep, OtherTypesStep DEF TypeOK, AttemptTypes, OtherTypes

\* Every variable keeps its type.
THEOREM RecoveryTypeCorrect == Spec => []TypeOK
BY TypeInit, TypeStep, PTL DEF Spec

(***************************************************************************)
(* Attempts.  Setting up an account rewinds its nonce and replaces its     *)
(* configuration, which is harmless because nothing happens to an account  *)
(* before it is set up; this is the strengthening.                         *)
(***************************************************************************)
BlankUntilSetUp ==
  \A a \in Accounts : ~IsSetUp(a) => recoveryNonce[a] = 0 /\ ~IsPending(a)

AttemptInv == BlankUntilSetUp /\ AttemptIsExact

\* The same of one account.
Exact(a) ==
  /\ ~IsSetUp(a) => recoveryNonce[a] = 0 /\ ~IsPending(a)
  /\ \A vote \in approved[a] : vote[1] <= recoveryNonce[a]
  /\ IsPending(a) =>
       /\ pending[a].nonce = recoveryNonce[a]
       /\ pending[a].approvedCount = Cardinality(Votes(a))
       /\ Votes(a) \subseteq config[a].factors
       /\ pending[a].executableAt = 0 <=> Cardinality(Votes(a)) < config[a].threshold
  /\ ~IsPending(a) => Votes(a) = {}

\* The invariant speaks of each account by itself.
LEMMA ExactEach == AttemptInv <=> \A a \in Accounts : Exact(a)
BY DEF AttemptInv, BlankUntilSetUp, AttemptIsExact, Exact

\* At first there is no attempt.
LEMMA AttemptInit == Init => AttemptInv
BY DEF Init, AttemptInv, BlankUntilSetUp, AttemptIsExact, IsSetUp, IsPending, Votes, HasApprovedFactor

\* Votes can be counted, being factors.
LEMMA VotesFinite ==
  ASSUME NEW a \in Accounts
  PROVE  IsFiniteSet(Votes(a)) /\ Cardinality(Votes(a)) \in Nat
<1>1. Votes(a) \subseteq Factors
  BY DEF Votes
<1> QED
  BY <1>1, RecoveryAssumption, FS_Subset, FS_CardinalityType

\* An accepted ticket adds its factor's vote, and nothing else.
LEMMA OneVoteMore ==
  ASSUME TypeOK, NEW a \in Accounts, NEW o \in Owners, NEW nonce \in Nonces, NEW t \in Times,
         NEW f \in Factors, NEW n \in ActionNullifiers,
         SubmitRecoveryTicketInternal(a, o, nonce, t, f, n)
  PROVE  /\ f \notin Votes(a) /\ Votes(a)' = Votes(a) \cup {f}
         /\ Cardinality(Votes(a)') = Cardinality(Votes(a)) + 1
         /\ \A b \in Accounts \ {a} : Votes(b)' = Votes(b)
<1> USE DEF SubmitRecoveryTicketInternal, IsAcceptable, CountApproval
<1>1. f \notin Votes(a) /\ recoveryNonce' = recoveryNonce /\ nonce = recoveryNonce[a]
  BY DEF Votes
<1>2. approved'[a] = approved[a] \cup {<<nonce, f>>}
      /\ \A b \in Accounts \ {a} : approved'[b] = approved[b]
  BY DEF TypeOK
<1>3. Votes(a)' = Votes(a) \cup {f}
  BY <1>1, <1>2 DEF Votes, HasApprovedFactor
<1>4. \A b \in Accounts \ {a} : Votes(b)' = Votes(b)
  BY <1>1, <1>2 DEF Votes, HasApprovedFactor
<1> QED
  BY <1>1, <1>3, <1>4, VotesFinite, FS_AddElement

\* The attempt of an account that a step leaves alone.
LEMMA AttemptFrame ==
  ASSUME AttemptInv, NEW b \in Accounts,
         owner'[b] = owner[b], config'[b] = config[b], recoveryNonce'[b] = recoveryNonce[b],
         pending'[b] = pending[b], approved'[b] = approved[b]
  PROVE  Votes(b)' = Votes(b) /\ Exact(b)'
<1>1. Votes(b)' = Votes(b)
  BY DEF Votes, HasApprovedFactor
<1> QED
  BY <1>1, ExactEach DEF Exact, IsSetUp, IsPending, NoPending

\* A nonce without approvals, and no recovery pending: what setup, cancellation and completion
\* leave behind.
LEMMA FreshAttempt ==
  ASSUME TypeOK, NEW a \in Accounts, Exact(a),
         recoveryNonce'[a] > recoveryNonce[a], recoveryNonce'[a] \in Nat,
         approved'[a] = approved[a], pending'[a] = NoPending, IsSetUp(a)'
  PROVE  Votes(a)' = {} /\ Exact(a)'
<1>1. \A vote \in approved[a] : vote[1] < recoveryNonce'[a]
  BY DEF Exact, TypeOK, Nonces
<1>2. Votes(a)' = {}
  BY <1>1 DEF Votes, HasApprovedFactor, TypeOK, Nonces
<1> QED
  BY <1>1, <1>2 DEF Exact, IsPending, TypeOK, Nonces

\* The invariant of attempts is inductive.
LEMMA AttemptStep == TypeOK /\ AttemptInv /\ [Next]_vars => AttemptInv'
<1> SUFFICES ASSUME TypeOK, AttemptInv, [Next]_vars, NEW b \in Accounts PROVE Exact(b)'
  BY ExactEach DEF AttemptInv, BlankUntilSetUp, AttemptIsExact, Exact
<1> USE RecoveryAssumption
<1>0. Exact(b) /\ TypeOK'
  BY ExactEach, TypeStep
<1>1. CASE UNCHANGED <<attemptVars, now>> \/ Tick
  BY <1>1, AttemptFrame DEF attemptVars, Tick
<1>2. ASSUME NEW a \in Accounts, NEW o \in Owners, NEW c \in RecoveryChoices, SetupRecovery(a, o, c)
      PROVE  Exact(b)'
  <2>1. CASE b = a
    <3>1. Votes(b)' = Votes(b)
      BY <1>0, <1>2, <2>1 DEF SetupRecovery, Exact, Votes, HasApprovedFactor, TypeOK
    <3>2. owner'[b] = o /\ recoveryNonce'[b] = 0 /\ pending' = pending /\ approved' = approved
      BY <1>2, <2>1 DEF SetupRecovery, TypeOK
    <3> QED
      BY <1>0, <1>2, <2>1, <3>1, <3>2 DEF SetupRecovery, Exact, IsSetUp, IsPending, NoPending
  <2>2. CASE b # a
    BY <1>2, <2>2, AttemptFrame DEF SetupRecovery, TypeOK
  <2> QED
    BY <2>1, <2>2
<1>3. ASSUME NEW a \in Accounts, NEW c \in RecoveryChoices, UpdateRecoveryConfig(a, c)
      PROVE  Exact(b)'
  <2>1. CASE b = a
    <3>1. Votes(b)' = Votes(b)
      BY <1>3 DEF UpdateRecoveryConfig, Votes, HasApprovedFactor
    <3> QED
      BY <1>0, <1>3, <2>1, <3>1 DEF UpdateRecoveryConfig, Exact, IsSetUp, IsPending, NoPending
  <2>2. CASE b # a
    BY <1>3, <2>2, AttemptFrame DEF UpdateRecoveryConfig, TypeOK
  <2> QED
    BY <2>1, <2>2
<1>4. ASSUME NEW a \in Accounts, NEW o \in Owners, NEW nonce \in Nonces, NEW t \in Times,
             NEW f \in Factors, NEW n \in ActionNullifiers,
             SubmitRecoveryTicketInternal(a, o, nonce, t, f, n)
      PROVE  Exact(b)'
  <2>0. /\ Votes(a)' = Votes(a) \cup {f}
        /\ Cardinality(Votes(a)') = Cardinality(Votes(a)) + 1
    BY <1>4, OneVoteMore
  <2> USE DEF SubmitRecoveryTicketInternal, IsAcceptable, CountApproval
  <2>1. CASE b = a
    <3> DEFINE count == pending[a].approvedCount + 1
    <3>1. count = Cardinality(Votes(a)')
      <4>1. CASE IsPending(a)
        BY <1>0, <2>0, <2>1, <4>1 DEF Exact
      <4>2. CASE ~IsPending(a)
        <5>1. Votes(a) = {}
          BY <1>0, <2>1, <4>2 DEF Exact
        <5>2. Cardinality(Votes(a)') = 1
          BY <2>0, <5>1, FS_EmptySet
        <5>3. pending[a].approvedCount = 0
          BY <4>2 DEF IsPending, NoPending
        <5> QED
          BY <5>2, <5>3
      <4> QED
        BY <4>1, <4>2
    <3>2. Votes(a)' \subseteq config[a].factors
      BY <1>0, <1>4, <2>0, <2>1 DEF Exact, IsAllowedMasterNullifier
    <3>3. pending'[a] = [newOwner |-> o, nonce |-> nonce, approvedCount |-> count,
            executableAt |-> IF count >= config[a].threshold THEN now + config[a].timelock ELSE 0]
      BY <1>4 DEF TypeOK
    <3>4. owner' = owner /\ config' = config /\ recoveryNonce' = recoveryNonce
          /\ nonce = recoveryNonce[a] /\ owner[a] # Zero
      BY <1>4 DEF IsSetUp
    <3>5. config[a].threshold \in Nat /\ now + config[a].timelock # 0 /\ count \in Nat
      <4>1. config[a].threshold \in Nat /\ config[a].timelock \in Nat /\ now \in Nat \ {0}
        BY ConfigType DEF TypeOK, Times
      <4>2. pending[a].approvedCount \in Nat
        BY DEF TypeOK, NoPending
      <4> QED
        BY <4>1, <4>2
    <3>6. pending'[a] # NoPending
      BY <3>3 DEF NoPending
    <3>7. \A vote \in approved'[a] : vote[1] <= recoveryNonce'[a]
      BY <1>0, <1>4, <2>1, <3>4 DEF Exact, TypeOK, Nonces
    <3>8. pending'[a].executableAt = 0 <=> Cardinality(Votes(a)') < config'[a].threshold
      BY <3>1, <3>3, <3>4, <3>5
    <3> QED
      BY <2>1, <3>1, <3>2, <3>3, <3>4, <3>6, <3>7, <3>8 DEF Exact, IsSetUp, IsPending, NoPending
  <2>2. CASE b # a
    BY <1>4, <2>2, AttemptFrame DEF TypeOK
  <2> QED
    BY <2>1, <2>2
<1>5. ASSUME NEW a \in Accounts, FinalizeRecovery(a) \/ CancelRecovery(a)
      PROVE  Exact(b)'
  <2> USE DEF FinalizeRecovery, TakeOver, CancelRecovery
  <2>1. CASE b = a
    <3>1. IsPending(a) /\ IsSetUp(a) /\ pending[a].nonce = recoveryNonce[a]
      BY <1>0, <1>5, <2>1 DEF Exact
    <3>2. recoveryNonce'[a] = recoveryNonce[a] + 1 /\ pending'[a] = NoPending
          /\ approved' = approved
      BY <1>5, <3>1 DEF TypeOK
    <3>3. pending[a].newOwner \in Owners
      BY <3>1 DEF TypeOK, IsPending
    <3>4. IsSetUp(a)'
      BY <1>5, <3>1, <3>3 DEF IsSetUp, TypeOK
    <3> QED
      BY <1>0, <2>1, <3>2, <3>4, FreshAttempt DEF TypeOK, Nonces
  <2>2. CASE b # a
    BY <1>5, <2>2, AttemptFrame DEF TypeOK
  <2> QED
    BY <2>1, <2>2
<1> QED
  BY <1>1, <1>2, <1>3, <1>4, <1>5, AttemptCases

\* An attempt's counter, approvals and deadline agree, and no approval outlives its attempt.
THEOREM AttemptsAreExact == Spec => []AttemptIsExact
<1>1. Init => TypeOK /\ AttemptInv
  BY TypeInit, AttemptInit
<1>2. TypeOK /\ AttemptInv /\ [Next]_vars => (TypeOK /\ AttemptInv)'
  BY TypeStep, AttemptStep
<1>3. AttemptInv => AttemptIsExact
  BY DEF AttemptInv
<1> QED
  BY <1>1, <1>2, <1>3, PTL DEF Spec

(***************************************************************************)
(* Tickets.                                                                *)
(***************************************************************************)
TicketInv ==
  \A a \in Accounts :
    /\ IsFiniteSet(usedAction[a]) /\ IsFiniteSet(approved[a])
    /\ Cardinality(usedAction[a]) = Cardinality(approved[a]) + sessionNonce[a]

\* Nullifiers, approvals and session counters change only when a ticket is accepted.
LEMMA TicketCases ==
  ASSUME TypeOK, [Next]_vars
  PROVE  \/ UNCHANGED <<approved, usedAction, sessionNonce>>
         \/ \E a \in Accounts, o \in Owners, t \in Times, n \in ActionNullifiers :
              \/ \E nonce \in Nonces, f \in Factors :
                   SubmitRecoveryTicketInternal(a, o, nonce, t, f, n)
              \/ ActivateActionSessionInternal(a, o, t, n)
<1>1. ASSUME NEW m \in Oracles, NEW id \in Ids, NEW f \in Factors, NEW n \in ActionNullifiers,
             OnRecoveryResult(m, id, f, n)
      PROVE  \E a \in Accounts, o \in Owners, nonce \in Nonces, t \in Times :
               SubmitRecoveryTicketInternal(a, o, nonce, t, f, n)
  <2>1. recoveryRequest[id] \in RecoveryRequests
    BY <1>1 DEF OnRecoveryResult, TypeOK
  <2> QED
    BY <1>1, <2>1 DEF OnRecoveryResult, RecoveryRequests
<1>2. ASSUME NEW m \in Oracles, NEW id \in Ids, NEW n \in ActionNullifiers, OnActionResult(m, id, n)
      PROVE  \E a \in Accounts, o \in Owners, t \in Times :
               ActivateActionSessionInternal(a, o, t, n)
  <2>1. actionRequest[id] \in ActionRequests
    BY <1>2 DEF OnActionResult, TypeOK
  <2> QED
    BY <1>2, <2>1 DEF OnActionResult, ActionRequests
<1>3. ASSUME NEW a \in Accounts, NEW o \in Owners,
             \/ \E t \in Times : RequestRecoveryTicket(a, o, t) \/ RequestActionSession(a, o, t)
             \/ \E c \in RecoveryChoices : SetupRecovery(a, o, c)
      PROVE  UNCHANGED <<approved, usedAction, sessionNonce>>
  BY <1>3 DEF RequestRecoveryTicket, RequestActionSession, SetupRecovery, attemptVars, sessionVars
<1>4. ASSUME NEW a \in Accounts,
             \/ \E x \in Amounts : OnNEP17Payment(a, x) \/ DepositOracleCredits(a, x)
             \/ \E c \in RecoveryChoices : UpdateRecoveryConfig(a, c)
             \/ FinalizeRecovery(a) \/ CancelRecovery(a) \/ RevokeActionSession(a)
      PROVE  UNCHANGED <<approved, usedAction, sessionNonce>>
  BY <1>4 DEF OnNEP17Payment, DepositOracleCredits, UpdateRecoveryConfig, FinalizeRecovery, TakeOver,
              CancelRecovery, RevokeActionSession, attemptVars, sessionVars
<1>5. CASE UNCHANGED vars \/ Tick
  BY <1>5 DEF vars, Tick, attemptVars, sessionVars
<1> QED
  BY <1>1, <1>2, <1>3, <1>4, <1>5 DEF Next, SubmitRecoveryTicket, SubmitActionTicket

\* A set with one member more counts one more.
LEMMA OneMore ==
  ASSUME NEW S, IsFiniteSet(S), NEW x, x \notin S, NEW T, T = S \cup {x}
  PROVE  IsFiniteSet(T) /\ Cardinality(T) = Cardinality(S) + 1
BY FS_AddElement

\* An accepted ticket spends one nullifier and counts once.
LEMMA TicketStep == TypeOK /\ TicketInv /\ [Next]_vars => TicketInv'
<1> SUFFICES ASSUME TypeOK, TicketInv, [Next]_vars, NEW b \in Accounts
             PROVE  /\ IsFiniteSet(usedAction'[b]) /\ IsFiniteSet(approved'[b])
                    /\ Cardinality(usedAction'[b]) = Cardinality(approved'[b]) + sessionNonce'[b]
  BY DEF TicketInv
<1>0. /\ IsFiniteSet(usedAction[b]) /\ IsFiniteSet(approved[b])
      /\ Cardinality(usedAction[b]) = Cardinality(approved[b]) + sessionNonce[b]
      /\ Cardinality(usedAction[b]) \in Nat /\ Cardinality(approved[b]) \in Nat
      /\ sessionNonce[b] \in Nat
  BY FS_CardinalityType DEF TicketInv, TypeOK
<1>1. CASE UNCHANGED <<approved, usedAction, sessionNonce>>
  BY <1>0, <1>1
<1>2. ASSUME NEW a \in Accounts, NEW o \in Owners, NEW t \in Times, NEW n \in ActionNullifiers,
             NEW nonce \in Nonces, NEW f \in Factors,
             SubmitRecoveryTicketInternal(a, o, nonce, t, f, n)
      PROVE  /\ IsFiniteSet(usedAction'[b]) /\ IsFiniteSet(approved'[b])
             /\ Cardinality(usedAction'[b]) = Cardinality(approved'[b]) + sessionNonce'[b]
  <2> USE DEF SubmitRecoveryTicketInternal, IsAcceptable, CountApproval
  <2>1. CASE b = a
    <3>1. /\ usedAction'[b] = usedAction[b] \cup {n} /\ n \notin usedAction[b]
          /\ approved'[b] = approved[b] \cup {<<nonce, f>>} /\ <<nonce, f>> \notin approved[b]
          /\ sessionNonce' = sessionNonce
      BY <1>2, <2>1 DEF TypeOK, IsActionNullifierUsed, HasApprovedFactor, sessionVars
    <3>2. /\ IsFiniteSet(usedAction'[b])
          /\ Cardinality(usedAction'[b]) = Cardinality(usedAction[b]) + 1
      BY <1>0, <3>1, OneMore
    <3>3. /\ IsFiniteSet(approved'[b])
          /\ Cardinality(approved'[b]) = Cardinality(approved[b]) + 1
      BY <1>0, <3>1, OneMore
    <3> QED
      BY <1>0, <3>1, <3>2, <3>3
  <2>2. CASE b # a
    BY <1>0, <1>2, <2>2 DEF TypeOK, sessionVars
  <2> QED
    BY <2>1, <2>2
<1>3. ASSUME NEW a \in Accounts, NEW o \in Owners, NEW t \in Times, NEW n \in ActionNullifiers,
             ActivateActionSessionInternal(a, o, t, n)
      PROVE  /\ IsFiniteSet(usedAction'[b]) /\ IsFiniteSet(approved'[b])
             /\ Cardinality(usedAction'[b]) = Cardinality(approved'[b]) + sessionNonce'[b]
  <2> USE DEF ActivateActionSessionInternal
  <2>1. CASE b = a
    <3>1. /\ usedAction'[b] = usedAction[b] \cup {n} /\ n \notin usedAction[b]
          /\ approved' = approved /\ sessionNonce'[b] = sessionNonce[b] + 1
      BY <1>3, <2>1 DEF TypeOK, IsActionNullifierUsed, attemptVars
    <3>2. /\ IsFiniteSet(usedAction'[b])
          /\ Cardinality(usedAction'[b]) = Cardinality(usedAction[b]) + 1
      BY <1>0, <3>1, OneMore
    <3> QED
      BY <1>0, <3>1, <3>2
  <2>2. CASE b # a
    BY <1>0, <1>3, <2>2 DEF TypeOK, attemptVars
  <2> QED
    BY <2>1, <2>2
<1> QED
  BY <1>1, <1>2, <1>3, TicketCases

\* A ticket counts once, for a recovery or for a session.
THEOREM TicketsCountOnce == Spec => []EveryTicketCountsOnce
<1>1. Init => TypeOK /\ TicketInv
  BY TypeInit, FS_EmptySet DEF Init, TicketInv
<1>2. TypeOK /\ TicketInv /\ [Next]_vars => (TypeOK /\ TicketInv)'
  BY TypeStep, TicketStep
<1>3. TicketInv => EveryTicketCountsOnce
  BY DEF TicketInv, EveryTicketCountsOnce
<1> QED
  BY <1>1, <1>2, <1>3, PTL DEF Spec

(***************************************************************************)
(* Authority.                                                              *)
(***************************************************************************)

\* What a step does to the authority over an account: a session begins, a session or an owner's
\* time ends, a recovery completes, or nothing but time happens.
LEMMA AuthorityCases ==
  ASSUME TypeOK, AttemptInv, [Next]_vars, NEW b \in Accounts, IsSetUp(b)
  PROVE  \/ /\ owner'[b] = owner[b] /\ now' >= now
            /\ session'[b] \in {session[b], NoSession}
         \/ /\ owner'[b] = owner[b] /\ recoveryNonce' = recoveryNonce
            /\ session'[b].nullifier \in usedAction'[b] \ usedAction[b]
         \/ FinalizeRecovery(b)
<1> USE RecoveryAssumption
<1>0. now \in Nat
  BY DEF TypeOK, Times
<1>1. ASSUME NEW a \in Accounts, NEW o \in Owners, NEW t \in Times, NEW n \in ActionNullifiers,
             ActivateActionSessionInternal(a, o, t, n)
      PROVE  \/ /\ owner'[b] = owner[b] /\ now' >= now
                /\ session'[b] \in {session[b], NoSession}
             \/ /\ owner'[b] = owner[b] /\ recoveryNonce' = recoveryNonce
                /\ session'[b].nullifier \in usedAction'[b] \ usedAction[b]
  <2> USE DEF ActivateActionSessionInternal
  <2>1. CASE b = a
    <3>1. n \in usedAction'[b] \ usedAction[b]
      BY <1>1, <2>1 DEF TypeOK, IsActionNullifierUsed
    <3>2. session'[b].nullifier = n
      BY <1>1, <2>1 DEF TypeOK
    <3> QED
      BY <1>1, <3>1, <3>2 DEF attemptVars
  <2>2. CASE b # a
    BY <1>0, <1>1, <2>2 DEF TypeOK, attemptVars
  <2> QED
    BY <2>1, <2>2
<1>2. ASSUME NEW m \in Oracles, NEW id \in Ids, NEW n \in ActionNullifiers, OnActionResult(m, id, n)
      PROVE  \E a \in Accounts, o \in Owners, t \in Times :
               ActivateActionSessionInternal(a, o, t, n)
  <2>1. actionRequest[id] \in ActionRequests
    BY <1>2 DEF OnActionResult, TypeOK
  <2> QED
    BY <1>2, <2>1 DEF OnActionResult, ActionRequests
<1>3. ASSUME NEW a, NEW o, NEW nonce, NEW t, NEW f, NEW n,
             SubmitRecoveryTicketInternal(a, o, nonce, t, f, n)
      PROVE  owner' = owner /\ now' = now /\ session' = session
  BY <1>3 DEF SubmitRecoveryTicketInternal, CountApproval, sessionVars
<1>4. ASSUME NEW a \in Accounts,
             FinalizeRecovery(a) \/ CancelRecovery(a) \/ RevokeActionSession(a)
      PROVE  \/ owner'[b] = owner[b] /\ now' = now /\ session'[b] \in {session[b], NoSession}
             \/ FinalizeRecovery(b)
  <2>1. CASE b = a
    BY <1>4, <2>1 DEF CancelRecovery, RevokeActionSession, TypeOK, attemptVars, sessionVars
  <2>2. CASE b # a
    BY <1>4, <2>2 DEF FinalizeRecovery, TakeOver, CancelRecovery, RevokeActionSession, TypeOK,
                      attemptVars, sessionVars
  <2> QED
    BY <2>1, <2>2
<1>5. ASSUME NEW a \in Accounts, NEW o \in Owners, NEW c \in RecoveryChoices, SetupRecovery(a, o, c)
      PROVE  owner'[b] = owner[b] /\ now' = now /\ session' = session
  BY <1>5 DEF SetupRecovery, IsSetUp, TypeOK, sessionVars
<1>6. ASSUME NEW a \in Accounts, NEW o \in Owners, NEW t \in Times,
             RequestRecoveryTicket(a, o, t) \/ RequestActionSession(a, o, t)
      PROVE  owner' = owner /\ now' = now /\ session' = session
  BY <1>6 DEF RequestRecoveryTicket, RequestActionSession, attemptVars, sessionVars
<1>7. ASSUME NEW a \in Accounts,
             \/ \E x \in Amounts : OnNEP17Payment(a, x) \/ DepositOracleCredits(a, x)
             \/ \E c \in RecoveryChoices : UpdateRecoveryConfig(a, c)
      PROVE  owner' = owner /\ now' = now /\ session' = session
  BY <1>7 DEF OnNEP17Payment, DepositOracleCredits, UpdateRecoveryConfig, attemptVars, sessionVars
<1>8. CASE UNCHANGED vars \/ Tick
  BY <1>0, <1>8 DEF vars, Tick, attemptVars, sessionVars
<1> QED
  BY <1>0, <1>1, <1>2, <1>3, <1>4, <1>5, <1>6, <1>7, <1>8
     DEF Next, SubmitRecoveryTicket, SubmitActionTicket, OnRecoveryResult

\* Authority comes from a complete recovery or a fresh ticket, and a recovery ends everybody
\* else's.
THEOREM AuthorityComesFromTickets == Spec => AuthorityIsEarned
<1> DEFINE Earned(a) ==
      /\ \A x \in Authorised(a)' \ Authorised(a) :
           \/ x = pending[a].newOwner /\ pending[a].executableAt \in 1..now
           \/ session'[a].nullifier \in usedAction'[a] \ usedAction[a]
      /\ recoveryNonce'[a] # recoveryNonce[a] /\ owner'[a] # owner[a] =>
           Authorised(a)' = {pending[a].newOwner}
<1>1. ASSUME TypeOK, AttemptInv, [Next]_vars, NEW a \in Accounts, IsSetUp(a)
      PROVE  Earned(a)
  <2>0. /\ now \in Nat /\ now' \in Nat /\ now >= 1 /\ now' >= 1
        /\ session[a].expiresAt \in Nat
    <3>1. TypeOK'
      BY <1>1, TypeStep
    <3> QED
      BY <1>1, <3>1 DEF TypeOK, Times, NoSession
  <2>1. CASE /\ owner'[a] = owner[a] /\ now' >= now
             /\ session'[a] \in {session[a], NoSession}
    <3>1. Authorised(a)' \subseteq Authorised(a)
      <4>1. CASE session'[a] = session[a]
        BY <2>0, <2>1, <4>1 DEF Authorised
      <4>2. CASE session'[a] = NoSession
        BY <2>0, <2>1, <4>2 DEF Authorised, NoSession
      <4> QED
        BY <2>1, <4>1, <4>2
    <3> QED
      BY <2>1, <3>1
  <2>2. CASE /\ owner'[a] = owner[a] /\ recoveryNonce' = recoveryNonce
             /\ session'[a].nullifier \in usedAction'[a] \ usedAction[a]
    BY <2>2
  <2>3. CASE FinalizeRecovery(a)
    <3>1. /\ owner'[a] = pending[a].newOwner /\ session'[a] = NoSession /\ now' = now
          /\ pending[a].executableAt \in 1..now
      <4>1. pending[a].executableAt \in Nat
        BY <1>1 DEF TypeOK, NoPending
      <4>2. pending[a].executableAt > 0 /\ now >= pending[a].executableAt
        BY <2>3 DEF FinalizeRecovery, TakeOver
      <4> QED
        BY <1>1, <2>0, <2>3, <4>1, <4>2 DEF FinalizeRecovery, TakeOver, TypeOK
    <3>2. pending[a].newOwner \in Owners
      BY <1>1, <2>3 DEF FinalizeRecovery, TakeOver, IsPending, TypeOK
    <3>3. Authorised(a)' = {pending[a].newOwner}
      BY <2>0, <3>1, <3>2, RecoveryAssumption DEF Authorised, NoSession
    <3> QED
      BY <3>1, <3>3
  <2> QED
    BY <1>1, <2>1, <2>2, <2>3, AuthorityCases
<1>2. TypeOK /\ AttemptInv /\ [Next]_vars =>
        [\A a \in Accounts : IsSetUp(a) => Earned(a)]_vars
  BY <1>1
<1>3. Init => TypeOK /\ AttemptInv
  BY TypeInit, AttemptInit
<1>4. TypeOK /\ AttemptInv /\ [Next]_vars => (TypeOK /\ AttemptInv)'
  BY TypeStep, AttemptStep
<1> QED
  BY <1>2, <1>3, <1>4, PTL DEF Spec, AuthorityIsEarned

(***************************************************************************)
(* Refinement.  By AttemptIsExact the number of votes is the counter that  *)
(* the code compares with the threshold.                                   *)
(***************************************************************************)
LEMMA PromiseInit == Init => Promise!Init
<1> SUFFICES ASSUME Init PROVE Promise!Init
  OBVIOUS
<1>1. \A a \in Accounts : Attempt(a) = Promise!NoAttempt
  BY DEF Init, Attempt, Promise!NoAttempt, NoPending, Votes, HasApprovedFactor
<1> QED
  BY <1>1 DEF Init, Promise!Init, Promise!Unset, NoConfig, Attempts

\* No recovery pending, no attempt.
LEMMA IdleAttempt ==
  ASSUME AttemptInv, NEW a \in Accounts
  PROVE  ~IsPending(a) => Attempt(a) = Promise!NoAttempt
<1> SUFFICES ASSUME ~IsPending(a) PROVE Attempt(a) = Promise!NoAttempt
  OBVIOUS
<1>1. Votes(a) = {} /\ pending[a] = NoPending
  BY DEF AttemptInv, AttemptIsExact, IsPending
<1> QED
  BY <1>1 DEF Attempt, NoPending, Promise!NoAttempt

\* A step on one account changes one attempt.
LEMMA AttemptsChange ==
  ASSUME NEW a \in Accounts, \A b \in Accounts \ {a} : Attempt(b)' = Attempt(b)
  PROVE  Attempts' = [Attempts EXCEPT ![a] = Attempt(a)']
BY DEF Attempts

\* The two modules mean the same by the size of a set.
LEMMA SameCardinality == \A S : Promise!Cardinality(S) = Cardinality(S)
  BY DEF Promise!Cardinality, Cardinality

\* Every step is one of GuardedRecovery, or none.
LEMMA PromiseStep ==
  ASSUME TypeOK, AttemptInv, [Next]_vars
  PROVE  [Promise!Next]_(Promise!promiseVars)
<1> USE RecoveryAssumption
<1>0. TypeOK' /\ AttemptInv'
  BY TypeStep, AttemptStep
<1>1. CASE UNCHANGED <<attemptVars, now>>
  <2>1. Attempts' = Attempts
    BY <1>1 DEF Attempts, Attempt, Votes, HasApprovedFactor, attemptVars
  <2> QED
    BY <1>1, <2>1 DEF Promise!promiseVars, attemptVars
<1>2. CASE Tick
  <2>1. Attempts' = Attempts
    BY <1>2 DEF Tick, Attempts, Attempt, Votes, HasApprovedFactor, attemptVars
  <2>2. Promise!Tick
    BY <1>2, <2>1 DEF Tick, Promise!Tick, attemptVars
  <2> QED
    BY <2>2 DEF Promise!Next
<1>3. ASSUME NEW a \in Accounts, NEW o \in Owners, NEW c \in RecoveryChoices, SetupRecovery(a, o, c)
      PROVE  Promise!SetUp(a)
  <2>1. \A b \in Accounts : recoveryNonce'[b] = recoveryNonce[b]
    BY <1>3 DEF SetupRecovery, AttemptInv, BlankUntilSetUp, TypeOK
  <2>2. Attempts' = Attempts
    BY <1>3, <2>1 DEF SetupRecovery, Attempts, Attempt, Votes, HasApprovedFactor
  <2> QED
    BY <1>3, <2>2 DEF SetupRecovery, IsSetUp, Promise!SetUp
<1>4. ASSUME NEW a \in Accounts, NEW c \in RecoveryChoices, UpdateRecoveryConfig(a, c)
      PROVE  Promise!Reconfigure(a)
  <2>1. Attempts' = Attempts
    BY <1>4 DEF UpdateRecoveryConfig, Attempts, Attempt, Votes, HasApprovedFactor
  <2>2. Attempts[a] = Promise!NoAttempt
    BY <1>4, IdleAttempt DEF UpdateRecoveryConfig, Attempts
  <2> QED
    BY <1>4, <2>1, <2>2 DEF UpdateRecoveryConfig, IsSetUp, Promise!Reconfigure
<1>5. ASSUME NEW a \in Accounts, NEW o \in Owners, NEW nonce \in Nonces, NEW t \in Times,
             NEW f \in Factors, NEW n \in ActionNullifiers,
             SubmitRecoveryTicketInternal(a, o, nonce, t, f, n)
      PROVE  Promise!Vote(a)
  <2>1. /\ f \notin Votes(a) /\ Votes(a)' = Votes(a) \cup {f}
        /\ \A b \in Accounts \ {a} : Votes(b)' = Votes(b)
    BY <1>5, OneVoteMore
  <2>2. pending'[a] \in [newOwner : Owners, nonce : Nonces, approvedCount : Nat, executableAt : Nat]
        /\ pending'[a].newOwner = o
    BY <1>0, <1>5 DEF SubmitRecoveryTicketInternal, CountApproval, TypeOK, NoPending
  <2>3. pending'[a].approvedCount = Cardinality(Votes(a) \cup {f})
    <3>1. IsPending(a)'
      BY <2>2 DEF IsPending, NoPending
    <3> QED
      BY <1>0, <2>1, <3>1 DEF AttemptInv, AttemptIsExact
  <2>4. /\ owner' = owner /\ config' = config /\ now' = now
        /\ pending[a].newOwner \in {Zero, o} /\ pending[a].executableAt = 0
        /\ f \in config[a].factors
    BY <1>5 DEF SubmitRecoveryTicketInternal, IsAcceptable, CountApproval, PendingTargets, IsPending,
                NoPending, IsAllowedMasterNullifier
  <2>5. pending'[a].executableAt = IF pending'[a].approvedCount < config[a].threshold THEN 0
                                   ELSE now + config[a].timelock
    <3>1. config[a].threshold \in Nat /\ pending[a].approvedCount \in Nat
      BY ConfigType DEF TypeOK, NoPending
    <3> QED
      BY <1>5, <3>1 DEF SubmitRecoveryTicketInternal, CountApproval, TypeOK
  <2>6. \A b \in Accounts \ {a} : Attempt(b)' = Attempt(b)
    BY <1>5, <2>1 DEF SubmitRecoveryTicketInternal, CountApproval, TypeOK, Attempt
  <2>7. Attempts' = [Attempts EXCEPT ![a] =
          [newOwner |-> o, votes |-> Votes(a) \cup {f},
           readyAt |-> IF Cardinality(Votes(a) \cup {f}) < config[a].threshold THEN 0
                       ELSE now + config[a].timelock]]
    BY <2>1, <2>2, <2>3, <2>5, <2>6, AttemptsChange DEF Attempt
  <2>8. Attempts[a].votes = Votes(a) /\ Attempts[a].newOwner = pending[a].newOwner
        /\ Attempts[a].readyAt = pending[a].executableAt
    BY DEF Attempts, Attempt
  <2>9. f \in config[a].factors \ Attempts[a].votes /\ Attempts[a].newOwner \in {Zero, o}
        /\ Attempts[a].readyAt = 0
    BY <2>1, <2>4, <2>8
  <2>10. Attempts' = [Attempts EXCEPT ![a] =
           [newOwner |-> o, votes |-> Attempts[a].votes \cup {f},
            readyAt |-> IF Cardinality(Attempts[a].votes \cup {f}) < config[a].threshold THEN 0
                        ELSE now + config[a].timelock]]
    BY <2>7, <2>8
  <2> QED
    <3> SUFFICES \E p \in Owners, g \in config[a].factors \ Attempts[a].votes :
                   LET votes == Attempts[a].votes \cup {g} IN
                   /\ Attempts[a].newOwner \in {Zero, p} /\ Attempts[a].readyAt = 0
                   /\ Attempts' = [Attempts EXCEPT ![a] =
                        [newOwner |-> p, votes |-> votes,
                         readyAt |-> IF Cardinality(votes) < config[a].threshold THEN 0
                                     ELSE now + config[a].timelock]]
                   /\ UNCHANGED <<owner, config, now>>
      BY SameCardinality DEF Promise!Vote
    <3> QED
      BY <2>4, <2>9, <2>10
<1>6. ASSUME NEW a \in Accounts, FinalizeRecovery(a) \/ CancelRecovery(a)
      PROVE  Promise!CallOff(a) \/ Promise!Complete(a)
  <2> USE DEF FinalizeRecovery, TakeOver, CancelRecovery
  <2>1. IsPending(a) /\ pending'[a] = NoPending /\ approved' = approved
        /\ config' = config /\ now' = now
    BY <1>6 DEF TypeOK
  <2>2. Attempt(a)' = Promise!NoAttempt
    <3>1. Votes(a)' = {}
      BY <1>0, <2>1 DEF AttemptInv, AttemptIsExact, IsPending, NoPending
    <3> QED
      BY <2>1, <3>1 DEF Attempt, NoPending, Promise!NoAttempt
  <2>3. \A b \in Accounts \ {a} : Attempt(b)' = Attempt(b)
    BY <1>6 DEF TypeOK, Attempt, Votes, HasApprovedFactor
  <2>4. Attempts' = [Attempts EXCEPT ![a] = Promise!NoAttempt]
    BY <2>2, <2>3, AttemptsChange
  <2>5. pending[a].newOwner \in Owners /\ pending[a].executableAt \in Nat /\ now \in Nat
    BY <2>1 DEF IsPending, TypeOK, Times
  <2>6. /\ Attempts[a].newOwner = pending[a].newOwner
        /\ Attempts[a].readyAt = pending[a].executableAt
        /\ Attempts[a] # Promise!NoAttempt
    BY <2>5 DEF Attempts, Attempt, Promise!NoAttempt
  <2>7. CASE FinalizeRecovery(a)
    <3>1. /\ pending[a].executableAt \in 1..now
          /\ owner' = [owner EXCEPT ![a] = pending[a].newOwner]
      BY <2>5, <2>7
    <3> QED
      BY <2>1, <2>4, <2>6, <3>1 DEF Promise!Complete
  <2>8. CASE CancelRecovery(a)
    BY <2>1, <2>4, <2>6, <2>8 DEF Promise!CallOff
  <2> QED
    BY <1>6, <2>7, <2>8
<1> QED
  BY <1>1, <1>2, <1>3, <1>4, <1>5, <1>6, AttemptCases DEF Promise!Next

\* SocialRecovery implements GuardedRecovery.
THEOREM RecoveryIsGuarded == Spec => RecoveryKeepsPromise
<1>1. Init => TypeOK /\ AttemptInv
  BY TypeInit, AttemptInit
<1>2. TypeOK /\ AttemptInv /\ [Next]_vars => (TypeOK /\ AttemptInv)'
  BY TypeStep, AttemptStep
<1>3. TypeOK /\ AttemptInv /\ [Next]_vars => [Promise!Next]_(Promise!promiseVars)
  BY PromiseStep
<1> QED
  BY PromiseInit, <1>1, <1>2, <1>3, PTL DEF Spec, RecoveryKeepsPromise, Promise!Spec

(***************************************************************************)
(* Credits.  The contract keeps one balance for all accounts; a step that  *)
(* moves it changes the credit of one account by as much.                  *)
(***************************************************************************)
\* The credit of account a moves by d, and no other.
CreditMoved(a, d) ==
  /\ credit' \in [Accounts -> Nat]
  /\ credit'[a] = credit[a] + d
  /\ \A b \in Accounts \ {a} : credit'[b] = credit[b]

\* Everything but a payment in and a deposit out leaves the credits alone.
LEMMA CreditCases ==
  ASSUME [Next]_vars
  PROVE  \/ UNCHANGED <<credit, gas>>
         \/ \E a \in Accounts, amount \in Amounts :
              OnNEP17Payment(a, amount) \/ DepositOracleCredits(a, amount)
<1> DEFINE Kept == UNCHANGED <<credit, gas>>
<1> USE DEF creditVars
<1>1. ASSUME UNCHANGED vars PROVE Kept
  BY <1>1 DEF vars
<1>2. ASSUME NEW a \in Accounts, NEW o \in Owners, NEW c \in RecoveryChoices,
             SetupRecovery(a, o, c)
      PROVE  Kept
  BY <1>2 DEF SetupRecovery
<1>3. ASSUME NEW a \in Accounts, NEW c \in RecoveryChoices, UpdateRecoveryConfig(a, c)
      PROVE  Kept
  BY <1>3 DEF UpdateRecoveryConfig
<1>4. ASSUME NEW a \in Accounts, NEW o \in Owners, NEW nonce \in Nonces, NEW t \in Times,
             NEW f \in Factors, NEW n \in ActionNullifiers,
             SubmitRecoveryTicket(a, o, nonce, t, f, n)
      PROVE  Kept
  BY <1>4 DEF SubmitRecoveryTicket, SubmitRecoveryTicketInternal, CountApproval
<1>5. ASSUME NEW a \in Accounts,
             FinalizeRecovery(a) \/ CancelRecovery(a) \/ RevokeActionSession(a)
      PROVE  Kept
  BY <1>5 DEF FinalizeRecovery, TakeOver, CancelRecovery, RevokeActionSession
<1>6. ASSUME NEW a \in Accounts, NEW e \in Owners, NEW t \in Times, NEW n \in ActionNullifiers,
             SubmitActionTicket(a, e, t, n)
      PROVE  Kept
  BY <1>6 DEF SubmitActionTicket, ActivateActionSessionInternal
<1>7. ASSUME NEW a \in Accounts, NEW o \in Owners, NEW t \in Times,
             RequestRecoveryTicket(a, o, t) \/ RequestActionSession(a, o, t)
      PROVE  Kept
  BY <1>7 DEF RequestRecoveryTicket, RequestActionSession
<1>8. ASSUME NEW m \in Oracles, NEW id \in Ids, NEW n \in ActionNullifiers,
             OnActionResult(m, id, n)
      PROVE  Kept
  BY <1>8 DEF OnActionResult, ActivateActionSessionInternal
<1>9. ASSUME NEW m \in Oracles, NEW id \in Ids, NEW n \in ActionNullifiers, NEW f \in Factors,
             OnRecoveryResult(m, id, f, n)
      PROVE  Kept
  BY <1>9 DEF OnRecoveryResult, SubmitRecoveryTicketInternal, CountApproval
<1>10. Tick => Kept
  BY DEF Tick
<1> QED
  BY <1>1, <1>2, <1>3, <1>4, <1>5, <1>6, <1>7, <1>8, <1>9, <1>10 DEF Next

\* When one account's credit moves, the sum moves with it.
LEMMA CreditMoves ==
  ASSUME NEW a \in Accounts, NEW d \in Int, TypeOK, CreditMoved(a, d)
  PROVE  SumFunction(credit') = SumFunction(credit) + d
<1>1. /\ DOMAIN credit = Accounts /\ DOMAIN credit' = Accounts
      /\ \A b \in Accounts : credit[b] \in Int /\ credit'[b] \in Int
      /\ \A b \in Accounts \ {a} : credit[b] = credit'[b]
      /\ credit'[a] = credit[a] + d
  BY DEF TypeOK, CreditMoved
<1>2. IsFiniteSet(Accounts)
  BY RecoveryAssumption
<1>3. ASSUME NEW f, NEW g, f = credit, g = credit'
      PROVE  SumFunctionOnSet(g, Accounts) = SumFunctionOnSet(f, Accounts) + g[a] - f[a]
  <2>1. \A b \in Accounts : f[b] \in Int /\ g[b] \in Int
    BY <1>1, <1>3
  <2>2. \A b \in Accounts \ {a} : f[b] = g[b]
    BY <1>1, <1>3
  <2> QED
    BY <1>2, <2>1, <2>2, SumChange
<1>4. SumFunctionOnSet(credit, Accounts) \in Int
  BY <1>1, <1>2, SumType
<1>5. SumFunctionOnSet(credit', Accounts)
        = SumFunctionOnSet(credit, Accounts) + credit'[a] - credit[a]
  BY <1>3
<1> QED
  BY <1>1, <1>4, <1>5 DEF SumFunction

\* A payment in and a deposit out move the credits as they move the balance.
LEMMA CreditStep == TypeOK /\ CreditsAreBacked /\ [Next]_vars => CreditsAreBacked'
<1> SUFFICES ASSUME TypeOK, CreditsAreBacked, [Next]_vars PROVE CreditsAreBacked'
  OBVIOUS
<1> USE DEF CreditsAreBacked
<1>0. gas \in Nat /\ SumFunction(credit) = gas
  BY DEF TypeOK
<1>1. CASE UNCHANGED <<credit, gas>>
  BY <1>0, <1>1
<1>2. ASSUME NEW a \in Accounts, NEW amount \in Amounts, OnNEP17Payment(a, amount)
      PROVE  CreditsAreBacked'
  <2>1. amount \in Nat /\ amount \in Int
    BY RecoveryAssumption
  <2>2. credit' = [credit EXCEPT ![a] = @ + amount] /\ gas' = gas + amount
    BY <1>2 DEF OnNEP17Payment
  <2>3. CreditMoved(a, amount)
    BY <2>1, <2>2 DEF CreditMoved, TypeOK
  <2>4. SumFunction(credit') = SumFunction(credit) + amount
    BY <2>1, <2>3, CreditMoves
  <2> QED
    BY <1>0, <2>2, <2>4
<1>3. ASSUME NEW a \in Accounts, NEW amount \in Amounts, DepositOracleCredits(a, amount)
      PROVE  CreditsAreBacked'
  <2>1. amount \in Nat /\ credit \in [Accounts -> Nat]
    BY RecoveryAssumption DEF TypeOK
  <2>2. PICK d \in Int : d = 0 - amount
    BY <2>1
  <2>3. /\ credit' = [credit EXCEPT ![a] = @ - amount] /\ credit[a] >= amount
        /\ gas' = gas - amount
    BY <1>3 DEF DepositOracleCredits
  <2>4. CreditMoved(a, d)
    <3>1. credit[a] - amount \in Nat /\ credit[a] - amount = credit[a] + d
      BY <2>1, <2>2, <2>3
    <3> QED
      BY <2>1, <2>3, <3>1 DEF CreditMoved
  <2>5. SumFunction(credit') = SumFunction(credit) + d
    BY <2>2, <2>4, CreditMoves
  <2> QED
    BY <1>0, <2>1, <2>2, <2>3, <2>5
<1> QED
  BY CreditCases, <1>1, <1>2, <1>3

\* What the contract owes all accounts for their oracle requests is what it holds: no path takes
\* GAS out without a debit, or credits what did not come in.
THEOREM CreditsBacked == Spec => []CreditsAreBacked
<1>1. Init => TypeOK /\ CreditsAreBacked
  <2> SUFFICES ASSUME Init PROVE CreditsAreBacked
    BY TypeInit
  <2>1. DOMAIN credit = Accounts /\ \A a \in Accounts : credit[a] = 0
    BY DEF Init
  <2>2. IsFiniteSet(Accounts)
    BY RecoveryAssumption
  <2>3. SumFunctionOnSet(credit, Accounts) = 0
    BY <2>1, <2>2, SumZero
  <2> QED
    BY <2>1, <2>3 DEF Init, CreditsAreBacked, SumFunction
<1>2. TypeOK /\ CreditsAreBacked /\ [Next]_vars => (TypeOK /\ CreditsAreBacked)'
  BY TypeStep, CreditStep
<1> QED
  BY <1>1, <1>2, PTL DEF Spec
CreditCovered == \A a \in Accounts : credit[a] <= gas

\* An account that deposits credit with its oracle is never refused for the contract's want of GAS.
THEOREM CreditsCovered == Spec => []CreditCovered
<1>1. ASSUME TypeOK, CreditsAreBacked, NEW a \in Accounts PROVE credit[a] <= gas
  <2>1. DOMAIN credit = Accounts /\ IsFiniteSet(Accounts) /\ \A b \in Accounts : credit[b] \in Nat
    BY <1>1, RecoveryAssumption DEF TypeOK
  <2>2. credit[a] <= SumFunctionOnSet(credit, Accounts)
    BY <2>1, SumNat
  <2> QED
    BY <1>1, <2>1, <2>2 DEF CreditsAreBacked, SumFunction
<1>2. TypeOK /\ CreditsAreBacked => CreditCovered
  BY <1>1 DEF CreditCovered
<1> QED
  BY <1>2, RecoveryTypeCorrect, CreditsBacked, PTL
=============================================================================

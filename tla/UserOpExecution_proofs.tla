------------------------ MODULE UserOpExecution_proofs ------------------------
(***************************************************************************)
(* Proofs about UserOpExecution, for any number of accounts and any depth  *)
(* of nesting: what a throw goes back to is typed, and the lock, the       *)
(* contexts and the nonces are those of the call stack.                    *)
(***************************************************************************)
EXTENDS UserOpExecution, AbstractAccount_proofs

(***************************************************************************)
(* Every call into the core is a step of AbstractAccount, and so is the    *)
(* start of an operation.                                                  *)
(***************************************************************************)
LEMMA CoreStep ==
  ASSUME CoreCall \/ UserOpCall \/ NewBlock
  PROVE  Next
BY ZenonT(30) DEF CoreCall, UserOpCall, BeginUserOp, NewBlock, Next

\* An entry point called inside an operation spends no nonce and moves no frame.
LEMMA CoreCallFrame ==
  ASSUME CoreCall
  PROVE  nonce' = nonce /\ now' = now /\ UNCHANGED executionVars
<1>1. CASE \E who \in Owners : RegistrationNext(who)
  BY <1>1 DEF CoreCall, RegistrationNext, RegisterAccount, RegisterAccounts, RegisterAll
<1>2. ASSUME NEW a \in Accounts, NEW who \in Owners, ConfigNext(a, who)
      PROVE  nonce' = nonce /\ now' = now
  BY <1>2 DEF ConfigNext, UpdateHook, UpdateVerifier, UpdateModule, ConfirmHookUpdate,
              ConfirmVerifierUpdate, ConfirmUpdate, CancelHookUpdate, CancelVerifierUpdate,
              CancelUpdate, SetMetadataUri, CallVerifier, CallHook, CallModule
<1>3. ASSUME NEW a \in Accounts, NEW who \in Owners, EscapeNext(a, who) \/ OwnerEscrowNext(a, who)
      PROVE  nonce' = nonce /\ now' = now
  BY <1>3 DEF EscapeNext, InitiateEscape, FinalizeEscape, OwnerEscrowNext,
              InitiateMarketEscrowCancel, ForceCancelMarketEscrow
<1>4. ASSUME NEW a \in Accounts, NEW m \in Markets, MarketNext(a, m)
      PROVE  nonce' = nonce /\ now' = now
  BY <1>4 DEF MarketNext, EnterMarketEscrow, CancelMarketEscrow, SettleMarketEscrow
<1> QED
  BY <1>1, <1>2, <1>3, <1>4 DEF CoreCall

(***************************************************************************)
(* Types.                                                                  *)
(***************************************************************************)
LEMMA PhasesType ==
  ASSUME NEW hook, NEW verifier
  PROVE  /\ PhasesOf(hook, verifier) \in Seq(Phases) \ {<<>>}
         /\ hook # Zero => /\ Head(PhasesOf(hook, verifier)) = "preExecute"
                           /\ Len(PhasesOf(hook, verifier)) > 1
                           /\ PhasesOf(hook, verifier)[2] = "target"
         /\ hook = Zero => Head(PhasesOf(hook, verifier)) = "target"
         /\ \A i \in 2..Len(PhasesOf(hook, verifier)) :
              PhasesOf(hook, verifier)[i] # "preExecute"
<1>1. CASE hook = Zero /\ verifier = Zero
  BY <1>1 DEF PhasesOf, Phases
<1>2. CASE hook = Zero /\ verifier # Zero
  BY <1>2 DEF PhasesOf, Phases
<1>3. CASE hook # Zero /\ verifier = Zero
  BY <1>3 DEF PhasesOf, Phases
<1>4. CASE hook # Zero /\ verifier # Zero
  BY <1>4 DEF PhasesOf, Phases
<1> QED
  BY <1>1, <1>2, <1>3, <1>4

(***************************************************************************)
(* The core's state as a frame has saved it: AbstractAccount seen with     *)
(* those values instead of the current ones, at any time.                  *)
(***************************************************************************)
At(s) == INSTANCE AbstractAccount WITH
  now <- 1, module <- s.module, backupOwner <- s.backupOwner,
  escapeTriggeredAt <- s.escapeTriggeredAt, escapeLastInitiated <- s.escapeLastInitiated,
  pendingUpdate <- s.pendingUpdate, pendingCall <- s.pendingCall, escrow <- s.escrow,
  metadataUri <- s.metadataUri, nonce <- s.nonce, pluginConfig <- s.pluginConfig

SafeAt(s) ==
  /\ At(s)!TypeOK
  /\ At(s)!NoOrphanConfig /\ At(s)!PendingNeedsModule /\ At(s)!EscapeStamped
  /\ At(s)!NoStaleEscrowMarker /\ At(s)!BlankUntilRegistered

\* What depends on constants only is the same in every storage.
LEMMA SameConstants ==
  ASSUME NEW s
  PROVE  /\ At(s)!Slots = Slots /\ At(s)!Times = Times /\ At(s)!Plugins = Plugins
         /\ At(s)!NoUpdate = NoUpdate /\ At(s)!NoCall = NoCall /\ At(s)!NoEscrow = NoEscrow
         /\ At(s)!PendingConfigUpdate = PendingConfigUpdate
         /\ At(s)!PendingModuleCall = PendingModuleCall
         /\ At(s)!MarketEscrow = MarketEscrow
         /\ \A t : At(s)!PluginsOf(t) = PluginsOf(t)
BY DEF At!Slots, Slots, At!Times, Times, At!Plugins, Plugins, At!NoUpdate, NoUpdate,
       At!NoCall, NoCall, At!NoEscrow, NoEscrow, At!PendingConfigUpdate, PendingConfigUpdate,
       At!PendingModuleCall, PendingModuleCall, At!MarketEscrow, MarketEscrow,
       At!PluginsOf, PluginsOf

\* The storage a frame would save is as safe as the state.
LEMMA SafeNow == TypeOK /\ Inv => SafeAt(CurrentStorage)
<1> SUFFICES ASSUME TypeOK, Inv PROVE SafeAt(CurrentStorage)
  OBVIOUS
<1> DEFINE s == CurrentStorage
<1> USE SameConstants DEF CurrentStorage
<1>0. 1 \in Times \ {0}
  BY BoundAssumption DEF Times
<1>1. At(s)!TypeOK
  BY <1>0 DEF TypeOK, At!TypeOK
<1>2. At(s)!NoOrphanConfig /\ At(s)!PendingNeedsModule /\ At(s)!EscapeStamped
  BY DEF Inv, NoOrphanConfig, PendingNeedsModule, EscapeStamped,
         At!NoOrphanConfig, At!PendingNeedsModule, At!EscapeStamped
<1>3. At(s)!NoStaleEscrowMarker
  BY DEF Inv, NoStaleEscrowMarker, IsMarketEscrowActive,
         At!NoStaleEscrowMarker, At!IsMarketEscrowActive
<1>4. At(s)!BlankUntilRegistered
  BY DEF Inv, BlankUntilRegistered, CleanShell, Exists,
         At!BlankUntilRegistered, At!CleanShell, At!Exists
<1> QED
  BY <1>1, <1>2, <1>3, <1>4 DEF SafeAt

\* The storage goes back to s.
Restored(s) ==
  /\ module' = s.module /\ backupOwner' = s.backupOwner
  /\ escapeTriggeredAt' = s.escapeTriggeredAt /\ escapeLastInitiated' = s.escapeLastInitiated
  /\ pendingUpdate' = s.pendingUpdate /\ pendingCall' = s.pendingCall
  /\ escrow' = s.escrow /\ metadataUri' = s.metadataUri
  /\ nonce' = s.nonce /\ pluginConfig' = s.pluginConfig

\* A throw that goes back to a safe storage leaves a safe state.
LEMMA RestoredIsSafe ==
  ASSUME TypeOK, NEW s, SafeAt(s), Restored(s), now' = now
  PROVE  TypeOK' /\ Inv'
<1> USE SameConstants DEF SafeAt, Restored
<1>1. TypeOK'
  BY DEF TypeOK, At!TypeOK
<1>2. NoOrphanConfig' /\ PendingNeedsModule' /\ EscapeStamped'
  BY DEF NoOrphanConfig, PendingNeedsModule, EscapeStamped,
         At!NoOrphanConfig, At!PendingNeedsModule, At!EscapeStamped
<1>3. NoStaleEscrowMarker'
  BY DEF NoStaleEscrowMarker, IsMarketEscrowActive,
         At!NoStaleEscrowMarker, At!IsMarketEscrowActive
<1>4. BlankUntilRegistered'
  BY DEF BlankUntilRegistered, CleanShell, Exists,
         At!BlankUntilRegistered, At!CleanShell, At!Exists
<1> QED
  BY <1>1, <1>2, <1>3, <1>4 DEF Inv

(***************************************************************************)
(* Types and the core's invariants hold inside operations as well, however *)
(* deep, and after a throw: what every frame would go back to is safe too. *)
(***************************************************************************)
ExecutionInv ==
  /\ ExecutionTypeOK
  /\ Inv
  /\ \A i \in 1..Len(calls) : SafeAt(calls[i].saved)

\* What is saved is a storage.
LEMMA StorageNow == ExecutionTypeOK => CurrentStorage \in Storage
BY DEF ExecutionTypeOK, TypeOK, CurrentStorage, Storage

\* The frame a new operation pushes.
NewFrame(a, op, t) ==
  [account |-> a, op |-> op, target |-> t,
   hook |-> module["hook"][a], verifier |-> module["verifier"][a],
   todo |-> PhasesOf(module["hook"][a], module["verifier"][a]), saved |-> CurrentStorage]

\* An operation that begins suspends as a frame.
LEMMA NewFrameType ==
  ASSUME ExecutionTypeOK, NEW a \in Accounts, NEW op \in UserOps, NEW t \in Targets
  PROVE  NewFrame(a, op, t) \in Frame
<1>1. /\ module["hook"][a] \in Hooks \cup {Zero}
      /\ module["verifier"][a] \in Verifiers \cup {Zero}
  BY DEF ExecutionTypeOK, TypeOK, Slots, PluginsOf
<1>2. PhasesOf(module["hook"][a], module["verifier"][a]) \in Seq(Phases) \ {<<>>}
  BY PhasesType
<1> QED
  BY <1>1, <1>2, StorageNow DEF NewFrame, Frame

\* Types and safety depend on the storage only.
LEMMA UnchangedSafe == TypeOK /\ Inv /\ UNCHANGED vars => TypeOK' /\ Inv'
BY TypeStep, InvStep

\* The invariant is inductive.
LEMMA ExecutionInvStep ==
  ExecutionInv /\ [ExecutionNext]_<<vars, executionVars>> => ExecutionInv'
<1> SUFFICES ASSUME ExecutionInv, [ExecutionNext]_<<vars, executionVars>> PROVE ExecutionInv'
  OBVIOUS
<1> USE DEF ExecutionInv
<1>1. TypeOK
  BY DEF ExecutionTypeOK
<1>2. CASE CoreCall
  <2>1. TypeOK' /\ Inv' /\ UNCHANGED executionVars /\ now' = now
    BY <1>1, <1>2, CoreStep, CoreCallFrame, TypeStep, InvStep
  <2> QED
    BY <2>1 DEF executionVars, contexts, ExecutionTypeOK
<1>3. ASSUME NEW a \in Accounts, NEW who \in Owners \cup {Zero}, NEW op \in UserOps,
             NEW t \in Targets, BeginUserOp(a, who, op, t)
      PROVE  ExecutionInv'
  <2>1. TypeOK' /\ Inv' /\ now' = now
    <3>1. Next
      BY <1>3, CoreStep DEF UserOpCall
    <3> QED
      BY <1>1, <1>3, <3>1, TypeStep, InvStep DEF BeginUserOp, ExecuteUserOp
  <2>2. calls' = <<NewFrame(a, op, t)>> \o calls
    BY <1>3 DEF BeginUserOp, NewFrame
  <2>3. NewFrame(a, op, t) \in Frame
    BY NewFrameType
  <2>4. calls' \in Seq(Frame)
    BY <2>2, <2>3 DEF ExecutionTypeOK
  <2>5. /\ lock' \in SUBSET Accounts
        /\ verifyContext' \in [Accounts -> Targets \cup {Zero}]
        /\ hookContext' \in [Accounts -> Hooks \cup {Zero}]
        /\ verifierContext' \in [Accounts -> Verifiers \cup {Zero}]
        /\ scopeTarget' \in [Accounts -> Targets \cup {Zero}]
    BY <1>3, <2>3 DEF BeginUserOp, NewFrame, Frame, SetVerifyContext, ExecutionTypeOK
  <2>6. ASSUME NEW i \in 1..Len(calls') PROVE SafeAt(calls[i].saved)'
    <3>1. CASE i = 1
      <4>1. calls'[i].saved = CurrentStorage
        BY <2>2, <3>1 DEF NewFrame, ExecutionTypeOK
      <4> QED
        BY <1>1, <4>1, SafeNow
    <3>2. CASE i # 1
      <4>1. i - 1 \in 1..Len(calls) /\ calls'[i] = calls[i - 1]
        BY <2>2, <3>2 DEF ExecutionTypeOK
      <4> QED
        BY <2>1, <4>1
    <3> QED
      BY <3>1, <3>2
  <2> QED
    BY <2>1, <2>4, <2>5, <2>6 DEF ExecutionTypeOK
<1>4. CASE NextPhase
  <2>1. TypeOK' /\ Inv' /\ now' = now
    BY <1>1, <1>4, UnchangedSafe DEF NextPhase, vars
  <2>2. calls # <<>> /\ Head(calls) = calls[1]
    BY <1>4 DEF NextPhase, ExecutionTypeOK
  <2>3. 1 \in 1..Len(calls) /\ calls[1] \in Frame
    BY <2>2 DEF ExecutionTypeOK
  <2> DEFINE frame == [calls[1] EXCEPT !.todo = Tail(calls[1].todo)]
  <2>4. frame.todo # <<>> /\ calls' = <<frame>> \o Tail(calls)
    BY <1>4, <2>2 DEF NextPhase
  <2>5. frame \in Frame /\ frame.saved = calls[1].saved /\ frame.target = calls[1].target
    <3>1. Tail(calls[1].todo) \in Seq(Phases)
      BY <2>3 DEF Frame
    <3> QED
      BY <2>3, <2>4, <3>1 DEF Frame
  <2> HIDE DEF frame
  <2>6. /\ calls' \in Seq(Frame) /\ Len(calls') = Len(calls)
        /\ \A i \in 1..Len(calls') : calls'[i].saved = calls[i].saved
    <3>1. /\ Tail(calls) \in Seq(Frame) /\ Len(Tail(calls)) = Len(calls) - 1
          /\ \A i \in 2..Len(calls) : Tail(calls)[i - 1] = calls[i]
      BY <2>2 DEF ExecutionTypeOK
    <3>2. /\ calls' \in Seq(Frame) /\ Len(calls') = Len(calls)
          /\ calls'[1] = frame /\ \A i \in 2..Len(calls) : calls'[i] = Tail(calls)[i - 1]
      BY <2>3, <2>4, <2>5, <3>1
    <3> QED
      BY <2>5, <3>1, <3>2
  <2>7. \A i \in 1..Len(calls') : SafeAt(calls[i].saved)'
    BY <2>1, <2>6
  <2>8. verifyContext' \in [Accounts -> Targets \cup {Zero}]
    BY <1>4, <2>2, <2>3 DEF NextPhase, SetVerifyContext, ExecutionTypeOK, Frame
  <2> QED
    BY <1>4, <2>1, <2>6, <2>7, <2>8 DEF NextPhase, ExecutionTypeOK
<1>5. CASE EndUserOp
  <2>1. TypeOK' /\ Inv' /\ calls # <<>> /\ calls' = Tail(calls)
    BY <1>1, <1>5, UnchangedSafe DEF EndUserOp
  <2>2. calls' \in Seq(Frame) /\ Len(calls') = Len(calls) - 1
    BY <2>1 DEF ExecutionTypeOK
  <2>3. ASSUME NEW i \in 1..Len(calls') PROVE SafeAt(calls[i].saved)'
    <3>1. i + 1 \in 1..Len(calls) /\ calls'[i] = calls[i + 1]
      BY <2>1, <2>2 DEF ExecutionTypeOK
    <3> QED
      BY <3>1
  <2>4. /\ lock' \in SUBSET Accounts
        /\ verifyContext' \in [Accounts -> Targets \cup {Zero}]
        /\ hookContext' \in [Accounts -> Hooks \cup {Zero}]
        /\ verifierContext' \in [Accounts -> Verifiers \cup {Zero}]
        /\ scopeTarget' \in [Accounts -> Targets \cup {Zero}]
    BY <1>5 DEF EndUserOp, ClearContexts, ExecutionTypeOK
  <2> QED
    BY <2>1, <2>2, <2>3, <2>4 DEF ExecutionTypeOK
<1>6. CASE ThrowUserOp
  <2> DEFINE s == calls[1].saved
  <2>1. calls # <<>> /\ Head(calls) = calls[1] /\ calls' = Tail(calls) /\ now' = now
    BY <1>6 DEF ThrowUserOp, ExecutionTypeOK
  <2>2. 1 \in 1..Len(calls) /\ calls[1] \in Frame
    BY <2>1 DEF ExecutionTypeOK
  <2>3. calls' \in Seq(Frame) /\ Len(calls') = Len(calls) - 1
    BY <2>1 DEF ExecutionTypeOK
  <2>4. Restored(s)
    BY <1>6, <2>1 DEF ThrowUserOp, Restored
  <2>5. TypeOK' /\ Inv'
    BY <1>1, <2>1, <2>2, <2>4, RestoredIsSafe
  <2>6. ASSUME NEW i \in 1..Len(calls') PROVE SafeAt(calls[i].saved)'
    <3>1. i + 1 \in 1..Len(calls) /\ calls'[i] = calls[i + 1]
      BY <2>1, <2>3 DEF ExecutionTypeOK
    <3> QED
      BY <3>1
  <2>7. /\ lock' \in SUBSET Accounts
        /\ verifyContext' \in [Accounts -> Targets \cup {Zero}]
        /\ hookContext' \in [Accounts -> Hooks \cup {Zero}]
        /\ verifierContext' \in [Accounts -> Verifiers \cup {Zero}]
        /\ scopeTarget' \in [Accounts -> Targets \cup {Zero}]
    BY <1>6, <2>1, <2>2 DEF ThrowUserOp, Frame, Storage
  <2> QED
    BY <2>3, <2>5, <2>6, <2>7 DEF ExecutionTypeOK
<1>7. CASE NewBlock
  <2>1. TypeOK' /\ Inv' /\ UNCHANGED executionVars
    BY <1>1, <1>7, CoreStep, TypeStep, InvStep DEF NewBlock
  <2> QED
    BY <2>1 DEF executionVars, contexts, ExecutionTypeOK
<1>8. CASE AdminCall
  <2>1. TypeOK' /\ Inv' /\ UNCHANGED <<lock, contexts, calls>> /\ now' = now
    BY <1>1, <1>8, UnchangedSafe DEF AdminCall, SetVerifyScopeTargets, vars
  <2>2. scopeTarget' \in [Accounts -> Targets \cup {Zero}]
    BY <1>8 DEF AdminCall, SetVerifyScopeTargets, ExecutionTypeOK
  <2> QED
    BY <2>1, <2>2 DEF contexts, ExecutionTypeOK
<1>9. CASE UNCHANGED <<vars, executionVars>>
  <2>1. TypeOK' /\ Inv' /\ UNCHANGED executionVars
    BY <1>1, <1>9, UnchangedSafe
  <2> QED
    BY <2>1 DEF executionVars, contexts, ExecutionTypeOK
<1> QED
  BY <1>2, <1>3, <1>4, <1>5, <1>6, <1>7, <1>8, <1>9 DEF ExecutionNext, UserOpCall

\* At first no operation is running.
LEMMA ExecutionInvInit == ExecutionInit => ExecutionInv
BY TypeInit, InvInit DEF ExecutionInit, ExecutionInv, ExecutionTypeOK, NoContext

\* Every variable keeps its type, also what a suspended frame would go back to.
THEOREM ExecutionTypeCorrect == ExecutionSpec => []ExecutionTypeOK
<1>1. ExecutionInv => ExecutionTypeOK
  BY DEF ExecutionInv
<1> QED
  BY <1>1, ExecutionInvInit, ExecutionInvStep, PTL DEF ExecutionSpec

\* The core's safety invariants hold at every point inside an operation, however deep the calls
\* are nested, and after a throw.
THEOREM SafeInside == ExecutionSpec => []Inv
<1>1. ExecutionInv => Inv
  BY DEF ExecutionInv
<1> QED
  BY <1>1, ExecutionInvInit, ExecutionInvStep, PTL DEF ExecutionSpec

(***************************************************************************)
(* The lock, the contexts and the nonces of storage s are those of the     *)
(* frames of stack cs from position k on.  The current storage matches the *)
(* whole stack; what a frame would go back to matches the frames below it. *)
(***************************************************************************)
LentTo(f) == IF Head(f.todo) = "preExecute" THEN Zero ELSE f.target

Matches(s, cs, k) ==
  /\ \A a \in Accounts :
       a \in s.lock <=> \E i \in k..Len(cs) : cs[i].account = a
  /\ \A a \in Accounts \ s.lock :
       s.verifyContext[a] = Zero /\ s.hookContext[a] = Zero /\ s.verifierContext[a] = Zero
  /\ \A i \in k..Len(cs) :
       /\ s.verifyContext[cs[i].account] = LentTo(cs[i])
       /\ s.hookContext[cs[i].account] = cs[i].hook
       /\ s.verifierContext[cs[i].account] = cs[i].verifier
       /\ s.nonce[cs[i].account][cs[i].op.channel] = cs[i].op.sequence + 1

\* No two operations of an account are on the stack.
Distinct(cs) == \A i, j \in 1..Len(cs) : cs[i].account = cs[j].account => i = j

\* "preExecute" comes first or not at all, and the target comes next.
WellPhased(todo) ==
  /\ \A i \in 2..Len(todo) : todo[i] # "preExecute"
  /\ Head(todo) = "preExecute" => Len(todo) > 1 /\ todo[2] = "target"

StackInv ==
  /\ Matches(CurrentStorage, calls, 1)
  /\ \A i \in 1..Len(calls) : Matches(calls[i].saved, calls, i + 1)
  /\ Distinct(calls)
  /\ \A i \in 1..Len(calls) : WellPhased(calls[i].todo)

\* What the current storage says of each operation on the stack.
LEMMA FrameStands ==
  ASSUME StackInv, NEW i \in 1..Len(calls)
  PROVE  /\ verifyContext[calls[i].account] = LentTo(calls[i])
         /\ hookContext[calls[i].account] = calls[i].hook
         /\ verifierContext[calls[i].account] = calls[i].verifier
         /\ nonce[calls[i].account][calls[i].op.channel] = calls[i].op.sequence + 1
BY DEF StackInv, Matches, CurrentStorage

\* Only the frames from k on matter, wherever they stand.
LEMMA MatchesShifted ==
  ASSUME NEW s, NEW cs, NEW ds, NEW k \in Nat, NEW l \in Nat,
         Len(cs) \in Nat, Len(ds) \in Nat, Len(ds) - l = Len(cs) - k,
         \A i \in k..Len(cs) : ds[i - k + l] = cs[i],
         Matches(s, cs, k)
  PROVE  Matches(s, ds, l)
<1>1. ASSUME NEW j \in l..Len(ds) PROVE \E i \in k..Len(cs) : ds[j] = cs[i]
  <2>1. j - l + k \in k..Len(cs) /\ (j - l + k) - k + l = j
    OBVIOUS
  <2> QED
    BY <2>1
<1>2. ASSUME NEW i \in k..Len(cs) PROVE \E j \in l..Len(ds) : ds[j] = cs[i]
  <2>1. i - k + l \in l..Len(ds)
    OBVIOUS
  <2> QED
    BY <2>1
<1>3. ASSUME NEW a \in Accounts
      PROVE  a \in s.lock <=> \E j \in l..Len(ds) : ds[j].account = a
  <2>1. a \in s.lock <=> \E i \in k..Len(cs) : cs[i].account = a
    BY DEF Matches
  <2>2. ASSUME NEW i \in k..Len(cs), cs[i].account = a
        PROVE  \E j \in l..Len(ds) : ds[j].account = a
    <3>1. PICK j \in l..Len(ds) : ds[j] = cs[i]
      BY <1>2
    <3> QED
      BY <2>2, <3>1
  <2>3. ASSUME NEW j \in l..Len(ds), ds[j].account = a
        PROVE  \E i \in k..Len(cs) : cs[i].account = a
    <3>1. PICK i \in k..Len(cs) : ds[j] = cs[i]
      BY <1>1
    <3> QED
      BY <2>3, <3>1
  <2> QED
    BY <2>1, <2>2, <2>3
<1>4. ASSUME NEW j \in l..Len(ds)
      PROVE  /\ s.verifyContext[ds[j].account] = LentTo(ds[j])
             /\ s.hookContext[ds[j].account] = ds[j].hook
             /\ s.verifierContext[ds[j].account] = ds[j].verifier
             /\ s.nonce[ds[j].account][ds[j].op.channel] = ds[j].op.sequence + 1
  <2>1. PICK i \in k..Len(cs) : ds[j] = cs[i]
    BY <1>1
  <2> QED
    BY <2>1 DEF Matches
<1> QED
  BY <1>3, <1>4 DEF Matches

\* Storages that agree on the fields concerned match the same stacks.
LEMMA MatchesAlike ==
  ASSUME NEW s, NEW r, NEW cs, NEW k, Matches(s, cs, k),
         r.lock = s.lock, r.verifyContext = s.verifyContext, r.hookContext = s.hookContext,
         r.verifierContext = s.verifierContext, r.nonce = s.nonce
  PROVE  Matches(r, cs, k)
BY DEF Matches

\* The stack with a new frame on top.
LEMMA PushFrame ==
  ASSUME NEW cs \in Seq(Frame), NEW f \in Frame
  PROVE  LET ds == <<f>> \o cs IN
         /\ ds \in Seq(Frame) /\ Len(ds) = Len(cs) + 1 /\ ds[1] = f
         /\ \A i \in 1..Len(cs) : ds[i + 1] = cs[i]
OBVIOUS

\* The stack without its top.
LEMMA PopFrame ==
  ASSUME NEW cs \in Seq(Frame), cs # <<>>
  PROVE  /\ Len(cs) \in Nat \ {0} /\ cs[1] \in Frame /\ Head(cs) = cs[1]
         /\ Tail(cs) \in Seq(Frame) /\ Len(Tail(cs)) = Len(cs) - 1
         /\ \A i \in 2..Len(cs) : Tail(cs)[i - 1] = cs[i]
<1>1. Len(cs) \in Nat \ {0} /\ 1 \in 1..Len(cs)
  OBVIOUS
<1> QED
  BY <1>1

\* A storage that matches a stack matches it under a new frame, one further down.
LEMMA MatchesPushed ==
  ASSUME NEW cs \in Seq(Frame), NEW f \in Frame, NEW s, NEW k \in Nat \ {0}, Matches(s, cs, k)
  PROVE  Matches(s, <<f>> \o cs, k + 1)
<1> DEFINE ds == <<f>> \o cs
           l == k + 1
<1>1. Len(cs) \in Nat /\ Len(ds) \in Nat /\ Len(ds) - l = Len(cs) - k /\ l \in Nat
  BY PushFrame
<1>2. ASSUME NEW i \in k..Len(cs) PROVE ds[i - k + l] = cs[i]
  <2>1. i \in 1..Len(cs) /\ i - k + l = i + 1
    OBVIOUS
  <2> QED
    BY <2>1, PushFrame
<1> HIDE DEF ds, l
<1>3. Matches(s, ds, l)
  BY <1>1, <1>2, MatchesShifted
<1> QED
  BY <1>3 DEF ds, l

\* A storage that matches what is below the top matches it when the top is gone.
LEMMA MatchesPopped ==
  ASSUME NEW cs \in Seq(Frame), cs # <<>>, NEW s, NEW k \in Nat \ {0}, Matches(s, cs, k + 1)
  PROVE  Matches(s, Tail(cs), k)
<1> DEFINE ds == Tail(cs)
           l == k + 1
<1>1. Len(cs) \in Nat /\ Len(ds) \in Nat /\ Len(ds) - k = Len(cs) - l /\ l \in Nat
  BY PopFrame
<1>2. ASSUME NEW i \in l..Len(cs) PROVE ds[i - l + k] = cs[i]
  <2>1. i \in 2..Len(cs) /\ i - l + k = i - 1
    OBVIOUS
  <2> QED
    BY <2>1, PopFrame
<1>3. Matches(s, cs, l)
  OBVIOUS
<1> HIDE DEF ds, l
<1>4. Matches(s, ds, k)
  BY <1>1, <1>2, <1>3, MatchesShifted
<1> QED
  BY <1>4 DEF ds

\* What matches depends on the frames from the k-th on only.
LEMMA MatchesBelow ==
  ASSUME NEW cs, NEW ds, NEW s, NEW k \in Nat, Len(cs) \in Nat, Len(ds) = Len(cs),
         \A i \in k..Len(cs) : ds[i] = cs[i], Matches(s, cs, k)
  PROVE  Matches(s, ds, k)
<1>1. ASSUME NEW i \in k..Len(cs) PROVE ds[i - k + k] = cs[i]
  <2>1. i - k + k = i
    OBVIOUS
  <2> QED
    BY <2>1
<1> QED
  BY <1>1, MatchesShifted

\* Steps that touch neither nonces nor execution keep the invariant of the stack.
LEMMA SameStack ==
  StackInv /\ nonce' = nonce /\ UNCHANGED <<lock, contexts, calls>> => StackInv'
<1> SUFFICES ASSUME StackInv, nonce' = nonce, UNCHANGED <<lock, contexts, calls>> PROVE StackInv'
  OBVIOUS
<1>1. calls' = calls /\ UNCHANGED <<lock, contexts>>
  OBVIOUS
<1>2. Matches(CurrentStorage', calls, 1)
  BY <1>1, MatchesAlike DEF StackInv, CurrentStorage, contexts
<1> QED
  BY <1>1, <1>2 DEF StackInv

\* A new operation: the frame on top, everybody else's as it was.
LEMMA StackBegin ==
  ASSUME ExecutionTypeOK, StackInv, NEW a \in Accounts, NEW who, NEW op \in UserOps,
         NEW t \in Targets, BeginUserOp(a, who, op, t)
  PROVE  StackInv'
<1> DEFINE f == NewFrame(a, op, t)
<1>1. f \in Frame
  BY NewFrameType
<1>2. /\ f.account = a /\ f.op = op /\ f.target = t /\ f.saved = CurrentStorage
      /\ f.hook = module["hook"][a] /\ f.verifier = module["verifier"][a]
      /\ f.todo = PhasesOf(f.hook, f.verifier)
  BY DEF NewFrame
<1>3. calls' = <<f>> \o calls /\ a \notin lock
  BY DEF BeginUserOp, NewFrame, AssertNotExecuting, IsExecutionActive
<1>4. /\ lock' = lock \cup {a}
      /\ hookContext' = [hookContext EXCEPT ![a] = f.hook]
      /\ verifierContext' = [verifierContext EXCEPT ![a] = f.verifier]
      /\ verifyContext' = IF Head(f.todo) = "target"
                          THEN [verifyContext EXCEPT ![a] = t] ELSE verifyContext
  BY DEF BeginUserOp, NewFrame, SetVerifyContext
<1>5. nonce[a][op.channel] = op.sequence /\ nonce' = [nonce EXCEPT ![a][op.channel] = @ + 1]
  BY DEF BeginUserOp, ExecuteUserOp, IsNonceAcceptable
<1> HIDE DEF f
<1>6. /\ Len(calls) \in Nat /\ Len(calls') = Len(calls) + 1 /\ calls'[1] = f
      /\ \A i \in 1..Len(calls) : calls'[i + 1] = calls[i] /\ calls[i] \in Frame
  BY <1>1, <1>3, PushFrame DEF ExecutionTypeOK
<1>7. ASSUME NEW i \in 2..Len(calls')
      PROVE  i - 1 \in 1..Len(calls) /\ calls'[i] = calls[i - 1]
  <2>1. i - 1 \in 1..Len(calls) /\ (i - 1) + 1 = i
    BY <1>6
  <2> QED
    BY <1>6, <2>1
<1>8. \A i \in 1..Len(calls) : calls[i].account # a
  BY <1>3, <1>6 DEF StackInv, Matches, CurrentStorage
<1>9. Matches(CurrentStorage, calls, 1)'
  <2>1. ASSUME NEW b \in Accounts
        PROVE  b \in lock' <=> \E i \in 1..Len(calls') : calls'[i].account = b
    <3>1. b \in lock <=> \E i \in 1..Len(calls) : calls[i].account = b
      BY DEF StackInv, Matches, CurrentStorage
    <3>2. b \in lock' => \E i \in 1..Len(calls') : calls'[i].account = b
      <4>1. CASE b = a
        BY <1>2, <1>6, <4>1
      <4>2. CASE b # a /\ b \in lock
        <5>1. PICK i \in 1..Len(calls) : calls[i].account = b
          BY <3>1, <4>2
        <5>2. i + 1 \in 1..Len(calls') /\ calls'[i + 1] = calls[i]
          BY <1>6
        <5> QED
          BY <5>1, <5>2
      <4> QED
        BY <1>4, <4>1, <4>2
    <3>3. ASSUME NEW i \in 1..Len(calls'), calls'[i].account = b
          PROVE  b \in lock'
      <4>1. CASE i = 1
        BY <1>2, <1>4, <1>6, <3>3, <4>1
      <4>2. CASE i # 1
        <5>1. i - 1 \in 1..Len(calls) /\ calls'[i] = calls[i - 1]
          BY <1>6, <1>7, <4>2
        <5> QED
          BY <1>4, <3>1, <3>3, <5>1
      <4> QED
        BY <4>1, <4>2
    <3> QED
      BY <3>2, <3>3
  <2>2. ASSUME NEW b \in Accounts \ lock'
        PROVE  verifyContext'[b] = Zero /\ hookContext'[b] = Zero /\ verifierContext'[b] = Zero
    BY <1>4 DEF StackInv, Matches, CurrentStorage, ExecutionTypeOK
  <2>3. ASSUME NEW i \in 1..Len(calls')
        PROVE  /\ verifyContext'[calls'[i].account] = LentTo(calls'[i])
               /\ hookContext'[calls'[i].account] = calls'[i].hook
               /\ verifierContext'[calls'[i].account] = calls'[i].verifier
               /\ nonce'[calls'[i].account][calls'[i].op.channel] = calls'[i].op.sequence + 1
    <3>1. CASE i = 1
      <4>1. verifyContext[a] = Zero
        BY <1>3 DEF StackInv, Matches, CurrentStorage
      <4>2. verifyContext'[a] = LentTo(f)
        <5>1. Head(f.todo) \in {"preExecute", "target"}
          BY <1>2, PhasesType
        <5> QED
          BY <1>2, <1>4, <4>1, <5>1 DEF LentTo, ExecutionTypeOK
      <4>3. hookContext'[a] = f.hook /\ verifierContext'[a] = f.verifier
        BY <1>4 DEF ExecutionTypeOK
      <4>4. nonce'[a][op.channel] = op.sequence + 1
        BY SMTT(30), <1>5 DEF ExecutionTypeOK, TypeOK, UserOps
      <4> QED
        BY <1>2, <1>6, <3>1, <4>2, <4>3, <4>4
    <3>2. CASE i # 1
      <4>1. i - 1 \in 1..Len(calls) /\ calls'[i] = calls[i - 1]
        BY <1>6, <1>7, <3>2
      <4> DEFINE b == calls[i - 1].account
      <4>2. b # a /\ b \in Accounts
        BY <1>6, <1>8, <4>1 DEF Frame
      <4>3. /\ verifyContext'[b] = verifyContext[b] /\ hookContext'[b] = hookContext[b]
            /\ verifierContext'[b] = verifierContext[b] /\ nonce'[b] = nonce[b]
        BY <1>4, <1>5, <4>2 DEF ExecutionTypeOK, TypeOK
      <4> QED
        BY <4>1, <4>3, FrameStands
    <3> QED
      BY <3>1, <3>2
  <2> QED
    BY <2>1, <2>2, <2>3 DEF Matches, CurrentStorage
<1>10. ASSUME NEW i \in 1..Len(calls') PROVE Matches(calls[i].saved, calls, i + 1)'
  <2>1. CASE i = 1
    BY <1>1, <1>2, <1>3, <1>6, <2>1, MatchesPushed DEF StackInv, ExecutionTypeOK
  <2>2. CASE i # 1
    <3>1. i - 1 \in 1..Len(calls) /\ calls'[i] = calls[i - 1]
      BY <1>6, <1>7, <2>2
    <3>2. Matches(calls[i - 1].saved, calls, i)
      BY <3>1 DEF StackInv
    <3>3. Matches(calls[i - 1].saved, calls', i + 1)
      BY <1>1, <1>3, <3>2, MatchesPushed DEF ExecutionTypeOK
    <3> QED
      BY <3>1, <3>3
  <2> QED
    BY <2>1, <2>2
<1>11. Distinct(calls)'
  <2> SUFFICES ASSUME NEW i \in 1..Len(calls'), NEW j \in 1..Len(calls'),
                      calls'[i].account = calls'[j].account, i # j
               PROVE  FALSE
    BY DEF Distinct
  <2>1. i # 1 => i - 1 \in 1..Len(calls) /\ calls'[i] = calls[i - 1]
    BY <1>6, <1>7
  <2>2. j # 1 => j - 1 \in 1..Len(calls) /\ calls'[j] = calls[j - 1]
    BY <1>6, <1>7
  <2>3. CASE i # 1 /\ j # 1
    <3>1. i - 1 = j - 1
      BY <2>1, <2>2, <2>3 DEF StackInv, Distinct
    <3> QED
      BY <1>6, <3>1
  <2>4. CASE i = 1 \/ j = 1
    BY <1>2, <1>6, <1>8, <2>1, <2>2, <2>4
  <2> QED
    BY <2>3, <2>4
<1>12. \A i \in 1..Len(calls') : WellPhased(calls'[i].todo)
  <2>1. WellPhased(f.todo)
    BY <1>2, PhasesType DEF WellPhased
  <2> QED
    BY <1>6, <1>7, <2>1 DEF StackInv
<1> QED
  BY <1>9, <1>10, <1>11, <1>12 DEF StackInv

\* The next foreign call: only the top frame's phase and its target's authority move.
LEMMA StackNextPhase ==
  ASSUME ExecutionTypeOK, StackInv, NextPhase
  PROVE  StackInv'
<1>1. calls # <<>>
  BY DEF NextPhase
<1> DEFINE f == calls[1]
           g == [f EXCEPT !.todo = Tail(f.todo)]
<1>2. /\ Len(calls) \in Nat \ {0} /\ f \in Frame /\ Head(calls) = f
      /\ Tail(calls) \in Seq(Frame) /\ Len(Tail(calls)) = Len(calls) - 1
      /\ \A i \in 2..Len(calls) : Tail(calls)[i - 1] = calls[i]
  BY <1>1, PopFrame DEF ExecutionTypeOK
<1>3. /\ g.todo # <<>> /\ calls' = <<g>> \o Tail(calls) /\ SetVerifyContext(g)
      /\ UNCHANGED <<nonce, lock, hookContext, verifierContext>>
  BY <1>2 DEF NextPhase, vars
<1>4. /\ g.account = f.account /\ g.op = f.op /\ g.target = f.target /\ g.hook = f.hook
      /\ g.verifier = f.verifier /\ g.saved = f.saved /\ g.todo = Tail(f.todo)
  BY <1>2 DEF Frame
<1>5. f.todo \in Seq(Phases) \ {<<>>} /\ f.account \in Accounts /\ f.target \in Targets
  BY <1>2 DEF Frame
<1>6. g \in Frame
  <2>1. Tail(f.todo) \in Seq(Phases) \ {<<>>}
    BY <1>3, <1>4, <1>5
  <2> QED
    BY <1>2, <2>1 DEF Frame
<1> HIDE DEF f, g
<1>7. /\ Len(calls') = Len(calls) /\ calls'[1] = g
      /\ \A i \in 2..Len(calls) : calls'[i] = calls[i]
  BY <1>2, <1>3, <1>6, PushFrame
<1>8. WellPhased(g.todo) /\ Head(g.todo) # "preExecute"
  <2>1. WellPhased(f.todo)
    BY <1>2 DEF StackInv, f
  <2>2. Len(f.todo) \in Nat /\ g.todo \in Seq(Phases) /\ Len(g.todo) = Len(f.todo) - 1
    BY <1>4, <1>5
  <2>3. Len(g.todo) > 0 /\ Head(g.todo) = g.todo[1]
    BY <1>3, <2>2
  <2>4. ASSUME NEW i \in 1..Len(g.todo) PROVE g.todo[i] # "preExecute"
    <3>1. i + 1 \in 2..Len(f.todo) /\ g.todo[i] = f.todo[i + 1]
      BY <1>4, <1>5, <2>2
    <3> QED
      BY <2>1, <3>1 DEF WellPhased
  <2> QED
    BY <2>2, <2>3, <2>4 DEF WellPhased
<1>9. /\ \A i \in 1..Len(calls) : calls'[i].account = calls[i].account
      /\ \A i \in 1..Len(calls) : calls'[i].saved = calls[i].saved
      /\ \A i \in 1..Len(calls) : calls'[i].hook = calls[i].hook
      /\ \A i \in 1..Len(calls) : calls'[i].verifier = calls[i].verifier
      /\ \A i \in 1..Len(calls) : calls'[i].op = calls[i].op
  <2> SUFFICES ASSUME NEW i \in 1..Len(calls)
               PROVE  /\ calls'[i].account = calls[i].account /\ calls'[i].saved = calls[i].saved
                      /\ calls'[i].hook = calls[i].hook /\ calls'[i].verifier = calls[i].verifier
                      /\ calls'[i].op = calls[i].op
    OBVIOUS
  <2>1. CASE i = 1
    BY <1>4, <1>7, <2>1 DEF f
  <2>2. CASE i # 1
    BY <1>2, <1>7, <2>2
  <2> QED
    BY <2>1, <2>2
<1>10. verifyContext'[f.account] = f.target
  <2>1. verifyContext[f.account] = LentTo(f)
    BY <1>2 DEF StackInv, Matches, CurrentStorage, f
  <2>2. CASE Head(f.todo) = "preExecute"
    <3>1. WellPhased(f.todo)
      BY <1>2 DEF StackInv, f
    <3>2. Len(f.todo) > 1 /\ f.todo[2] = "target"
      BY <2>2, <3>1 DEF WellPhased
    <3>3. Head(g.todo) = "target"
      BY <1>4, <1>5, <3>2
    <3> QED
      BY <1>3, <1>4, <1>5, <3>3 DEF SetVerifyContext, ExecutionTypeOK
  <2>3. CASE Head(f.todo) # "preExecute"
    BY <1>3, <1>4, <1>5, <2>1, <2>3 DEF SetVerifyContext, LentTo, ExecutionTypeOK
  <2> QED
    BY <2>2, <2>3
<1>11. Matches(CurrentStorage, calls, 1)'
  <2>1. ASSUME NEW b \in Accounts
        PROVE  b \in lock' <=> \E i \in 1..Len(calls') : calls'[i].account = b
    BY SMTT(30), <1>3, <1>7, <1>9 DEF StackInv, Matches, CurrentStorage
  <2>2. ASSUME NEW b \in Accounts \ lock'
        PROVE  verifyContext'[b] = Zero /\ hookContext'[b] = Zero /\ verifierContext'[b] = Zero
    <3>1. f.account \in lock
      BY <1>2, <1>5 DEF StackInv, Matches, CurrentStorage, f
    <3> QED
      BY <1>3, <1>4, <3>1 DEF SetVerifyContext, StackInv, Matches, CurrentStorage, ExecutionTypeOK
  <2>3. ASSUME NEW i \in 1..Len(calls')
        PROVE  verifyContext'[calls'[i].account] = LentTo(calls'[i])
    <3>1. CASE i = 1
      BY <1>4, <1>7, <1>8, <1>10, <3>1 DEF LentTo
    <3>2. CASE i # 1
      <4>1. i \in 2..Len(calls) /\ calls'[i] = calls[i]
        BY <1>2, <1>7, <3>2
      <4>2. calls[i].account # f.account
        BY <1>2, <4>1 DEF StackInv, Distinct, f
      <4>3. verifyContext'[calls[i].account] = verifyContext[calls[i].account]
        BY SMTT(30), <1>3, <1>4, <4>2 DEF SetVerifyContext, ExecutionTypeOK
      <4> QED
        BY <4>1, <4>3 DEF StackInv, Matches, CurrentStorage
    <3> QED
      BY <3>1, <3>2
  <2>4. ASSUME NEW i \in 1..Len(calls')
        PROVE  /\ hookContext'[calls'[i].account] = calls'[i].hook
               /\ verifierContext'[calls'[i].account] = calls'[i].verifier
               /\ nonce'[calls'[i].account][calls'[i].op.channel] = calls'[i].op.sequence + 1
    <3>1. i \in 1..Len(calls) /\ UNCHANGED <<nonce, hookContext, verifierContext>>
      BY <1>3, <1>7
    <3>2. /\ calls'[i].account = calls[i].account /\ calls'[i].op = calls[i].op
          /\ calls'[i].hook = calls[i].hook /\ calls'[i].verifier = calls[i].verifier
      BY <1>9, <3>1
    <3> QED
      BY <3>1, <3>2, FrameStands
  <2> QED
    BY <2>1, <2>2, <2>3, <2>4 DEF Matches, CurrentStorage
<1>12. ASSUME NEW i \in 1..Len(calls') PROVE Matches(calls[i].saved, calls, i + 1)'
  <2>1. Matches(calls[i].saved, calls, i + 1)
    BY <1>7 DEF StackInv
  <2>2. \A j \in (i + 1)..Len(calls) : calls'[j] = calls[j]
    BY <1>7
  <2>3. Matches(calls[i].saved, calls', i + 1)
    BY <1>2, <1>7, <2>1, <2>2, MatchesBelow
  <2> QED
    BY <1>7, <1>9, <2>3
<1>13. Distinct(calls)'
  BY <1>7, <1>9 DEF StackInv, Distinct
<1>14. \A i \in 1..Len(calls') : WellPhased(calls'[i].todo)
  BY <1>2, <1>7, <1>8 DEF StackInv
<1> QED
  BY <1>11, <1>12, <1>13, <1>14 DEF StackInv

\* Taking the top frame away leaves the frames below in order.
StackBelow ==
  /\ \A i \in 1..Len(calls') : Matches(calls'[i].saved, calls', i + 1)
  /\ Distinct(calls')
  /\ \A i \in 1..Len(calls') : WellPhased(calls'[i].todo)

\* When the top frame goes, the saved storages match what is left.
LEMMA PoppedBelow ==
  ASSUME calls \in Seq(Frame), calls # <<>>, StackInv, calls' = Tail(calls)
  PROVE  StackBelow
<1>1. /\ Len(calls) \in Nat \ {0} /\ Len(calls') = Len(calls) - 1
      /\ \A i \in 2..Len(calls) : calls'[i - 1] = calls[i]
  BY PopFrame
<1>2. ASSUME NEW i \in 1..Len(calls')
      PROVE  i \in Nat \ {0} /\ i + 1 \in 1..Len(calls) /\ calls'[i] = calls[i + 1]
  <2>1. i + 1 \in 2..Len(calls) /\ (i + 1) - 1 = i
    BY <1>1
  <2> QED
    BY <1>1, <2>1
<1>3. ASSUME NEW i \in 1..Len(calls') PROVE Matches(calls'[i].saved, calls', i + 1)
  <2>1. Matches(calls[i + 1].saved, calls, (i + 1) + 1)
    BY <1>2 DEF StackInv
  <2>2. i + 1 \in Nat \ {0}
    BY <1>2
  <2> QED
    BY <1>2, <2>1, <2>2, MatchesPopped
<1>4. Distinct(calls')
  <2> SUFFICES ASSUME NEW i \in 1..Len(calls'), NEW j \in 1..Len(calls'),
                      calls'[i].account = calls'[j].account
               PROVE  i = j
    BY DEF Distinct
  <2>1. i + 1 = j + 1
    BY <1>2 DEF StackInv, Distinct
  <2> QED
    BY <1>1, <2>1
<1>5. \A i \in 1..Len(calls') : WellPhased(calls'[i].todo)
  BY <1>2 DEF StackInv
<1> QED
  BY <1>3, <1>4, <1>5 DEF StackBelow

\* The return of an operation takes its own lock and contexts away, and no one else's.
LEMMA StackEnd ==
  ASSUME ExecutionTypeOK, StackInv, EndUserOp
  PROVE  StackInv'
<1> DEFINE f == calls[1]
<1>1. calls # <<>> /\ calls \in Seq(Frame)
  BY DEF EndUserOp, ExecutionTypeOK
<1>2. /\ Len(calls) \in Nat \ {0} /\ f \in Frame /\ Head(calls) = f
      /\ Tail(calls) \in Seq(Frame) /\ Len(Tail(calls)) = Len(calls) - 1
      /\ \A i \in 2..Len(calls) : Tail(calls)[i - 1] = calls[i]
  BY <1>1, PopFrame
<1>3. calls' = Tail(calls) /\ ClearContexts(f) /\ lock' = lock \ {f.account} /\ nonce' = nonce
  BY <1>2 DEF EndUserOp, vars
<1>4. /\ hookContext[f.account] = f.hook /\ verifierContext[f.account] = f.verifier
      /\ f.account \in Accounts
  BY <1>2 DEF StackInv, Matches, CurrentStorage, Frame
<1>5. /\ verifyContext'[f.account] = Zero /\ hookContext'[f.account] = Zero
      /\ verifierContext'[f.account] = Zero
  BY <1>3, <1>4 DEF ClearContexts, ExecutionTypeOK
<1>6. ASSUME NEW b \in Accounts, b # f.account
      PROVE  /\ verifyContext'[b] = verifyContext[b] /\ hookContext'[b] = hookContext[b]
             /\ verifierContext'[b] = verifierContext[b]
  BY <1>3, <1>6 DEF ClearContexts, ExecutionTypeOK
<1> HIDE DEF f
<1>7. ASSUME NEW i \in 1..Len(calls')
      PROVE  i + 1 \in 2..Len(calls) /\ calls'[i] = calls[i + 1] /\ calls[i + 1] \in Frame
  <2>1. i + 1 \in 2..Len(calls) /\ (i + 1) - 1 = i
    BY <1>2, <1>3
  <2> QED
    BY <1>1, <1>2, <1>3, <2>1
<1>8. ASSUME NEW i \in 2..Len(calls)
      PROVE  i - 1 \in 1..Len(calls') /\ calls'[i - 1] = calls[i]
  BY <1>2, <1>3
<1>9. ASSUME NEW i \in 2..Len(calls) PROVE calls[i].account # f.account
  BY <1>2 DEF StackInv, Distinct, f
<1>10. Matches(CurrentStorage, calls, 1)'
  <2>1. ASSUME NEW b \in Accounts
        PROVE  b \in lock' <=> \E i \in 1..Len(calls') : calls'[i].account = b
    <3>1. b \in lock <=> \E i \in 1..Len(calls) : calls[i].account = b
      BY DEF StackInv, Matches, CurrentStorage
    <3>2. ASSUME b \in lock' PROVE \E i \in 1..Len(calls') : calls'[i].account = b
      <4>1. PICK i \in 1..Len(calls) : calls[i].account = b
        BY <1>3, <3>1, <3>2
      <4>2. i \in 2..Len(calls)
        BY <1>2, <1>3, <3>2, <4>1 DEF f
      <4> QED
        BY <1>8, <4>1, <4>2
    <3>3. ASSUME NEW i \in 1..Len(calls'), calls'[i].account = b PROVE b \in lock'
      <4>1. b # f.account /\ calls[i + 1].account = b /\ i + 1 \in 1..Len(calls)
        BY <1>7, <1>9, <3>3
      <4> QED
        BY <1>3, <3>1, <4>1
    <3> QED
      BY <3>2, <3>3
  <2>2. ASSUME NEW b \in Accounts \ lock'
        PROVE  verifyContext'[b] = Zero /\ hookContext'[b] = Zero /\ verifierContext'[b] = Zero
    BY <1>3, <1>5, <1>6 DEF StackInv, Matches, CurrentStorage
  <2>3. ASSUME NEW i \in 1..Len(calls')
        PROVE  /\ verifyContext'[calls'[i].account] = LentTo(calls'[i])
               /\ hookContext'[calls'[i].account] = calls'[i].hook
               /\ verifierContext'[calls'[i].account] = calls'[i].verifier
               /\ nonce'[calls'[i].account][calls'[i].op.channel] = calls'[i].op.sequence + 1
    <3> DEFINE g == calls[i + 1]
    <3>1. calls'[i] = g /\ g.account \in Accounts /\ g.account # f.account
      BY <1>7, <1>9 DEF Frame
    <3>2. /\ verifyContext[g.account] = LentTo(g) /\ hookContext[g.account] = g.hook
          /\ verifierContext[g.account] = g.verifier
          /\ nonce[g.account][g.op.channel] = g.op.sequence + 1
      BY <1>7 DEF StackInv, Matches, CurrentStorage
    <3> QED
      BY <1>3, <1>6, <3>1, <3>2
  <2> QED
    BY <2>1, <2>2, <2>3 DEF Matches, CurrentStorage
<1>11. StackBelow
  BY <1>1, <1>2, <1>3, PoppedBelow
<1> QED
  BY <1>10, <1>11 DEF StackInv, StackBelow

\* A throw: the storage goes back to what matched the frames below.
LEMMA StackThrow ==
  ASSUME ExecutionTypeOK, StackInv, ThrowUserOp
  PROVE  StackInv'
<1> DEFINE s == calls[1].saved
<1>1. calls # <<>> /\ calls \in Seq(Frame)
  BY DEF ThrowUserOp, ExecutionTypeOK
<1>2. Len(calls) \in Nat \ {0} /\ Head(calls) = calls[1]
  BY <1>1, PopFrame
<1>3. /\ calls' = Tail(calls) /\ lock' = s.lock /\ verifyContext' = s.verifyContext
      /\ hookContext' = s.hookContext /\ verifierContext' = s.verifierContext /\ nonce' = s.nonce
  BY <1>2 DEF ThrowUserOp
<1>4. Matches(s, Tail(calls), 1)
  <2>1. Matches(s, calls, 1 + 1)
    BY <1>2 DEF StackInv
  <2> QED
    BY <1>1, <2>1, MatchesPopped
<1> HIDE DEF s
<1>5. Matches(CurrentStorage', calls', 1)
  BY <1>3, <1>4, MatchesAlike DEF CurrentStorage
<1>6. StackBelow
  BY <1>1, <1>3, PoppedBelow
<1> QED
  BY <1>5, <1>6 DEF StackInv, StackBelow

\* The invariant of the stack is inductive.
LEMMA StackInvStep ==
  ExecutionTypeOK /\ StackInv /\ [ExecutionNext]_<<vars, executionVars>> => StackInv'
<1> SUFFICES ASSUME ExecutionTypeOK, StackInv, [ExecutionNext]_<<vars, executionVars>>
             PROVE  StackInv'
  OBVIOUS
<1>1. CASE CoreCall
  BY <1>1, CoreCallFrame, SameStack DEF executionVars
<1>2. CASE UserOpCall
  BY <1>2, StackBegin DEF UserOpCall
<1>3. CASE NextPhase
  BY <1>3, StackNextPhase
<1>4. CASE EndUserOp
  BY <1>4, StackEnd
<1>5. CASE ThrowUserOp
  BY <1>5, StackThrow
<1>6. CASE NewBlock
  BY <1>6, SameStack DEF NewBlock, Tick, executionVars
<1>7. CASE AdminCall
  BY <1>7, SameStack DEF AdminCall, SetVerifyScopeTargets, vars
<1>8. CASE UNCHANGED <<vars, executionVars>>
  BY <1>8, SameStack DEF vars, executionVars
<1> QED
  BY <1>1, <1>2, <1>3, <1>4, <1>5, <1>6, <1>7, <1>8 DEF ExecutionNext

\* At first the stack is empty, and no account is locked.
LEMMA StackInvInit == ExecutionInit => StackInv
<1> SUFFICES ASSUME ExecutionInit PROVE StackInv
  OBVIOUS
<1>1. calls = <<>> /\ Len(calls) = 0 /\ 1..Len(calls) = {}
  BY DEF ExecutionInit
<1> QED
  BY <1>1 DEF ExecutionInit, StackInv, Matches, CurrentStorage, Distinct, NoContext

\* Locks, contexts and nonces match the stack of operations in every reachable state.
THEOREM StackCorrect == ExecutionSpec => [](ExecutionTypeOK /\ StackInv)
<1>1. ExecutionInv => ExecutionTypeOK
  BY DEF ExecutionInv
<1> QED
  BY <1>1, ExecutionInvInit, ExecutionInvStep, StackInvInit, StackInvStep, PTL DEF ExecutionSpec

\* The locks held are those of the accounts on the call stack, each of which is there once.
THEOREM LockFollowsStack == ExecutionSpec => []LockIsCallStack
<1>1. ExecutionTypeOK /\ StackInv => LockIsCallStack
  <2> SUFFICES ASSUME ExecutionTypeOK, StackInv PROVE LockIsCallStack
    OBVIOUS
  <2>1. DOMAIN calls = 1..Len(calls) /\ \A i \in 1..Len(calls) : calls[i].account \in Accounts
    <3>1. DOMAIN calls = 1..Len(calls) /\ \A i \in 1..Len(calls) : calls[i] \in Frame
      BY DEF ExecutionTypeOK
    <3> QED
      BY <3>1 DEF Frame
  <2>2. \A a \in Accounts : a \in lock <=> \E i \in 1..Len(calls) : calls[i].account = a
    BY DEF StackInv, Matches, CurrentStorage
  <2>3. lock \subseteq Accounts
    BY DEF ExecutionTypeOK
  <2>4. lock = {g.account : g \in Frames}
    BY <2>1, <2>2, <2>3 DEF Frames
  <2> QED
    BY <2>1, <2>4 DEF LockIsCallStack, StackInv, Distinct
<1> QED
  BY <1>1, StackCorrect, PTL

\* An operation's nonce is spent from its start to its end, whatever is undone inside it.
THEOREM NoncesStaySpent == ExecutionSpec => []NonceStaysSpent
<1>1. ExecutionTypeOK /\ StackInv => NonceStaysSpent
  BY DEF ExecutionTypeOK, StackInv, Matches, CurrentStorage, NonceStaysSpent, Frames
<1> QED
  BY <1>1, StackCorrect, PTL

\* Whoever asks and whatever contract it names, the answer is that of the account's running operation:
\* its target, its hook and its verifier, and any contract that names the hook or the verifier as its
\* caller.  A signer's scope counts only where no target is called.
THEOREM AuthorityIsLent == ExecutionSpec => []AuthorityFollowsOperation
<1>1. ExecutionTypeOK /\ StackInv => AuthorityFollowsOperation
  <2> SUFFICES ASSUME ExecutionTypeOK, StackInv, NEW a \in Accounts,
                      NEW caller \in Contracts, NEW scoped \in SUBSET Targets, NEW by \in Contracts
               PROVE  LET own == {f \in Frames : f.account = a}
                          answered == {f \in own : Head(f.todo) # "preExecute"}
                          root == IF by = Core THEN caller ELSE by
                      IN
                 /\ Verify("Application", a, caller, scoped) <=>
                      IF answered = {} THEN scopeTarget[a] \in scoped
                      ELSE \E f \in answered : f.target = caller
                 /\ Verify("Verification", a, caller, scoped) <=> scopeTarget[a] \in scoped
                 /\ CanExecuteHook(a, by, caller) <=> \E f \in own : f.hook = root
                 /\ CanExecuteVerifier(a, by, caller) <=> \E f \in own : f.verifier = root
    BY DEF AuthorityFollowsOperation
  <2> DEFINE own == {f \in Frames : f.account = a}
             answered == {f \in own : Head(f.todo) # "preExecute"}
             root == IF by = Core THEN caller ELSE by
  <2>1. DOMAIN calls = 1..Len(calls) /\ \A i \in 1..Len(calls) : calls[i] \in Frame
    BY DEF ExecutionTypeOK
  <2>2. root # Zero /\ Zero \notin scoped
    BY ZeroAssumption, TargetAssumption DEF Contracts, Plugins
  <2>3. VerifyScopedTransactionSigner(a, scoped) <=> scopeTarget[a] \in scoped
    BY <2>2 DEF VerifyScopedTransactionSigner
  <2>4. Verify("Verification", a, caller, scoped) <=> scopeTarget[a] \in scoped
    BY <2>3 DEF Verify
  <2>5. /\ CanExecuteHook(a, by, caller) <=> hookContext[a] = root
        /\ CanExecuteVerifier(a, by, caller) <=> verifierContext[a] = root
    BY <2>2 DEF CanExecuteHook, CanExecuteVerifier
  <2> HIDE DEF root
  <2>6. CASE a \notin lock
    <3>1. own = {}
      BY <2>1, <2>6 DEF Frames, StackInv, Matches, CurrentStorage
    <3>2. verifyContext[a] = Zero /\ hookContext[a] = Zero /\ verifierContext[a] = Zero
      BY <2>6 DEF StackInv, Matches, CurrentStorage
    <3> QED
      BY <2>2, <2>3, <2>4, <2>5, <3>1, <3>2 DEF Verify, root
  <2>7. CASE a \in lock
    <3>1. PICK i \in 1..Len(calls) : calls[i].account = a
      BY <2>7 DEF StackInv, Matches, CurrentStorage
    <3> DEFINE f == calls[i]
    <3>2. own = {f}
      BY <2>1, <3>1 DEF Frames, StackInv, Distinct
    <3>3. /\ verifyContext[a] = LentTo(f) /\ hookContext[a] = f.hook
          /\ verifierContext[a] = f.verifier
      BY <3>1 DEF StackInv, Matches, CurrentStorage
    <3>4. f.target # Zero
      BY <2>1, TargetAssumption DEF Frame
    <3> HIDE DEF f
    <3>5. Verify("Application", a, caller, scoped) <=>
            IF answered = {} THEN scopeTarget[a] \in scoped
            ELSE \E g \in answered : g.target = caller
      <4>1. CASE Head(f.todo) = "preExecute"
        <5>1. answered = {}
          BY <3>2, <4>1
        <5> QED
          BY <2>3, <3>3, <4>1, <5>1 DEF Verify, LentTo
      <4>2. CASE Head(f.todo) # "preExecute"
        <5>1. answered = {f}
          BY <3>2, <4>2
        <5> QED
          BY <3>3, <3>4, <4>2, <5>1 DEF Verify, LentTo
      <4> QED
        BY <4>1, <4>2
    <3>6. /\ CanExecuteHook(a, by, caller) <=> \E g \in own : g.hook = root
          /\ CanExecuteVerifier(a, by, caller) <=> \E g \in own : g.verifier = root
      BY <2>5, <3>2, <3>3
    <3> QED
      BY <2>4, <3>5, <3>6 DEF root
  <2> QED
    BY <2>6, <2>7
<1> QED
  BY <1>1, StackCorrect, PTL
=============================================================================

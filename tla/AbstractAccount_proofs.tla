----------------------- MODULE AbstractAccount_proofs -----------------------
(***************************************************************************)
(* Proofs about AbstractAccount for every set of accounts, owners, plugins *)
(* and markets, every timelock and every bound.                            *)
(***************************************************************************)
EXTENDS AbstractAccount, TLAPS

(***************************************************************************)
(* The helpers that compute what the plugins keep.                         *)
(***************************************************************************)
LEMMA KeyedType ==
  ASSUME NEW cfg \in SUBSET Plugins, NEW p \in Plugins \cup {Zero}, NEW params \in BOOLEAN
  PROVE  Keyed(cfg, p, params) \in SUBSET Plugins /\ Keyed(cfg, p, params) \subseteq cfg \cup {p}
BY DEF Keyed

\* clearAccount takes the configuration out of a plugin, if it works at all.
LEMMA ClearedType ==
  ASSUME NEW cfg \in SUBSET Plugins, NEW p
  PROVE  /\ Cleared(cfg, p) \in SUBSET Plugins
         /\ Cleared(cfg, p) \subseteq cfg
         /\ p \in Cleared(cfg, p) => p \in NoClear
BY DEF Cleared

(***************************************************************************)
(* Every step is one of the core's operations.  The proofs below go        *)
(* through this list, with the twin entry points of the two slots as one.  *)
(***************************************************************************)
LEMMA StepCases ==
  ASSUME [Next]_vars
  PROVE  \/ Tick
         \/ \E who \in Owners, ids \in SUBSET Accounts : RegisterAll(ids, who)
         \/ \E s \in Slots, a \in Accounts, who \in Owners :
              \/ \E new \in PluginsOf(s) \cup {Zero}, params \in BOOLEAN :
                   UpdateModule(s, a, who, new, params)
              \/ ConfirmUpdate(s, a, who)
              \/ CancelUpdate(s, a, who)
              \/ \E c \in ModuleCalls : CallModule(s, a, who, c)
         \/ \E a \in Accounts, who \in Owners :
              \/ \E b \in BOOLEAN : SetMetadataUri(a, who, b)
              \/ InitiateEscape(a, who)
              \/ \E v \in Verifiers \cup {Zero}, params \in BOOLEAN :
                   FinalizeEscape(a, who, v, params)
              \/ InitiateMarketEscrowCancel(a, who)
              \/ ForceCancelMarketEscrow(a, who)
         \/ \E a \in Accounts, who \in Owners \cup {Zero}, op \in UserOps :
              ExecuteUserOp(a, who, op)
         \/ \E a \in Accounts, m \in Markets, l \in 1..MaxListing, o \in Owners :
              EnterMarketEscrow(a, o, m, l) \/ SettleMarketEscrow(a, m, l, o)
         \/ \E a \in Accounts, m \in Markets, l \in 1..MaxListing : CancelMarketEscrow(a, m, l)
         \/ UNCHANGED vars
<1>1. "hook" \in Slots /\ "verifier" \in Slots
  BY DEF Slots
<1>2. PluginsOf("hook") = Hooks /\ PluginsOf("verifier") = Verifiers
  BY DEF PluginsOf
<1>3. ASSUME NEW who \in Owners, RegistrationNext(who)
      PROVE  \E ids \in SUBSET Accounts : RegisterAll(ids, who)
  BY <1>3 DEF RegistrationNext, RegisterAccount, RegisterAccounts
<1>4. ASSUME NEW a \in Accounts, NEW who \in Owners, ConfigNext(a, who)
      PROVE  \/ \E s \in Slots :
                  \/ \E new \in PluginsOf(s) \cup {Zero}, params \in BOOLEAN :
                       UpdateModule(s, a, who, new, params)
                  \/ ConfirmUpdate(s, a, who)
                  \/ CancelUpdate(s, a, who)
                  \/ \E c \in ModuleCalls : CallModule(s, a, who, c)
             \/ \E b \in BOOLEAN : SetMetadataUri(a, who, b)
  <2>1. CASE \E h \in Hooks \cup {Zero} : UpdateHook(a, who, h)
    BY <1>1, <1>2, <2>1 DEF UpdateHook
  <2>2. CASE \E v \in Verifiers \cup {Zero}, p \in BOOLEAN : UpdateVerifier(a, who, v, p)
    BY <1>1, <1>2, <2>2 DEF UpdateVerifier
  <2>3. CASE ConfirmHookUpdate(a, who) \/ ConfirmVerifierUpdate(a, who)
    BY <1>1, <2>3 DEF ConfirmHookUpdate, ConfirmVerifierUpdate
  <2>4. CASE CancelHookUpdate(a, who) \/ CancelVerifierUpdate(a, who)
    BY <1>1, <2>4 DEF CancelHookUpdate, CancelVerifierUpdate
  <2>5. CASE \E c \in ModuleCalls : CallHook(a, who, c) \/ CallVerifier(a, who, c)
    BY <1>1, <2>5 DEF CallHook, CallVerifier
  <2> QED
    BY <1>4, <2>1, <2>2, <2>3, <2>4, <2>5 DEF ConfigNext
<1> QED
  BY <1>3, <1>4 DEF Next, EscapeNext, OwnerEscrowNext, MarketNext

(***************************************************************************)
(* Type correctness.                                                       *)
(***************************************************************************)
LEMMA TypeInit == Init => TypeOK
BY ZeroAssumption, BoundAssumption
   DEF Init, TypeOK, Times, Slots, PendingConfigUpdate, PendingModuleCall, MarketEscrow,
       NoUpdate, NoCall, NoEscrow

\* Every entry point of the core keeps the types.
LEMMA TypeStep == TypeOK /\ [Next]_vars => TypeOK'
<1> SUFFICES ASSUME TypeOK, [Next]_vars PROVE TypeOK'
  OBVIOUS
<1> USE ZeroAssumption, PluginAssumption, PreimageAssumption, BoundAssumption
<1>1. CASE Tick
  BY <1>1 DEF Tick, TypeOK, Times, escapeVars, pendingVars, PendingConfigUpdate, PendingModuleCall, MarketEscrow
<1>2. ASSUME NEW who \in Owners, NEW ids \in SUBSET Accounts, RegisterAll(ids, who)
      PROVE  TypeOK'
  BY <1>2, KeyedType DEF RegisterAll, RegisteredModule, TypeOK, Slots, Times, escapeVars, pendingVars, Plugins, PluginsOf
<1>3. ASSUME NEW s \in Slots, NEW a \in Accounts, NEW who, NEW new \in PluginsOf(s) \cup {Zero},
             NEW params \in BOOLEAN, UpdateModule(s, a, who, new, params)
      PROVE  TypeOK'
  <2>1. new \in Plugins \cup {Zero} /\ pluginConfig[a] \in SUBSET Plugins
    BY DEF Plugins, PluginsOf, TypeOK
  <2>2. CASE InstallIntoEmptySlot(s, a, new, params)
    <3>1. Keyed(pluginConfig[a], new, params) \in SUBSET Plugins
      BY <2>1, KeyedType
    <3>2. pluginConfig' \in [Accounts -> SUBSET Plugins]
      BY <2>2, <3>1 DEF InstallIntoEmptySlot, TypeOK
    <3>3. /\ module' \in [Slots -> [Accounts -> Plugins \cup {Zero}]]
          /\ \A t \in Slots, b \in Accounts : module'[t][b] \in PluginsOf(t) \cup {Zero}
      BY <2>1, <2>2 DEF InstallIntoEmptySlot, TypeOK
    <3> QED
      BY <1>3, <2>2, <3>2, <3>3 DEF UpdateModule, InstallIntoEmptySlot, TypeOK, escapeVars
  <2>3. CASE StageUpdate(s, a, new, params)
    <3>1. [new |-> new, params |-> params, at |-> now] \in PendingConfigUpdate
      BY <2>1 DEF PendingConfigUpdate, TypeOK
    <3>2. /\ pendingUpdate' \in [Slots -> [Accounts -> PendingConfigUpdate]]
          /\ \A t \in Slots, b \in Accounts : pendingUpdate'[t][b].new \in PluginsOf(t) \cup {Zero}
      BY <2>3, <3>1 DEF StageUpdate, TypeOK
    <3> QED
      BY <1>3, <2>3, <3>2 DEF UpdateModule, StageUpdate, TypeOK, escapeVars
  <2> QED
    BY <1>3, <2>2, <2>3 DEF UpdateModule
<1>4. ASSUME NEW s \in Slots, NEW a \in Accounts, NEW who, ConfirmUpdate(s, a, who)
      PROVE  TypeOK'
  <2> DEFINE p == pendingUpdate[s][a]
  <2>1. p \in PendingConfigUpdate /\ p.new \in PluginsOf(s) \cup {Zero} /\ pluginConfig[a] \in SUBSET Plugins
    BY DEF TypeOK
  <2>2. Keyed(Cleared(pluginConfig[a], module[s][a]), p.new, p.params) \in SUBSET Plugins
    BY <2>1, KeyedType, ClearedType DEF PendingConfigUpdate
  <2>3. NoUpdate \in PendingConfigUpdate /\ NoUpdate.new = Zero
    BY DEF NoUpdate, PendingConfigUpdate, Times
  <2> QED
    BY <1>4, <2>1, <2>2, <2>3
       DEF ConfirmUpdate, TypeOK, escapeVars, Plugins, PluginsOf, PendingConfigUpdate
<1>5. ASSUME NEW s \in Slots, NEW a \in Accounts, NEW who, CancelUpdate(s, a, who)
      PROVE  TypeOK'
  <2>1. NoUpdate \in PendingConfigUpdate /\ NoUpdate.new = Zero
    BY DEF NoUpdate, PendingConfigUpdate, Times
  <2> QED
    BY <1>5, <2>1 DEF CancelUpdate, TypeOK, escapeVars, PluginsOf
<1>6. ASSUME NEW a \in Accounts, NEW who, NEW b \in BOOLEAN, SetMetadataUri(a, who, b)
      PROVE  TypeOK'
  BY <1>6 DEF SetMetadataUri, TypeOK, escapeVars, pendingVars
<1>7. ASSUME NEW s \in Slots, NEW a \in Accounts, NEW who, NEW c \in ModuleCalls,
             CallModule(s, a, who, c)
      PROVE  TypeOK'
  <2>1. Configured(pluginConfig[a], module[s][a], c) \in SUBSET Plugins
    BY <1>7 DEF CallModule, SlotFilled, Configured, TypeOK
  <2>2. NoCall \in PendingModuleCall
    BY DEF NoCall, PendingModuleCall, Times
  <2>3. [module |-> module[s][a], call |-> c, at |-> now] \in PendingModuleCall
    BY DEF TypeOK, PendingModuleCall
  <2>4. pendingCall' \in [Slots -> [Accounts -> PendingModuleCall]]
    <3>1. CASE StageModuleCall(s, a, c)
      BY <3>1, <2>3 DEF StageModuleCall, TypeOK
    <3>2. CASE RunModuleCall(s, a, c)
      BY <3>2, <2>2 DEF RunModuleCall, TypeOK
    <3> QED
      BY <1>7, <3>1, <3>2 DEF CallModule
  <2>5. pluginConfig' \in [Accounts -> SUBSET Plugins]
    BY <1>7, <2>1 DEF CallModule, StageModuleCall, RunModuleCall, TypeOK
  <2> QED
    BY <1>7, <2>4, <2>5 DEF CallModule, TypeOK, escapeVars
<1>8. ASSUME NEW a \in Accounts, NEW who, NEW op \in UserOps, ExecuteUserOp(a, who, op)
      PROVE  TypeOK'
  <2>1. op.channel \in Channels /\ nonce[a][op.channel] \in 0..MaxSeq
    BY DEF UserOps, TypeOK
  <2>2. nonce[a][op.channel] + 1 \in 0..MaxSeq
    BY <1>8, <2>1 DEF ExecuteUserOp, IsNonceAcceptable
  <2> QED
    BY <1>8, <2>1, <2>2 DEF ExecuteUserOp, CancelEscape, TypeOK, Times, pendingVars
<1>9. ASSUME NEW a \in Accounts, NEW who, InitiateEscape(a, who)
      PROVE  TypeOK'
  BY <1>9 DEF InitiateEscape, TypeOK, pendingVars
<1>10. ASSUME NEW a \in Accounts, WipePending(a)
       PROVE  /\ pendingUpdate' \in [Slots -> [Accounts -> PendingConfigUpdate]]
              /\ \A s \in Slots, b \in Accounts : pendingUpdate'[s][b].new \in PluginsOf(s) \cup {Zero}
              /\ pendingCall' \in [Slots -> [Accounts -> PendingModuleCall]]
              /\ metadataUri' \in [Accounts -> BOOLEAN]
  <2>1. NoUpdate \in PendingConfigUpdate /\ NoUpdate.new = Zero /\ NoCall \in PendingModuleCall
    BY DEF NoUpdate, PendingConfigUpdate, NoCall, PendingModuleCall, Times
  <2> QED
    BY <1>10, <2>1 DEF WipePending, TypeOK
<1>11. \A a \in Accounts : ClearPlugins(a) \in SUBSET Plugins
  BY ClearedType DEF ClearPlugins, TypeOK
<1>12. ASSUME NEW a \in Accounts, NEW who, NEW v \in Verifiers \cup {Zero}, NEW p \in BOOLEAN,
              FinalizeEscape(a, who, v, p)
       PROVE  TypeOK'
  <2>1. Keyed(ClearPlugins(a), v, p) \in SUBSET Plugins
    BY <1>11, KeyedType DEF Plugins
  <2>2. WipePending(a)
    BY <1>12 DEF FinalizeEscape
  <2>3. pluginConfig' \in [Accounts -> SUBSET Plugins]
    BY <1>12, <2>1 DEF FinalizeEscape, TypeOK
  <2>4. /\ module' \in [Slots -> [Accounts -> Plugins \cup {Zero}]]
        /\ \A s \in Slots, b \in Accounts : module'[s][b] \in PluginsOf(s) \cup {Zero}
    BY ZenonT(30), <1>12 DEF FinalizeEscape, TypeOK, Slots, Plugins, PluginsOf
  <2>5. /\ pendingUpdate' \in [Slots -> [Accounts -> PendingConfigUpdate]]
        /\ \A s \in Slots, b \in Accounts : pendingUpdate'[s][b].new \in PluginsOf(s) \cup {Zero}
        /\ pendingCall' \in [Slots -> [Accounts -> PendingModuleCall]]
        /\ metadataUri' \in [Accounts -> BOOLEAN]
    BY <1>10, <2>2
  <2>6. /\ escapeTriggeredAt' \in [Accounts -> Times]
        /\ escapeLastInitiated' \in [Accounts -> Times]
    BY <1>12 DEF FinalizeEscape, ResetEscape, TypeOK, Times
  <2> QED
    BY <1>12, <2>3, <2>4, <2>5, <2>6 DEF FinalizeEscape, TypeOK
<1>13. ASSUME NEW a \in Accounts, NEW who, NEW m \in Markets, NEW l \in 1..MaxListing,
              EnterMarketEscrow(a, who, m, l)
       PROVE  TypeOK'
  <2> DEFINE e == [escrow[a] EXCEPT !.market = m, !.listing = l]
  <2>0. escrow[a] \in MarketEscrow /\ l \in 0..MaxListing
    BY DEF TypeOK
  <2>1. e \in MarketEscrow
    BY <2>0 DEF MarketEscrow
  <2>2. escrow' = [escrow EXCEPT ![a] = e]
    BY <1>13 DEF EnterMarketEscrow
  <2>3. escrow' \in [Accounts -> MarketEscrow]
    BY <2>1, <2>2 DEF TypeOK
  <2> QED
    BY <1>13, <2>3 DEF EnterMarketEscrow, TypeOK, escapeVars, pendingVars
<1>14. NoEscrow \in MarketEscrow
  BY DEF NoEscrow, MarketEscrow, Times
<1>15. ASSUME NEW a \in Accounts, NEW m, NEW l, CancelMarketEscrow(a, m, l)
       PROVE  TypeOK'
  BY <1>14, <1>15 DEF CancelMarketEscrow, ClearMarketEscrow, TypeOK, escapeVars, pendingVars
<1>16. ASSUME NEW a \in Accounts, NEW m, NEW l, NEW o \in Owners, SettleMarketEscrow(a, m, l, o)
       PROVE  TypeOK'
  <2>1. WipePending(a)
    BY <1>16 DEF SettleMarketEscrow
  <2> QED
    BY <1>16, <1>10, <1>11, <1>14, <2>1
       DEF SettleMarketEscrow, ResetEscape, ClearMarketEscrow, TypeOK, Slots, Times
<1>17. ASSUME NEW a \in Accounts, NEW who, InitiateMarketEscrowCancel(a, who)
       PROVE  TypeOK'
  <2> DEFINE e == [escrow[a] EXCEPT !.cancelAt = now]
  <2>0. escrow[a] \in MarketEscrow /\ now \in Times
    BY DEF TypeOK
  <2>1. e \in MarketEscrow
    BY <2>0 DEF MarketEscrow
  <2>2. escrow' = [escrow EXCEPT ![a] = e]
    BY <1>17 DEF InitiateMarketEscrowCancel
  <2>3. escrow' \in [Accounts -> MarketEscrow]
    BY <2>1, <2>2 DEF TypeOK
  <2> QED
    BY <1>17, <2>3 DEF InitiateMarketEscrowCancel, TypeOK, escapeVars, pendingVars
<1>18. ASSUME NEW a \in Accounts, NEW who, ForceCancelMarketEscrow(a, who)
       PROVE  TypeOK'
  BY <1>14, <1>18 DEF ForceCancelMarketEscrow, ClearMarketEscrow, TypeOK, escapeVars, pendingVars
<1>19. CASE UNCHANGED vars
  BY <1>19 DEF vars, TypeOK
<1> QED
  BY <1>1, <1>2, <1>3, <1>4, <1>5, <1>6, <1>7, <1>8, <1>9, <1>12, <1>13, <1>15, <1>16, <1>17,
     <1>18, <1>19, StepCases

\* Every variable keeps its type in every reachable state.
THEOREM TypeCorrect == Spec => []TypeOK
BY TypeInit, TypeStep, PTL DEF Spec

(***************************************************************************)
(* The properties speak of one account at a time, and so do the            *)
(* operations: a step either leaves account b as it is or is an operation  *)
(* on b.                                                                   *)
(***************************************************************************)
SameAt(b) ==
  /\ \A s \in Slots : /\ module'[s][b] = module[s][b]
                      /\ pendingUpdate'[s][b] = pendingUpdate[s][b]
                      /\ pendingCall'[s][b] = pendingCall[s][b]
  /\ backupOwner'[b] = backupOwner[b]
  /\ escapeTriggeredAt'[b] = escapeTriggeredAt[b]
  /\ escapeLastInitiated'[b] = escapeLastInitiated[b]
  /\ escrow'[b] = escrow[b]
  /\ metadataUri'[b] = metadataUri[b]
  /\ nonce'[b] = nonce[b]
  /\ pluginConfig'[b] = pluginConfig[b]

OperationOn(b) ==
  \/ \E who \in Owners, ids \in SUBSET Accounts : b \in ids /\ RegisterAll(ids, who)
  \/ \E s \in Slots, who \in Owners :
       \/ \E new \in PluginsOf(s) \cup {Zero}, params \in BOOLEAN :
            UpdateModule(s, b, who, new, params)
       \/ ConfirmUpdate(s, b, who)
       \/ CancelUpdate(s, b, who)
       \/ \E c \in ModuleCalls : CallModule(s, b, who, c)
  \/ \E who \in Owners :
       \/ \E present \in BOOLEAN : SetMetadataUri(b, who, present)
       \/ InitiateEscape(b, who)
       \/ \E v \in Verifiers \cup {Zero}, params \in BOOLEAN : FinalizeEscape(b, who, v, params)
       \/ InitiateMarketEscrowCancel(b, who)
       \/ ForceCancelMarketEscrow(b, who)
  \/ \E who \in Owners \cup {Zero}, op \in UserOps : ExecuteUserOp(b, who, op)
  \/ \E m \in Markets, l \in 1..MaxListing, o \in Owners :
       EnterMarketEscrow(b, o, m, l) \/ SettleMarketEscrow(b, m, l, o)
  \/ \E m \in Markets, l \in 1..MaxListing : CancelMarketEscrow(b, m, l)

\* A step leaves an account as it was, or is one operation on it.
LEMMA StepFrame ==
  ASSUME TypeOK, [Next]_vars, NEW b \in Accounts
  PROVE  SameAt(b) \/ OperationOn(b)
<1> SUFFICES ASSUME ~OperationOn(b) PROVE SameAt(b)
  OBVIOUS
<1> USE DEF SameAt, TypeOK
<1>1. CASE Tick \/ UNCHANGED vars
  BY <1>1 DEF Tick, vars, escapeVars, pendingVars
<1>2. ASSUME NEW who \in Owners, NEW ids \in SUBSET Accounts, RegisterAll(ids, who)
      PROVE  SameAt(b)
  <2>1. b \notin ids
    BY <1>2 DEF OperationOn
  <2> QED
    BY <1>2, <2>1 DEF RegisterAll, pendingVars
<1>3. ASSUME NEW s \in Slots, NEW a \in Accounts, NEW who \in Owners,
             \/ \E new \in PluginsOf(s) \cup {Zero}, params \in BOOLEAN :
                  UpdateModule(s, a, who, new, params)
             \/ ConfirmUpdate(s, a, who)
             \/ CancelUpdate(s, a, who)
             \/ \E c \in ModuleCalls : CallModule(s, a, who, c)
      PROVE  SameAt(b)
  <2>1. a # b
    <3>1. OperationOn(a)
      <4>1. CASE \E new \in PluginsOf(s) \cup {Zero}, params \in BOOLEAN :
                   UpdateModule(s, a, who, new, params)
        BY ONLY <4>1, s \in Slots, who \in Owners DEF OperationOn
      <4>2. CASE ConfirmUpdate(s, a, who) \/ CancelUpdate(s, a, who)
        BY ONLY <4>2, s \in Slots, who \in Owners DEF OperationOn
      <4>3. CASE \E c \in ModuleCalls : CallModule(s, a, who, c)
        BY ONLY <4>3, s \in Slots, who \in Owners DEF OperationOn
      <4> QED
        BY <1>3, <4>1, <4>2, <4>3
    <3> QED
      BY <3>1
  <2> USE <2>1
  <2>2. ASSUME NEW new \in PluginsOf(s) \cup {Zero}, NEW params \in BOOLEAN,
               UpdateModule(s, a, who, new, params)
        PROVE  SameAt(b)
    <3>1. CASE InstallIntoEmptySlot(s, a, new, params)
      BY <2>2, <3>1 DEF UpdateModule, InstallIntoEmptySlot, escapeVars
    <3>2. CASE StageUpdate(s, a, new, params)
      BY <2>2, <3>2 DEF UpdateModule, StageUpdate, escapeVars
    <3> QED
      BY <2>2, <3>1, <3>2 DEF UpdateModule
  <2>3. CASE ConfirmUpdate(s, a, who)
    BY <2>3 DEF ConfirmUpdate, escapeVars
  <2>4. CASE CancelUpdate(s, a, who)
    BY <2>4 DEF CancelUpdate, escapeVars
  <2>5. ASSUME NEW c \in ModuleCalls, CallModule(s, a, who, c)
        PROVE  SameAt(b)
    <3>1. CASE StageModuleCall(s, a, c)
      BY <2>5, <3>1 DEF CallModule, StageModuleCall, escapeVars
    <3>2. CASE RunModuleCall(s, a, c)
      BY <2>5, <3>2 DEF CallModule, RunModuleCall, escapeVars
    <3> QED
      BY <2>5, <3>1, <3>2 DEF CallModule
  <2> QED
    BY <1>3, <2>2, <2>3, <2>4, <2>5
<1>4. ASSUME NEW a \in Accounts, NEW who \in Owners,
             \/ \E present \in BOOLEAN : SetMetadataUri(a, who, present)
             \/ InitiateEscape(a, who)
             \/ \E v \in Verifiers \cup {Zero}, params \in BOOLEAN :
                  FinalizeEscape(a, who, v, params)
             \/ InitiateMarketEscrowCancel(a, who)
             \/ ForceCancelMarketEscrow(a, who)
      PROVE  SameAt(b)
  <2>1. a # b
    BY <1>4 DEF OperationOn
  <2>2. CASE \E present \in BOOLEAN : SetMetadataUri(a, who, present)
    BY <2>1, <2>2 DEF SetMetadataUri, escapeVars, pendingVars
  <2>5. CASE InitiateEscape(a, who)
    BY <2>1, <2>5 DEF InitiateEscape, pendingVars
  <2>3. CASE \E v \in Verifiers \cup {Zero}, params \in BOOLEAN : FinalizeEscape(a, who, v, params)
    <3>1. \A s \in Slots : module'[s][b] = module[s][b]
      BY <2>1, <2>3 DEF FinalizeEscape, Slots
    <3>2. \A s \in Slots : pendingUpdate'[s][b] = pendingUpdate[s][b] /\ pendingCall'[s][b] = pendingCall[s][b]
      BY <2>1, <2>3 DEF FinalizeEscape, WipePending
    <3>3. metadataUri'[b] = metadataUri[b] /\ pluginConfig'[b] = pluginConfig[b]
      BY <2>1, <2>3 DEF FinalizeEscape, WipePending
    <3>4. /\ escapeTriggeredAt'[b] = escapeTriggeredAt[b]
          /\ escapeLastInitiated'[b] = escapeLastInitiated[b]
          /\ UNCHANGED <<backupOwner, escrow, nonce>>
      BY <2>1, <2>3 DEF FinalizeEscape, ResetEscape
    <3> QED
      BY <3>1, <3>2, <3>3, <3>4
  <2>4. CASE InitiateMarketEscrowCancel(a, who) \/ ForceCancelMarketEscrow(a, who)
    BY <2>1, <2>4 DEF InitiateMarketEscrowCancel, ForceCancelMarketEscrow, ClearMarketEscrow,
                      escapeVars, pendingVars
  <2> QED
    BY <1>4, <2>2, <2>3, <2>4, <2>5
<1>5. ASSUME NEW a \in Accounts, NEW who \in Owners \cup {Zero}, NEW op \in UserOps,
             ExecuteUserOp(a, who, op)
      PROVE  SameAt(b)
  <2>1. a # b
    BY <1>5 DEF OperationOn
  <2> QED
    BY <1>5, <2>1 DEF ExecuteUserOp, CancelEscape, pendingVars
<1>6. ASSUME NEW a \in Accounts, NEW m \in Markets, NEW l \in 1..MaxListing, NEW o \in Owners,
             EnterMarketEscrow(a, o, m, l) \/ SettleMarketEscrow(a, m, l, o)
      PROVE  SameAt(b)
  <2>1. a # b
    BY <1>6 DEF OperationOn
  <2>2. CASE EnterMarketEscrow(a, o, m, l)
    BY <2>1, <2>2 DEF EnterMarketEscrow, escapeVars, pendingVars
  <2>3. CASE SettleMarketEscrow(a, m, l, o)
    BY <2>1, <2>3 DEF SettleMarketEscrow, ResetEscape, WipePending, ClearMarketEscrow
  <2> QED
    BY <1>6, <2>2, <2>3
<1>7. ASSUME NEW a \in Accounts, NEW m \in Markets, NEW l \in 1..MaxListing,
             CancelMarketEscrow(a, m, l)
      PROVE  SameAt(b)
  <2>1. a # b
    BY <1>7 DEF OperationOn
  <2> QED
    BY <1>7, <2>1 DEF CancelMarketEscrow, ClearMarketEscrow, escapeVars, pendingVars
<1> QED
  BY StepCases, <1>1, <1>2, <1>3, <1>4, <1>5, <1>6, <1>7

\* Every operation is on an account that exists, or makes it exist, and none ends an account.
LEMMA OperationExists ==
  ASSUME TypeOK, BlankUntilRegistered, NEW b \in Accounts, OperationOn(b)
  PROVE  Exists(b)'
<1> USE ZeroAssumption DEF Exists, TypeOK
<1>1. CASE \E who \in Owners, ids \in SUBSET Accounts : b \in ids /\ RegisterAll(ids, who)
  BY <1>1 DEF RegisterAll
<1>2. ASSUME NEW s \in Slots, NEW who \in Owners,
             \/ \E new \in PluginsOf(s) \cup {Zero}, params \in BOOLEAN :
                  UpdateModule(s, b, who, new, params)
             \/ ConfirmUpdate(s, b, who)
             \/ CancelUpdate(s, b, who)
             \/ \E c \in ModuleCalls : CallModule(s, b, who, c)
      PROVE  Exists(b)'
  BY <1>2 DEF UpdateModule, ConfirmUpdate, CancelUpdate, CallModule, AssertBackupOwner
<1>3. ASSUME NEW who \in Owners,
             \/ \E present \in BOOLEAN : SetMetadataUri(b, who, present)
             \/ InitiateEscape(b, who)
             \/ \E v \in Verifiers \cup {Zero}, params \in BOOLEAN :
                  FinalizeEscape(b, who, v, params)
             \/ InitiateMarketEscrowCancel(b, who)
             \/ ForceCancelMarketEscrow(b, who)
      PROVE  Exists(b)'
  BY <1>3 DEF SetMetadataUri, InitiateEscape, FinalizeEscape, InitiateMarketEscrowCancel,
              ForceCancelMarketEscrow, AssertBackupOwner
<1>4. CASE \E who \in Owners \cup {Zero}, op \in UserOps : ExecuteUserOp(b, who, op)
  BY <1>4 DEF ExecuteUserOp
<1>5. CASE \E m \in Markets, l \in 1..MaxListing, o \in Owners :
             EnterMarketEscrow(b, o, m, l) \/ SettleMarketEscrow(b, m, l, o)
  BY <1>5 DEF EnterMarketEscrow, SettleMarketEscrow, AssertBackupOwner
<1>6. CASE \E m \in Markets, l \in 1..MaxListing : CancelMarketEscrow(b, m, l)
  <2>1. escrow[b].market # Zero /\ backupOwner' = backupOwner
    BY <1>6 DEF CancelMarketEscrow, AssertEscrowMarket
  <2>2. escrow[b] # NoEscrow
    BY <2>1 DEF NoEscrow
  <2> QED
    BY <2>1, <2>2 DEF BlankUntilRegistered, CleanShell
<1> QED
  BY <1>1, <1>2, <1>3, <1>4, <1>5, <1>6 DEF OperationOn

\* No entry point but registration writes under an id that is not registered.
LEMMA BlankStep == TypeOK /\ BlankUntilRegistered /\ [Next]_vars => BlankUntilRegistered'
<1> SUFFICES ASSUME TypeOK, BlankUntilRegistered, [Next]_vars, NEW b \in Accounts, ~Exists(b)'
             PROVE  /\ CleanShell(b)' /\ pluginConfig'[b] = {}
                    /\ \A c \in Channels : nonce'[b][c] = 0
  BY DEF BlankUntilRegistered
<1>1. SameAt(b)
  BY StepFrame, OperationExists
<1>2. CleanShell(b) /\ pluginConfig[b] = {} /\ \A c \in Channels : nonce[b][c] = 0
  BY <1>1 DEF SameAt, BlankUntilRegistered, Exists
<1> QED
  BY <1>1, <1>2 DEF SameAt, CleanShell

(***************************************************************************)
(* The safety invariants.  Together, and with the types, they are          *)
(* inductive: NoOrphanConfig needs BlankUntilRegistered when an account is *)
(* registered, and PendingNeedsModule needs it too.                        *)
(***************************************************************************)
Inv ==
  /\ NoOrphanConfig
  /\ PendingNeedsModule
  /\ EscapeStamped
  /\ NoStaleEscrowMarker
  /\ BlankUntilRegistered

\* Clearing both slots' plugins leaves only what a failed clearAccount leaves.
LEMMA OnlyUnclearableRemain ==
  ASSUME Inv, NEW a \in Accounts, NEW q \in ClearPlugins(a)
  PROVE  q \in NoClear
BY DEF Inv, NoOrphanConfig, ClearPlugins, Cleared

\* Nothing is registered, staged or in escrow at first.
LEMMA InvInit == Init => Inv
BY DEF Init, Inv, NoOrphanConfig, PendingNeedsModule, EscapeStamped, NoStaleEscrowMarker,
       BlankUntilRegistered, CleanShell, Exists

\* Every entry point keeps the safety invariants, each with the help of the others.
LEMMA InvStep == TypeOK /\ Inv /\ [Next]_vars => Inv'
<1> SUFFICES ASSUME TypeOK, Inv, [Next]_vars PROVE Inv'
  OBVIOUS
<1> USE ZeroAssumption
<1>0. BlankUntilRegistered'
  BY BlankStep DEF Inv
<1>1. CASE Tick
  BY <1>0, <1>1 DEF Tick, Inv, NoOrphanConfig, PendingNeedsModule, EscapeStamped, NoStaleEscrowMarker, IsMarketEscrowActive, escapeVars, pendingVars
<1>2. ASSUME NEW who \in Owners, NEW ids \in SUBSET Accounts, RegisterAll(ids, who)
      PROVE  Inv'
  <2>1. \A a \in ids : pluginConfig[a] = {} /\ \A s \in Slots : pendingUpdate[s][a] = NoUpdate
    BY <1>2 DEF RegisterAll, Inv, BlankUntilRegistered, CleanShell
  <2>2. NoOrphanConfig'
    <3> SUFFICES ASSUME NEW a \in Accounts, NEW q \in pluginConfig'[a]
                 PROVE  q \in NoClear \cup {module'["verifier"][a], module'["hook"][a]}
      BY DEF NoOrphanConfig
    <3>1. CASE a \in ids
      <4>1. pluginConfig'[a] = Keyed({}, Preimage[a].verifier, Preimage[a].params)
        BY <1>2, <2>1, <3>1 DEF RegisterAll
      <4>2. q = Preimage[a].verifier
        BY <4>1 DEF Keyed
      <4>3. module'["verifier"][a] = Preimage[a].verifier
        BY <1>2, <3>1 DEF RegisterAll, RegisteredModule, Slots
      <4> QED
        BY <4>2, <4>3
    <3>2. CASE a \notin ids
      <4>1. pluginConfig'[a] = pluginConfig[a]
        BY <1>2, <3>2 DEF RegisterAll
      <4>2. module'["verifier"][a] = module["verifier"][a] /\ module'["hook"][a] = module["hook"][a]
        BY <1>2, <3>2 DEF RegisterAll, Slots
      <4> QED
        BY <4>1, <4>2 DEF Inv, NoOrphanConfig
    <3> QED
      BY <3>1, <3>2
  <2>3. PendingNeedsModule'
    BY <1>2, <2>1 DEF RegisterAll, Inv, PendingNeedsModule, pendingVars
  <2>4. EscapeStamped' /\ NoStaleEscrowMarker'
    BY <1>2 DEF RegisterAll, Inv, EscapeStamped, NoStaleEscrowMarker, IsMarketEscrowActive
  <2> QED
    BY <2>2, <2>3, <2>4, <1>0 DEF Inv
<1>3. ASSUME NEW s \in Slots, NEW a \in Accounts, NEW who \in Owners,
             NEW new \in PluginsOf(s) \cup {Zero}, NEW params \in BOOLEAN,
             UpdateModule(s, a, who, new, params)
      PROVE  Inv'
  <2>1. Exists(a) /\ UNCHANGED <<backupOwner, escapeVars, escrow>>
    BY <1>3 DEF UpdateModule, AssertBackupOwner
  <2>2. EscapeStamped' /\ NoStaleEscrowMarker'
    BY <2>1 DEF Inv, EscapeStamped, NoStaleEscrowMarker, IsMarketEscrowActive, escapeVars
  <2>3. CASE InstallIntoEmptySlot(s, a, new, params)
    <3>1. pendingUpdate[s][a] = NoUpdate
      BY <2>3 DEF InstallIntoEmptySlot, Inv, PendingNeedsModule
    <3>2. NoOrphanConfig'
      <4> SUFFICES ASSUME NEW b \in Accounts, NEW q \in pluginConfig'[b]
                   PROVE  q \in NoClear \cup {module'["verifier"][b], module'["hook"][b]}
        BY DEF NoOrphanConfig
      <4>1. CASE b = a
        <5>1. q \in pluginConfig[a] \/ (q = new /\ new # Zero)
          BY <2>3, <4>1 DEF InstallIntoEmptySlot, Keyed, TypeOK
        <5>2. module'[s][a] = new /\ \A t \in Slots \ {s} : module'[t][a] = module[t][a]
          BY <2>3 DEF InstallIntoEmptySlot, TypeOK
        <5>3. q \in pluginConfig[a] =>
                q \in NoClear \cup {module["verifier"][a], module["hook"][a]} /\ q # Zero
          BY DEF Inv, NoOrphanConfig, TypeOK
        <5> QED
          BY <2>3, <4>1, <5>1, <5>2, <5>3 DEF InstallIntoEmptySlot, Slots
      <4>2. CASE b # a
        BY <2>3, <4>2 DEF InstallIntoEmptySlot, Inv, NoOrphanConfig, TypeOK, Slots
      <4> QED
        BY <4>1, <4>2
    <3>3. PendingNeedsModule'
      BY <2>3, <3>1 DEF InstallIntoEmptySlot, Inv, PendingNeedsModule, TypeOK
    <3> QED
      BY <2>2, <3>2, <3>3, <1>0 DEF Inv
  <2>4. CASE StageUpdate(s, a, new, params)
    <3>1. NoOrphanConfig'
      BY <2>4 DEF StageUpdate, Inv, NoOrphanConfig
    <3>2. PendingNeedsModule'
      BY <2>4 DEF StageUpdate, SlotFilled, Inv, PendingNeedsModule, TypeOK
    <3> QED
      BY <2>2, <3>1, <3>2, <1>0 DEF Inv
  <2> QED
    BY <1>3, <2>3, <2>4 DEF UpdateModule
<1>4. ASSUME NEW s \in Slots, NEW a \in Accounts, NEW who \in Owners, ConfirmUpdate(s, a, who)
      PROVE  Inv'
  <2> DEFINE pending == pendingUpdate[s][a]
             old == module[s][a]
  <2>1. Exists(a) /\ UNCHANGED <<backupOwner, escapeVars, escrow>>
    BY <1>4 DEF ConfirmUpdate, AssertBackupOwner
  <2>2. /\ pluginConfig' = [pluginConfig EXCEPT
              ![a] = Keyed(Cleared(pluginConfig[a], old), pending.new, pending.params)]
        /\ module' = [module EXCEPT ![s][a] = pending.new]
        /\ pendingUpdate' = [pendingUpdate EXCEPT ![s][a] = NoUpdate]
    BY <1>4 DEF ConfirmUpdate
  <2>3. NoOrphanConfig'
    <3> SUFFICES ASSUME NEW b \in Accounts, NEW q \in pluginConfig'[b]
                 PROVE  q \in NoClear \cup {module'["verifier"][b], module'["hook"][b]}
      BY DEF NoOrphanConfig
    <3>1. CASE b = a
      <4>1. q = pending.new \/ (q \in pluginConfig[a] /\ (q = old => q \in NoClear))
        <5>1. q \in Keyed(Cleared(pluginConfig[a], old), pending.new, pending.params)
          BY <2>2, <3>1 DEF TypeOK
        <5> QED
          BY <5>1 DEF Keyed, Cleared
      <4>2. module'[s][a] = pending.new /\ \A t \in Slots \ {s} : module'[t][a] = module[t][a]
        BY <2>2 DEF TypeOK
      <4>3. q \in pluginConfig[a] => q \in NoClear \cup {module["verifier"][a], module["hook"][a]}
        BY DEF Inv, NoOrphanConfig
      <4> QED
        BY <3>1, <4>1, <4>2, <4>3 DEF Slots
    <3>2. CASE b # a
      BY <2>2, <3>2 DEF Inv, NoOrphanConfig, TypeOK, Slots
    <3> QED
      BY <3>1, <3>2
  <2>4. PendingNeedsModule'
    BY <2>2 DEF Inv, PendingNeedsModule, TypeOK
  <2>5. EscapeStamped' /\ NoStaleEscrowMarker'
    BY <2>1 DEF Inv, EscapeStamped, NoStaleEscrowMarker, IsMarketEscrowActive, escapeVars
  <2> QED
    BY <2>3, <2>4, <2>5, <1>0 DEF Inv
<1>5. ASSUME NEW s \in Slots, NEW a \in Accounts, NEW who \in Owners, CancelUpdate(s, a, who)
      PROVE  Inv'
  BY <1>0, <1>5 DEF CancelUpdate, AssertBackupOwner, TypeOK, Slots, Inv, NoOrphanConfig, PendingNeedsModule, EscapeStamped, NoStaleEscrowMarker, IsMarketEscrowActive, escapeVars, pendingVars
<1>6. ASSUME NEW a \in Accounts, NEW who \in Owners, NEW b \in BOOLEAN, SetMetadataUri(a, who, b)
      PROVE  Inv'
  BY <1>0, <1>6 DEF SetMetadataUri, Inv, NoOrphanConfig, PendingNeedsModule, EscapeStamped, NoStaleEscrowMarker, IsMarketEscrowActive, escapeVars, pendingVars
<1>7. ASSUME NEW s \in Slots, NEW a \in Accounts, NEW who \in Owners, NEW c \in ModuleCalls,
             CallModule(s, a, who, c)
      PROVE  Inv'
  <2>1. /\ Exists(a)
        /\ UNCHANGED <<backupOwner, module, escapeVars, pendingUpdate, escrow>>
    BY <1>7 DEF CallModule, AssertBackupOwner
  <2>2. /\ \A b \in Accounts \ {a} : pluginConfig'[b] = pluginConfig[b]
        /\ pluginConfig'[a] \subseteq pluginConfig[a] \cup {module[s][a]}
    <3>1. CASE StageModuleCall(s, a, c)
      BY <3>1 DEF StageModuleCall
    <3>2. CASE RunModuleCall(s, a, c)
      BY <3>2 DEF RunModuleCall, Configured, TypeOK
    <3> QED
      BY <1>7, <3>1, <3>2 DEF CallModule
  <2>3. NoOrphanConfig'
    BY <2>1, <2>2 DEF Inv, NoOrphanConfig, Slots
  <2>4. PendingNeedsModule' /\ EscapeStamped' /\ NoStaleEscrowMarker'
    BY <2>1 DEF Inv, PendingNeedsModule, EscapeStamped, NoStaleEscrowMarker,
                IsMarketEscrowActive, escapeVars
  <2> QED
    BY <2>3, <2>4, <1>0 DEF Inv
<1>8. ASSUME NEW a \in Accounts, NEW who \in Owners \cup {Zero}, NEW op \in UserOps, ExecuteUserOp(a, who, op)
      PROVE  Inv'
  BY <1>0, <1>8 DEF ExecuteUserOp, CancelEscape, TypeOK, Inv, NoOrphanConfig, PendingNeedsModule, EscapeStamped, NoStaleEscrowMarker, IsMarketEscrowActive, escapeVars, pendingVars
<1>9. ASSUME NEW a \in Accounts, NEW who \in Owners, InitiateEscape(a, who)
      PROVE  Inv'
  BY <1>0, <1>9 DEF InitiateEscape, TypeOK, Inv, NoOrphanConfig, PendingNeedsModule, EscapeStamped, NoStaleEscrowMarker, IsMarketEscrowActive, escapeVars, pendingVars
<1>10. ASSUME NEW a \in Accounts, NEW who \in Owners, NEW v \in Verifiers \cup {Zero},
              NEW p \in BOOLEAN, FinalizeEscape(a, who, v, p)
       PROVE  Inv'
  <2>1. Exists(a) /\ UNCHANGED <<backupOwner, escrow>>
    BY <1>10 DEF FinalizeEscape, AssertBackupOwner
  <2>2. pendingUpdate' = [s \in Slots |-> [pendingUpdate[s] EXCEPT ![a] = NoUpdate]]
    BY <1>10 DEF FinalizeEscape, WipePending
  <2>3. /\ module' = [module EXCEPT !["verifier"][a] = v, !["hook"][a] = Zero]
        /\ pluginConfig' = [pluginConfig EXCEPT ![a] = Keyed(ClearPlugins(a), v, p)]
    BY <1>10 DEF FinalizeEscape
  <2>4. /\ module'["verifier"][a] = v
        /\ \A s \in Slots, b \in Accounts \ {a} : module'[s][b] = module[s][b]
    BY <2>3 DEF TypeOK, Slots
  <2>5. NoOrphanConfig'
    <3> SUFFICES ASSUME NEW b \in Accounts, NEW q \in pluginConfig'[b]
                 PROVE  q \in NoClear \cup {module'["verifier"][b], module'["hook"][b]}
      BY DEF NoOrphanConfig
    <3>1. CASE b = a
      <4>1. q = v \/ q \in ClearPlugins(a)
        BY <2>3, <3>1 DEF Keyed, TypeOK
      <4>2. q \in ClearPlugins(a) => q \in NoClear
        BY OnlyUnclearableRemain
      <4> QED
        BY <2>4, <3>1, <4>1, <4>2
    <3>2. CASE b # a
      BY <2>3, <2>4, <3>2 DEF Inv, NoOrphanConfig, TypeOK, Slots
    <3> QED
      BY <3>1, <3>2
  <2>6. PendingNeedsModule'
    BY <2>2, <2>4 DEF Inv, PendingNeedsModule, TypeOK
  <2>7. EscapeStamped'
    BY <1>10 DEF FinalizeEscape, ResetEscape, Inv, EscapeStamped, TypeOK
  <2>8. NoStaleEscrowMarker'
    BY <2>1 DEF Inv, NoStaleEscrowMarker, IsMarketEscrowActive
  <2> QED
    BY <2>5, <2>6, <2>7, <2>8, <1>0 DEF Inv
<1>11. ASSUME NEW a \in Accounts, NEW who \in Owners, NEW m \in Markets, NEW l \in 1..MaxListing,
              EnterMarketEscrow(a, who, m, l)
       PROVE  Inv'
  BY <1>0, <1>11 DEF EnterMarketEscrow, TypeOK, MarketEscrow, NoEscrow, Inv, NoOrphanConfig, PendingNeedsModule, EscapeStamped, NoStaleEscrowMarker, IsMarketEscrowActive, escapeVars, pendingVars
<1>12. ASSUME NEW a \in Accounts, NEW m, NEW l, CancelMarketEscrow(a, m, l)
       PROVE  Inv'
  BY <1>0, <1>12 DEF CancelMarketEscrow, ClearMarketEscrow, TypeOK, Inv, NoOrphanConfig, PendingNeedsModule, EscapeStamped, NoStaleEscrowMarker, IsMarketEscrowActive, escapeVars, pendingVars
<1>13. ASSUME NEW a \in Accounts, NEW m, NEW l, NEW o \in Owners, SettleMarketEscrow(a, m, l, o)
       PROVE  Inv'
  <2>1. pendingUpdate' = [s \in Slots |-> [pendingUpdate[s] EXCEPT ![a] = NoUpdate]]
    BY <1>13 DEF SettleMarketEscrow, WipePending
  <2>2. /\ module' = [s \in Slots |-> [module[s] EXCEPT ![a] = Zero]]
        /\ pluginConfig' = [pluginConfig EXCEPT ![a] = ClearPlugins(a)]
    BY <1>13 DEF SettleMarketEscrow
  <2>3. \A s \in Slots, b \in Accounts \ {a} :
          module'[s][b] = module[s][b] /\ pendingUpdate'[s][b] = pendingUpdate[s][b]
    BY <2>1, <2>2 DEF TypeOK
  <2>4. NoOrphanConfig'
    <3> SUFFICES ASSUME NEW b \in Accounts, NEW q \in pluginConfig'[b]
                 PROVE  q \in NoClear \cup {module'["verifier"][b], module'["hook"][b]}
      BY DEF NoOrphanConfig
    <3>1. CASE b = a
      BY <2>2, <3>1, OnlyUnclearableRemain DEF TypeOK
    <3>2. CASE b # a
      BY <2>2, <2>3, <3>2 DEF Inv, NoOrphanConfig, TypeOK, Slots
    <3> QED
      BY <3>1, <3>2
  <2>5. PendingNeedsModule'
    BY <2>1, <2>3 DEF Inv, PendingNeedsModule, TypeOK
  <2>6. EscapeStamped'
    BY <1>13 DEF SettleMarketEscrow, ResetEscape, Inv, EscapeStamped, TypeOK
  <2>7. NoStaleEscrowMarker'
    BY <1>13 DEF SettleMarketEscrow, ClearMarketEscrow, Inv, NoStaleEscrowMarker,
                 IsMarketEscrowActive, TypeOK
  <2> QED
    BY <2>4, <2>5, <2>6, <2>7, <1>0 DEF Inv
<1>14. ASSUME NEW a \in Accounts, NEW who \in Owners, InitiateMarketEscrowCancel(a, who)
       PROVE  Inv'
  BY <1>0, <1>14 DEF InitiateMarketEscrowCancel, TypeOK, MarketEscrow, Inv, NoOrphanConfig, PendingNeedsModule, EscapeStamped, NoStaleEscrowMarker, IsMarketEscrowActive, escapeVars, pendingVars
<1>15. ASSUME NEW a \in Accounts, NEW who \in Owners, ForceCancelMarketEscrow(a, who)
       PROVE  Inv'
  BY <1>0, <1>15 DEF ForceCancelMarketEscrow, ClearMarketEscrow, TypeOK, Inv, NoOrphanConfig, PendingNeedsModule, EscapeStamped, NoStaleEscrowMarker, IsMarketEscrowActive, escapeVars, pendingVars
<1>16. CASE UNCHANGED vars
  BY <1>0, <1>16 DEF vars, Inv, NoOrphanConfig, PendingNeedsModule, EscapeStamped, NoStaleEscrowMarker, IsMarketEscrowActive
<1> QED
  BY <1>1, <1>2, <1>3, <1>4, <1>5, <1>6, <1>7, <1>8, <1>9, <1>10, <1>11, <1>12, <1>13, <1>14,
     <1>15, <1>16, StepCases

\* The safety invariants of the account hold in every reachable state.
THEOREM Safety == Spec => []Inv
<1>1. TypeOK /\ Inv /\ [Next]_vars => TypeOK' /\ Inv'
  BY TypeStep, InvStep
<1> QED
  BY TypeInit, InvInit, <1>1, PTL DEF Spec

\* No plugin keeps configuration of an account it is not installed for.
THEOREM OrphanFree == Spec => []NoOrphanConfig
BY Safety, PTL DEF Inv

\* A staged update always has a plugin to replace.
THEOREM PendingGuarded == Spec => []PendingNeedsModule
BY Safety, PTL DEF Inv

\* A running escape carries the stamp of its cooldown.
THEOREM EscapesStamped == Spec => []EscapeStamped
BY Safety, PTL DEF Inv

\* The escrow's keys live and die together.
THEOREM MarkersFresh == Spec => []NoStaleEscrowMarker
BY Safety, PTL DEF Inv

\* Every marker belongs to what it marks.
THEOREM MarkersAreKept == Spec => []MarkersBelong
BY Safety, PTL DEF Inv, MarkersBelong

\* Nothing can be planted under an account id before it is registered.
THEOREM NothingPlanted == Spec => []BlankUntilRegistered
BY Safety, PTL DEF Inv

-----------------------------------------------------------------------------
(***************************************************************************)
(* The action properties: what no step of any instance may ever do.  They  *)
(* rest on the invariants and on StepFrame: a step leaves an account alone *)
(* or is one operation on it.                                              *)
(***************************************************************************)
(***************************************************************************)
(* A sale leaves a clean shell, and only a sale changes the owner.         *)
(***************************************************************************)
LEMMA SaleCleans ==
  ASSUME TypeOK, Inv, NEW a \in Accounts, NEW m \in Markets, NEW l \in 1..MaxListing,
         NEW o \in Owners, SettleMarketEscrow(a, m, l, o)
  PROVE  IsMarketEscrowActive(a) /\ CleanShell(a)'
<1> USE DEF SettleMarketEscrow, TypeOK
<1>1. IsMarketEscrowActive(a)
  BY DEF AssertEscrowMarket, IsMarketEscrowActive
<1>2. \A s \in Slots :
        module'[s][a] = Zero /\ pendingUpdate'[s][a] = NoUpdate /\ pendingCall'[s][a] = NoCall
  BY DEF WipePending
<1>3. /\ escapeTriggeredAt'[a] = 0 /\ escapeLastInitiated'[a] = 0
      /\ escrow'[a] = NoEscrow /\ ~metadataUri'[a]
  BY DEF WipePending, ResetEscape, ClearMarketEscrow
<1>4. pluginConfig'[a] \subseteq NoClear
  BY OnlyUnclearableRemain
<1> QED
  BY <1>1, <1>2, <1>3, <1>4 DEF CleanShell

\* A step that changes an owner is a sale out of escrow.
LEMMA OwnerStepHolds == TypeOK /\ Inv /\ [Next]_vars => OwnerStep
<1> SUFFICES ASSUME TypeOK, Inv, [Next]_vars, NEW a \in Accounts, Exists(a),
                    backupOwner'[a] # backupOwner[a]
             PROVE  IsMarketEscrowActive(a) /\ CleanShell(a)'
  BY DEF OwnerStep
<1>1. OperationOn(a)
  BY StepFrame DEF SameAt
<1>2. ~ \E who \in Owners, ids \in SUBSET Accounts : a \in ids /\ RegisterAll(ids, who)
  BY DEF RegisterAll
<1>3. ~ \E s \in Slots, who \in Owners :
          \/ \E new \in PluginsOf(s) \cup {Zero}, params \in BOOLEAN :
               UpdateModule(s, a, who, new, params)
          \/ ConfirmUpdate(s, a, who)
          \/ CancelUpdate(s, a, who)
          \/ \E c \in ModuleCalls : CallModule(s, a, who, c)
  BY DEF UpdateModule, ConfirmUpdate, CancelUpdate, CallModule
<1>4. ~ \E who \in Owners :
          \/ \E present \in BOOLEAN : SetMetadataUri(a, who, present)
          \/ InitiateEscape(a, who)
          \/ \E v \in Verifiers \cup {Zero}, params \in BOOLEAN :
               FinalizeEscape(a, who, v, params)
          \/ InitiateMarketEscrowCancel(a, who)
          \/ ForceCancelMarketEscrow(a, who)
  BY DEF SetMetadataUri, InitiateEscape, FinalizeEscape, InitiateMarketEscrowCancel,
         ForceCancelMarketEscrow
<1>5. ~ \E who \in Owners \cup {Zero}, op \in UserOps : ExecuteUserOp(a, who, op)
  BY DEF ExecuteUserOp
<1>6. ~ \E m \in Markets, l \in 1..MaxListing : CancelMarketEscrow(a, m, l)
  BY DEF CancelMarketEscrow
<1>7. \E m \in Markets, l \in 1..MaxListing, o \in Owners : SettleMarketEscrow(a, m, l, o)
  BY <1>1, <1>2, <1>3, <1>4, <1>5, <1>6 DEF OperationOn, EnterMarketEscrow
<1> QED
  BY <1>7, SaleCleans

\* Whoever owns an account keeps it until it is sold out of escrow, and then as a clean shell.
THEOREM OwnerIsKept == Spec => OwnerChangesOnlyBySale
BY TypeCorrect, Safety, OwnerStepHolds, PTL DEF Spec, OwnerChangesOnlyBySale

(***************************************************************************)
(* An escrow freezes what it holds.                                        *)
(***************************************************************************)
LEMMA FrozenStepHolds == TypeOK /\ Inv /\ [Next]_vars => FrozenStep
<1> SUFFICES ASSUME TypeOK, Inv, [Next]_vars, NEW a \in Accounts, IsMarketEscrowActive(a)
             PROVE  \/ /\ ControlOf(a)' = ControlOf(a)
                       /\ \A s \in Slots : pendingUpdate'[s][a] \in {pendingUpdate[s][a], NoUpdate}
                    \/ CleanShell(a)'
  BY DEF FrozenStep
<1> DEFINE Frozen ==
      /\ ControlOf(a)' = ControlOf(a)
      /\ \A s \in Slots : pendingUpdate'[s][a] \in {pendingUpdate[s][a], NoUpdate}
<1>1. CASE SameAt(a)
  BY <1>1 DEF SameAt, ControlOf, Slots
<1>2. CASE OperationOn(a)
  <2>1. ~ \E who \in Owners, ids \in SUBSET Accounts : a \in ids /\ RegisterAll(ids, who)
    <3>1. escrow[a] # NoEscrow
      BY DEF IsMarketEscrowActive, NoEscrow
    <3>2. Exists(a)
      BY <3>1 DEF Inv, BlankUntilRegistered, CleanShell
    <3> QED
      BY <3>2 DEF RegisterAll
  <2>2. ASSUME NEW s \in Slots, NEW who \in Owners,
               \/ \E new \in PluginsOf(s) \cup {Zero}, params \in BOOLEAN :
                    UpdateModule(s, a, who, new, params)
               \/ ConfirmUpdate(s, a, who)
               \/ CancelUpdate(s, a, who)
               \/ \E c \in ModuleCalls : CallModule(s, a, who, c)
        PROVE  Frozen
    <3>1. CancelUpdate(s, a, who)
      BY <2>2 DEF UpdateModule, ConfirmUpdate, CallModule, AssertNoMarketEscrow
    <3>2. ControlOf(a)' = ControlOf(a)
      BY <3>1 DEF CancelUpdate, ControlOf, escapeVars
    <3>3. \A t \in Slots : pendingUpdate'[t][a] \in {pendingUpdate[t][a], NoUpdate}
      BY <3>1 DEF CancelUpdate, TypeOK
    <3> QED
      BY <3>2, <3>3
  <2>3. ASSUME NEW who \in Owners,
               \/ \E present \in BOOLEAN : SetMetadataUri(a, who, present)
               \/ InitiateEscape(a, who)
               \/ \E v \in Verifiers \cup {Zero}, params \in BOOLEAN :
                    FinalizeEscape(a, who, v, params)
               \/ InitiateMarketEscrowCancel(a, who)
               \/ ForceCancelMarketEscrow(a, who)
        PROVE  Frozen
    <3>1. UNCHANGED <<module, backupOwner, escapeVars, pendingVars, nonce, pluginConfig>>
      BY <2>3 DEF SetMetadataUri, InitiateEscape, FinalizeEscape, InitiateMarketEscrowCancel,
                  ForceCancelMarketEscrow, AssertNoMarketEscrow
    <3> QED
      BY <3>1 DEF ControlOf, escapeVars, pendingVars
  <2>4. ~ \E who \in Owners \cup {Zero}, op \in UserOps : ExecuteUserOp(a, who, op)
    BY DEF ExecuteUserOp, AssertNoMarketEscrow
  <2>5. ~ \E m \in Markets, l \in 1..MaxListing, o \in Owners : EnterMarketEscrow(a, o, m, l)
    BY DEF EnterMarketEscrow, AssertNoMarketEscrow
  <2>6. ASSUME NEW m \in Markets, NEW l \in 1..MaxListing, CancelMarketEscrow(a, m, l)
        PROVE  Frozen
    BY <2>6 DEF CancelMarketEscrow, ControlOf, escapeVars, pendingVars
  <2> QED
    BY <1>2, <2>1, <2>2, <2>3, <2>4, <2>5, <2>6, SaleCleans DEF OperationOn
<1> QED
  BY <1>1, <1>2, StepFrame

\* While an account is in escrow nothing that controls it changes, up to a sale that wipes it.
THEOREM EscrowFreezes == Spec => EscrowFreezesUntilCleanSale
BY TypeCorrect, Safety, FrozenStepHolds, PTL DEF Spec, EscrowFreezesUntilCleanSale

(***************************************************************************)
(* A nonce advances only with an operation, which ends an escape.          *)
(***************************************************************************)
LEMMA EscapeStepHolds == TypeOK /\ [Next]_vars => EscapeStep
<1> SUFFICES ASSUME TypeOK, [Next]_vars, NEW a \in Accounts, nonce'[a] # nonce[a]
             PROVE  escapeTriggeredAt'[a] = 0
  BY DEF EscapeStep
<1>1. OperationOn(a)
  BY StepFrame DEF SameAt
<1>2. \E who \in Owners \cup {Zero}, op \in UserOps : ExecuteUserOp(a, who, op)
  BY <1>1 DEF OperationOn, RegisterAll, UpdateModule, ConfirmUpdate, CancelUpdate, CallModule,
              SetMetadataUri, InitiateEscape, FinalizeEscape, InitiateMarketEscrowCancel,
              ForceCancelMarketEscrow, EnterMarketEscrow, SettleMarketEscrow, CancelMarketEscrow
<1> QED
  BY <1>2 DEF ExecuteUserOp, CancelEscape, TypeOK

\* No operation of an account leaves an escape of it ticking.
THEOREM OperationsEndEscapes == Spec => OperationEndsEscape
BY TypeCorrect, EscapeStepHolds, PTL DEF Spec, OperationEndsEscape

(***************************************************************************)
(* What touches an installed plugin was announced a timelock before.       *)
(***************************************************************************)

\* The two slots never hold the same plugin, so what is done to one leaves the other's alone.
LEMMA OtherSlotUntouched ==
  ASSUME TypeOK, NEW a \in Accounts, NEW s \in Slots, NEW t \in Slots, s # t,
         module'[s][a] = module[s][a],
         NEW p \in PluginsOf(t) \cup {Zero}, NEW q \in PluginsOf(t) \cup {Zero},
         \A r : r # p /\ r # q => (r \in pluginConfig'[a] <=> r \in pluginConfig[a])
  PROVE  ~TouchesPlugin(s, a)
<1>1. module[s][a] # Zero => module[s][a] \in PluginsOf(s)
  BY DEF TypeOK
<1>2. module[s][a] # Zero => module[s][a] # p /\ module[s][a] # q
  BY <1>1, PluginAssumption, ZeroAssumption DEF PluginsOf, Slots, Plugins
<1> QED
  BY <1>2 DEF TouchesPlugin

\* A step that changes an installed plugin is a confirmation in time, or a sale.
LEMMA AnnouncedStepHolds == TypeOK /\ Inv /\ [Next]_vars => AnnouncedStep
<1> SUFFICES ASSUME TypeOK, Inv, [Next]_vars, NEW s \in Slots, NEW a \in Accounts, TouchesPlugin(s, a)
             PROVE  \/ UpdateMatured(s, a) \/ CallMatured(s, a)
                    \/ EscapeMatured(a) \/ IsMarketEscrowActive(a)
  BY DEF AnnouncedStep
<1>1. OperationOn(a)
  BY StepFrame DEF SameAt, TouchesPlugin
<1>2. ASSUME module'[s][a] = module[s][a], pluginConfig'[a] = pluginConfig[a]
      PROVE  FALSE
  BY <1>2 DEF TouchesPlugin
<1>3. ~ \E who \in Owners, ids \in SUBSET Accounts : a \in ids /\ RegisterAll(ids, who)
  <2>1. Exists(a)
    BY DEF TouchesPlugin, Inv, BlankUntilRegistered, CleanShell
  <2> QED
    BY <2>1 DEF RegisterAll
<1>4. ASSUME NEW t \in Slots, NEW who \in Owners, NEW new \in PluginsOf(t) \cup {Zero},
             NEW params \in BOOLEAN, UpdateModule(t, a, who, new, params)
      PROVE  FALSE
  <2>1. CASE StageUpdate(t, a, new, params)
    BY <1>2, <2>1 DEF StageUpdate
  <2>2. CASE InstallIntoEmptySlot(t, a, new, params)
    <3>1. s # t
      BY <2>2 DEF InstallIntoEmptySlot, TouchesPlugin
    <3>2. module'[s][a] = module[s][a]
      BY <2>2, <3>1 DEF InstallIntoEmptySlot, TypeOK
    <3>3. \A r : r # new => (r \in pluginConfig'[a] <=> r \in pluginConfig[a])
      BY <2>2 DEF InstallIntoEmptySlot, Keyed, TypeOK
    <3> QED
      BY <3>1, <3>2, <3>3, OtherSlotUntouched
  <2> QED
    BY <1>4, <2>1, <2>2 DEF UpdateModule
<1>5. ASSUME NEW t \in Slots, NEW who \in Owners, ConfirmUpdate(t, a, who)
      PROVE  UpdateMatured(s, a)
  <2> DEFINE pending == pendingUpdate[t][a]
             old == module[t][a]
  <2>1. CASE s = t
    BY <1>5, <2>1 DEF ConfirmUpdate, UpdateMatured, TimelockElapsed
  <2>2. CASE s # t
    <3>1. module'[s][a] = module[s][a]
      BY <1>5, <2>2 DEF ConfirmUpdate, TypeOK
    <3>2. \A r : r # old /\ r # pending.new => (r \in pluginConfig'[a] <=> r \in pluginConfig[a])
      BY <1>5 DEF ConfirmUpdate, Keyed, Cleared, TypeOK
    <3>3. old \in PluginsOf(t) \cup {Zero} /\ pending.new \in PluginsOf(t) \cup {Zero}
      BY DEF TypeOK
    <3> QED
      BY <2>2, <3>1, <3>2, <3>3, OtherSlotUntouched
  <2> QED
    BY <2>1, <2>2
<1>6. ASSUME NEW t \in Slots, NEW who \in Owners, NEW c \in ModuleCalls, CallModule(t, a, who, c)
      PROVE  CallMatured(s, a)
  <2>1. CASE StageModuleCall(t, a, c)
    BY <1>2, <1>6, <2>1 DEF StageModuleCall, CallModule
  <2>2. CASE RunModuleCall(t, a, c)
    <3>1. CASE s = t
      BY <2>2, <3>1 DEF RunModuleCall, StagedAs, CallMatured, TimelockElapsed
    <3>2. CASE s # t
      <4>1. module'[s][a] = module[s][a]
        BY <1>6 DEF CallModule
      <4>2. \A r : r # module[t][a] => (r \in pluginConfig'[a] <=> r \in pluginConfig[a])
        BY <2>2 DEF RunModuleCall, Configured, TypeOK
      <4>3. module[t][a] \in PluginsOf(t) \cup {Zero}
        BY DEF TypeOK
      <4> QED
        BY <3>2, <4>1, <4>2, <4>3, OtherSlotUntouched
    <3> QED
      BY <3>1, <3>2
  <2> QED
    BY <1>6, <2>1, <2>2 DEF CallModule
<1>7. ASSUME NEW who \in Owners, NEW v \in Verifiers \cup {Zero}, NEW params \in BOOLEAN,
             FinalizeEscape(a, who, v, params)
      PROVE  EscapeMatured(a)
  BY <1>7 DEF FinalizeEscape, EscapeMatured
<1>8. ASSUME NEW m \in Markets, NEW l \in 1..MaxListing, NEW o \in Owners,
             SettleMarketEscrow(a, m, l, o)
      PROVE  IsMarketEscrowActive(a)
  BY <1>8 DEF SettleMarketEscrow, AssertEscrowMarket, IsMarketEscrowActive
<1>9. ASSUME \/ \E t \in Slots, who \in Owners : CancelUpdate(t, a, who)
             \/ \E who \in Owners, present \in BOOLEAN : SetMetadataUri(a, who, present)
             \/ \E who \in Owners :
                  \/ InitiateEscape(a, who)
                  \/ InitiateMarketEscrowCancel(a, who)
                  \/ ForceCancelMarketEscrow(a, who)
             \/ \E who \in Owners \cup {Zero}, op \in UserOps : ExecuteUserOp(a, who, op)
             \/ \E m \in Markets, l \in 1..MaxListing, o \in Owners : EnterMarketEscrow(a, o, m, l)
             \/ \E m \in Markets, l \in 1..MaxListing : CancelMarketEscrow(a, m, l)
      PROVE  FALSE
  <2>1. UNCHANGED <<module, pluginConfig>>
    BY <1>9 DEF CancelUpdate, SetMetadataUri, InitiateEscape, InitiateMarketEscrowCancel,
                ForceCancelMarketEscrow, ExecuteUserOp, EnterMarketEscrow, CancelMarketEscrow
  <2> QED
    BY <1>2, <2>1
<1> QED
  BY <1>1, <1>3, <1>4, <1>5, <1>6, <1>7, <1>8, <1>9 DEF OperationOn

\* No plugin is replaced, cleared or configured under a user without a timelock or a sale.
THEOREM ChangesAreAnnounced == Spec => NoUnannouncedChange
BY TypeCorrect, Safety, AnnouncedStepHolds, PTL DEF Spec, NoUnannouncedChange

(***************************************************************************)
(* What is staged stands as it was staged.                                 *)
(***************************************************************************)
LEMMA HonestStepHolds == TypeOK /\ [Next]_vars => HonestStep
<1> DEFINE Honest(s, a) ==
      /\ pendingUpdate'[s][a] # pendingUpdate[s][a] =>
           \/ pendingUpdate'[s][a] = NoUpdate
           \/ pendingUpdate[s][a] = NoUpdate /\ pendingUpdate'[s][a].at = now
      /\ pendingCall'[s][a] # pendingCall[s][a] =>
           pendingCall'[s][a] = NoCall \/ pendingCall'[s][a].at = now
<1> SUFFICES ASSUME TypeOK, [Next]_vars, NEW s \in Slots, NEW a \in Accounts
             PROVE  Honest(s, a)
  BY DEF HonestStep
<1>1. CASE SameAt(a)
  BY <1>1 DEF SameAt
<1>2. ASSUME NEW t \in Slots, NEW who \in Owners,
             \/ \E new \in PluginsOf(t) \cup {Zero}, params \in BOOLEAN :
                  UpdateModule(t, a, who, new, params)
             \/ ConfirmUpdate(t, a, who)
             \/ CancelUpdate(t, a, who)
      PROVE  Honest(s, a)
  <2>1. pendingCall' = pendingCall
    BY <1>2 DEF UpdateModule, ConfirmUpdate, CancelUpdate
  <2>2. pendingUpdate'[s][a] # pendingUpdate[s][a] =>
          \/ pendingUpdate'[s][a] = NoUpdate
          \/ pendingUpdate[s][a] = NoUpdate /\ pendingUpdate'[s][a].at = now
    BY <1>2 DEF UpdateModule, InstallIntoEmptySlot, StageUpdate, NothingPending, ConfirmUpdate,
                CancelUpdate, TypeOK
  <2> QED
    BY <2>1, <2>2
<1>3. ASSUME NEW t \in Slots, NEW who \in Owners, NEW c \in ModuleCalls, CallModule(t, a, who, c)
      PROVE  Honest(s, a)
  <2>1. pendingUpdate' = pendingUpdate
    BY <1>3 DEF CallModule
  <2>2. CASE StageModuleCall(t, a, c)
    BY <2>1, <2>2 DEF StageModuleCall, TypeOK
  <2>3. CASE RunModuleCall(t, a, c)
    BY <2>1, <2>3 DEF RunModuleCall, TypeOK
  <2> QED
    BY <1>3, <2>2, <2>3 DEF CallModule
<1>4. ASSUME WipePending(a)
      PROVE  Honest(s, a)
  BY <1>4 DEF WipePending, TypeOK
<1>5. ASSUME UNCHANGED pendingVars
      PROVE  Honest(s, a)
  BY <1>5 DEF pendingVars
<1>6. CASE OperationOn(a)
  BY <1>2, <1>3, <1>4, <1>5, <1>6
     DEF OperationOn, RegisterAll, SetMetadataUri, InitiateEscape, FinalizeEscape,
         InitiateMarketEscrowCancel, ForceCancelMarketEscrow, ExecuteUserOp, EnterMarketEscrow,
         SettleMarketEscrow, CancelMarketEscrow
<1> QED
  BY <1>1, <1>6, StepFrame

\* No staged update or call is altered in place or backdated.
THEOREM StagingHonest == Spec => StagingIsHonest
BY TypeCorrect, HonestStepHolds, PTL DEF Spec, StagingIsHonest
=============================================================================

--------------------------- MODULE AbstractAccount ---------------------------
(***************************************************************************)
(* The account state machine of contracts/UnifiedSmartWallet*.cs: what the *)
(* core contract stores for every account and what each of its state-      *)
(* changing entry points does to it.  An entry point runs inside one Neo   *)
(* transaction, and every failed Assert reverts the transaction, so an     *)
(* entry point is one action and its Asserts are the guard.  Calls back    *)
(* into the core from a target or a plugin are the matter of               *)
(* UserOpExecution; the market at the other end of an escrow is the matter *)
(* of AddressMarket.  Here a market is any contract that may call in.      *)
(*                                                                         *)
(* A verifier and a hook are handled by twin code; both are a "slot".      *)
(***************************************************************************)
EXTENDS Integers, FiniteSets

CONSTANTS
  Accounts,              \* account ids (160-bit hashes in the code)
  Owners,                \* native addresses that can be a backup owner
  Verifiers, Hooks,      \* plugin contracts, by the interface they implement
  NoClear,               \* the plugins whose clearAccount fails or is missing
  Markets,               \* contracts that can call in as a market
  Zero,                  \* UInt160.Zero: "none"
  ModuleCalls,           \* (method, args) pairs on the CallVerifier/CallHook allowlists
  ClearingCalls,         \* those of them that wipe the plugin's configuration
  Channels,              \* nonce channels
  Preimage,              \* the registration parameters an account id is the hash of
  ConfigUpdateTimelock,  \* 24 hours
  EscapeCooldown,        \* 1 hour
  MinEscapeTimelock,     \* 7 days
  MaxEscapeTimelock,     \* 90 days
  OwnerCancelTimelock,   \* MarketEscrowOwnerCancelTimelockMs, 7 days
  MaxBatch,              \* accounts of one RegisterAccounts call, 64
  MaxTime, MaxListing, MaxSeq  \* bounds of the model: clock, listing ids, nonces

Slots == {"verifier", "hook"}
Plugins == Verifiers \cup Hooks
PluginsOf(s) == IF s = "verifier" THEN Verifiers ELSE Hooks

Times == 0..MaxTime       \* 0 stands for "not set": Runtime.Time is positive

ASSUME ZeroAssumption ==
  Zero \notin Owners \cup Plugins \cup Markets

ASSUME PluginAssumption ==
  /\ Verifiers \cap Hooks = {}
  /\ NoClear \subseteq Plugins
  /\ ClearingCalls \subseteq ModuleCalls

ASSUME PreimageAssumption ==
  Preimage \in [Accounts -> [verifier : Verifiers \cup {Zero},
                             hook : Hooks \cup {Zero},
                             owner : Owners \cup {Zero},
                             timelock : Nat,
                             params : BOOLEAN]]

ASSUME BoundAssumption ==
  /\ ConfigUpdateTimelock \in Nat /\ EscapeCooldown \in Nat
  /\ MinEscapeTimelock \in Nat /\ MaxEscapeTimelock \in Nat
  /\ OwnerCancelTimelock \in Nat /\ MaxBatch \in Nat
  /\ MaxTime \in Nat \ {0} /\ MaxListing \in Nat /\ MaxSeq \in Nat

VARIABLES
  now,                  \* Runtime.Time
  module,               \* AccountState.Verifier and AccountState.HookId
  backupOwner,          \* AccountState.BackupOwner; Zero while the account does not exist
  escapeTriggeredAt,    \* AccountState.EscapeTriggeredAt
  escapeLastInitiated,  \* Prefix_EscapeLastInitiated
  pendingUpdate,        \* Prefix_PendingVerifierUpdate, Prefix_PendingHookUpdate
  pendingCall,          \* Prefix_PendingVerifierCall, Prefix_PendingHookCall
  escrow,               \* Prefix_MarketEscrow{Contract, Listing, CancelInitiated}
  metadataUri,          \* Prefix_MetadataUri: is one set?
  nonce,                \* Prefix_Nonce: the cursor of every channel
  pluginConfig          \* the plugins that hold configuration for the account

escapeVars == <<escapeTriggeredAt, escapeLastInitiated>>
pendingVars == <<pendingUpdate, pendingCall>>
vars == <<now, module, backupOwner, escapeTriggeredAt, escapeLastInitiated,
          pendingUpdate, pendingCall, escrow, metadataUri, nonce, pluginConfig>>

NoUpdate == [new |-> Zero, params |-> FALSE, at |-> 0]
NoCall == [module |-> Zero, call |-> Zero, at |-> 0]
NoEscrow == [market |-> Zero, listing |-> 0, cancelAt |-> 0]

PendingConfigUpdate == [new : Plugins \cup {Zero}, params : BOOLEAN, at : Times]
PendingModuleCall == [module : Plugins \cup {Zero}, call : ModuleCalls \cup {Zero}, at : Times]
MarketEscrow == [market : Markets \cup {Zero}, listing : 0..MaxListing, cancelAt : Times]
UserOps == [channel : Channels, sequence : 0..MaxSeq, deadline : Times]

(***************************************************************************)
(* Guards the entry points share, and what the plugins keep.               *)
(***************************************************************************)
Exists(a) == backupOwner[a] # Zero
AnyWitness(a, who) == who # Zero                                  \* mutant
AssertBackupOwner(a, who) == Exists(a) /\ who = backupOwner[a]
IsMarketEscrowActive(a) == escrow[a].market # Zero /\ escrow[a].listing > 0
AssertNoMarketEscrow(a) == ~IsMarketEscrowActive(a)
IsEscapeActive(a) == escapeTriggeredAt[a] > 0
TimelockStarted(at) == now >= at                                  \* mutant
TimelockElapsed(at) == now >= at + ConfigUpdateTimelock

\* clearAccount on plugin p, best-effort: a failure is caught and ignored.
Cleared(cfg, p) == IF p \in NoClear THEN cfg ELSE cfg \ {p}

\* setPublicKey on plugin p, only with a plugin and non-empty parameters.
Keyed(cfg, p, params) == IF p # Zero /\ params THEN cfg \cup {p} ELSE cfg

\* An allowlisted configuration call on plugin p.
Configured(cfg, p, call) == IF call \in ClearingCalls THEN cfg \ {p} ELSE cfg \cup {p}

(***************************************************************************)
(* Registration.  An account id is the hash of its parameters, so an id    *)
(* determines them: Preimage.                                              *)
(***************************************************************************)
Init ==
  /\ now = 1
  /\ module = [s \in Slots |-> [a \in Accounts |-> Zero]]
  /\ backupOwner = [a \in Accounts |-> Zero]
  /\ escapeTriggeredAt = [a \in Accounts |-> 0]
  /\ escapeLastInitiated = [a \in Accounts |-> 0]
  /\ pendingUpdate = [s \in Slots |-> [a \in Accounts |-> NoUpdate]]
  /\ pendingCall = [s \in Slots |-> [a \in Accounts |-> NoCall]]
  /\ escrow = [a \in Accounts |-> NoEscrow]
  /\ metadataUri = [a \in Accounts |-> FALSE]
  /\ nonce = [a \in Accounts |-> [c \in Channels |-> 0]]
  /\ pluginConfig = [a \in Accounts |-> {}]

RegisteredModule(s, a) == IF s = "verifier" THEN Preimage[a].verifier ELSE Preimage[a].hook

RegisterAll(ids, who) ==
  /\ \A a \in ids :
       /\ Preimage[a].owner # Zero /\ who = Preimage[a].owner
       /\ Preimage[a].timelock \in MinEscapeTimelock..MaxEscapeTimelock
       /\ ~Exists(a)
  /\ module' = [s \in Slots |->
       [a \in Accounts |-> IF a \in ids THEN RegisteredModule(s, a) ELSE module[s][a]]]
  /\ backupOwner' = [a \in Accounts |-> IF a \in ids THEN who ELSE backupOwner[a]]
  /\ escapeTriggeredAt' =
       [a \in Accounts |-> IF a \in ids THEN 0 ELSE escapeTriggeredAt[a]]
  /\ pluginConfig' = [a \in Accounts |->
       IF a \in ids THEN Keyed(pluginConfig[a], Preimage[a].verifier, Preimage[a].params)
                    ELSE pluginConfig[a]]
  /\ UNCHANGED <<now, escapeLastInitiated, pendingVars, escrow, metadataUri, nonce>>

RegisterAccount(a, who) == RegisterAll({a}, who)

\* The batch shares owner, verifier, hook and timelock; only the parameters differ.
\* A repeated id fails the second time, so the batch is a set.
RegisterAccounts(ids, who) ==
  /\ ids # {} /\ Cardinality(ids) <= MaxBatch
  /\ \A a, b \in ids : [Preimage[a] EXCEPT !.params = TRUE] = [Preimage[b] EXCEPT !.params = TRUE]
  /\ RegisterAll(ids, who)

(***************************************************************************)
(* Replacing a verifier or a hook: at once into an empty slot, otherwise   *)
(* staged, and confirmed by the owner when the timelock has passed.        *)
(***************************************************************************)
InstallIntoEmptySlot(s, a, new, params) ==
  /\ module[s][a] = Zero
  /\ module' = [module EXCEPT ![s][a] = new]
  /\ pluginConfig' = [pluginConfig EXCEPT ![a] = Keyed(@, new, params)]
  /\ UNCHANGED pendingUpdate

SlotFilled(s, a) == module[s][a] # Zero
NothingPending(s, a) == pendingUpdate[s][a] = NoUpdate

StageUpdate(s, a, new, params) ==
  /\ SlotFilled(s, a)
  /\ NothingPending(s, a)
  /\ pendingUpdate' =
       [pendingUpdate EXCEPT ![s][a] = [new |-> new, params |-> params, at |-> now]]
  /\ UNCHANGED <<module, pluginConfig>>

UpdateModule(s, a, who, new, params) ==
  /\ AssertBackupOwner(a, who)
  /\ AssertNoMarketEscrow(a)
  /\ \/ InstallIntoEmptySlot(s, a, new, params)
     \/ StageUpdate(s, a, new, params)
  /\ UNCHANGED <<now, backupOwner, escapeVars, pendingCall, escrow, metadataUri, nonce>>

UpdateHook(a, who, newHookId) == UpdateModule("hook", a, who, newHookId, FALSE)
UpdateVerifier(a, who, newVerifier, params) ==
  UpdateModule("verifier", a, who, newVerifier, params)

ConfirmUpdate(s, a, who) ==
  LET pending == pendingUpdate[s][a] IN
  /\ AssertBackupOwner(a, who)
  /\ AssertNoMarketEscrow(a)
  /\ pending # NoUpdate
  /\ TimelockElapsed(pending.at)
  /\ module' = [module EXCEPT ![s][a] = pending.new]
  /\ pluginConfig' = [pluginConfig EXCEPT ![a] =
       Keyed(Cleared(@, module[s][a]), pending.new, pending.params)]
  /\ pendingUpdate' = [pendingUpdate EXCEPT ![s][a] = NoUpdate]
  /\ UNCHANGED <<now, backupOwner, escapeVars, pendingCall, escrow, metadataUri, nonce>>

ConfirmHookUpdate(a, who) == ConfirmUpdate("hook", a, who)
ConfirmVerifierUpdate(a, who) == ConfirmUpdate("verifier", a, who)

\* Not blocked by an escrow: the owner can always withdraw a staged update.
CancelUpdate(s, a, who) ==
  /\ AssertBackupOwner(a, who)
  /\ pendingUpdate' = [pendingUpdate EXCEPT ![s][a] = NoUpdate]
  /\ UNCHANGED <<now, module, backupOwner, escapeVars, pendingCall, escrow,
                 metadataUri, nonce, pluginConfig>>

CancelHookUpdate(a, who) == CancelUpdate("hook", a, who)
CancelVerifierUpdate(a, who) == CancelUpdate("verifier", a, who)

\* Not blocked by an escrow either.
SetMetadataUri(a, who, present) ==
  /\ AssertBackupOwner(a, who)
  /\ metadataUri' = [metadataUri EXCEPT ![a] = present]
  /\ UNCHANGED <<now, module, backupOwner, escapeVars, pendingVars, escrow,
                 nonce, pluginConfig>>

(***************************************************************************)
(* CallVerifier and CallHook: the first call stages the (module, call)     *)
(* pair; the same call again, when the timelock has passed, runs it; any   *)
(* other call replaces what was staged.                                    *)
(***************************************************************************)
StagedAs(p, m, call) == p # NoCall /\ p.module = m /\ p.call = call

StageModuleCall(s, a, call) ==
  /\ ~StagedAs(pendingCall[s][a], module[s][a], call)
  /\ pendingCall' = [pendingCall EXCEPT
       ![s][a] = [module |-> module[s][a], call |-> call, at |-> now]]
  /\ UNCHANGED pluginConfig

RunModuleCall(s, a, call) ==
  /\ StagedAs(pendingCall[s][a], module[s][a], call)
  /\ TimelockElapsed(pendingCall[s][a].at)
  /\ ~(call \in ClearingCalls /\ module[s][a] \in NoClear)  \* the call itself would fail
  /\ pendingCall' = [pendingCall EXCEPT ![s][a] = NoCall]
  /\ pluginConfig' = [pluginConfig EXCEPT ![a] = Configured(@, module[s][a], call)]

CallModule(s, a, who, call) ==
  /\ AssertBackupOwner(a, who)
  /\ AssertNoMarketEscrow(a)
  /\ SlotFilled(s, a)
  /\ StageModuleCall(s, a, call) \/ RunModuleCall(s, a, call)
  /\ UNCHANGED <<now, module, backupOwner, escapeVars, pendingUpdate, escrow,
                 metadataUri, nonce>>

CallVerifier(a, who, call) == CallModule("verifier", a, who, call)
CallHook(a, who, call) == CallModule("hook", a, who, call)

(***************************************************************************)
(* A user operation, as far as the core's own state goes.  With a verifier *)
(* installed the verifier authorises it (whether it accepts is the         *)
(* environment's choice); without one the backup owner does.  During an    *)
(* escape only the owner may operate, and operating ends the escape.       *)
(***************************************************************************)
IsNonceNotAhead(a, op) == op.sequence <= nonce[a][op.channel]     \* mutant
IsNonceAcceptable(a, op) == op.sequence = nonce[a][op.channel]

KeepEscape(a) == UNCHANGED escapeTriggeredAt                      \* mutant
CancelEscape(a) == escapeTriggeredAt' = [escapeTriggeredAt EXCEPT ![a] = 0]

ExecuteUserOp(a, who, op) ==
  /\ Exists(a)
  /\ AssertNoMarketEscrow(a)
  /\ now <= op.deadline
  /\ IsNonceAcceptable(a, op)
  /\ op.sequence < MaxSeq                                  \* bound of the model
  /\ module["verifier"][a] = Zero => who = backupOwner[a]
  /\ IsEscapeActive(a) => who = backupOwner[a]
  /\ CancelEscape(a)
  /\ nonce' = [nonce EXCEPT ![a][op.channel] = @ + 1]
  /\ UNCHANGED <<now, module, backupOwner, escapeLastInitiated, pendingVars, escrow,
                 metadataUri, pluginConfig>>

(***************************************************************************)
(* The escape hatch.                                                       *)
(***************************************************************************)
EscapeTimelock(a) == Preimage[a].timelock

InitiateEscape(a, who) ==
  /\ AssertBackupOwner(a, who)
  /\ AssertNoMarketEscrow(a)
  /\ escapeLastInitiated[a] # 0 => now >= escapeLastInitiated[a] + EscapeCooldown
  /\ escapeTriggeredAt' = [escapeTriggeredAt EXCEPT ![a] = now]
  /\ escapeLastInitiated' = [escapeLastInitiated EXCEPT ![a] = now]
  /\ UNCHANGED <<now, module, backupOwner, pendingVars, escrow, metadataUri, nonce,
                 pluginConfig>>

ClearHookOnly(a) == Cleared(pluginConfig[a], module["hook"][a])    \* mutant

\* Both slots' plugins are told to forget the account.
ClearPlugins(a) == Cleared(Cleared(pluginConfig[a], module["verifier"][a]), module["hook"][a])

\* The markers FinalizeEscape and SettleMarketEscrow both delete.
ResetEscape(a) ==
  /\ escapeTriggeredAt' = [escapeTriggeredAt EXCEPT ![a] = 0]
  /\ escapeLastInitiated' = [escapeLastInitiated EXCEPT ![a] = 0]

WipeCallsOnly(a) ==                                               \* mutant
  /\ pendingCall' = [s \in Slots |-> [pendingCall[s] EXCEPT ![a] = NoCall]]
  /\ metadataUri' = [metadataUri EXCEPT ![a] = FALSE]
  /\ UNCHANGED pendingUpdate

WipePending(a) ==
  /\ pendingUpdate' = [s \in Slots |-> [pendingUpdate[s] EXCEPT ![a] = NoUpdate]]
  /\ pendingCall' = [s \in Slots |-> [pendingCall[s] EXCEPT ![a] = NoCall]]
  /\ metadataUri' = [metadataUri EXCEPT ![a] = FALSE]

FinalizeEscape(a, who, newVerifier, params) ==
  /\ AssertBackupOwner(a, who)
  /\ AssertNoMarketEscrow(a)
  /\ IsEscapeActive(a)
  /\ now >= escapeTriggeredAt[a] + EscapeTimelock(a)
  /\ module' = [module EXCEPT !["verifier"][a] = newVerifier, !["hook"][a] = Zero]
  /\ pluginConfig' = [pluginConfig EXCEPT ![a] = Keyed(ClearPlugins(a), newVerifier, params)]
  /\ ResetEscape(a)
  /\ WipePending(a)
  /\ UNCHANGED <<now, backupOwner, escrow, nonce>>

(***************************************************************************)
(* Market escrow.  caller is Runtime.CallingScriptHash.                    *)
(***************************************************************************)
EnterMarketEscrow(a, who, caller, listing) ==
  /\ AssertBackupOwner(a, who)
  /\ AssertNoMarketEscrow(a)
  /\ listing > 0
  /\ escrow' = [escrow EXCEPT ![a].market = caller, ![a].listing = listing]
  /\ UNCHANGED <<now, module, backupOwner, escapeVars, pendingVars, metadataUri, nonce,
                 pluginConfig>>

OnlyEscrowMarket(a, caller, listing) ==                           \* mutant
  escrow[a].market # Zero /\ caller = escrow[a].market

AssertEscrowMarket(a, caller, listing) ==
  /\ escrow[a].market # Zero
  /\ caller = escrow[a].market
  /\ listing = escrow[a].listing

ClearTwoKeys(a) ==                                                \* mutant
  escrow' = [escrow EXCEPT ![a].market = Zero, ![a].listing = 0]
ClearMarketEscrow(a) == escrow' = [escrow EXCEPT ![a] = NoEscrow]

\* The notification of the market (abandonListing) is part of AddressMarket.
CancelMarketEscrow(a, caller, listing) ==
  /\ AssertEscrowMarket(a, caller, listing)
  /\ ClearMarketEscrow(a)
  /\ UNCHANGED <<now, module, backupOwner, escapeVars, pendingVars, metadataUri, nonce,
                 pluginConfig>>

SettleMarketEscrow(a, caller, listing, newBackupOwner) ==
  /\ AssertEscrowMarket(a, caller, listing)
  /\ newBackupOwner # Zero
  /\ Exists(a)
  /\ backupOwner' = [backupOwner EXCEPT ![a] = newBackupOwner]
  /\ module' = [s \in Slots |-> [module[s] EXCEPT ![a] = Zero]]
  /\ pluginConfig' = [pluginConfig EXCEPT ![a] = ClearPlugins(a)]
  /\ ResetEscape(a)
  /\ WipePending(a)
  /\ ClearMarketEscrow(a)
  /\ UNCHANGED <<now, nonce>>

\* The owner's way out of an escrow; asking again restarts the timer.
InitiateMarketEscrowCancel(a, who) ==
  /\ AssertBackupOwner(a, who)
  /\ IsMarketEscrowActive(a)
  /\ escrow' = [escrow EXCEPT ![a].cancelAt = now]
  /\ UNCHANGED <<now, module, backupOwner, escapeVars, pendingVars, metadataUri, nonce,
                 pluginConfig>>

ForceCancelMarketEscrow(a, who) ==
  /\ AssertBackupOwner(a, who)
  /\ IsMarketEscrowActive(a)
  /\ escrow[a].cancelAt # 0
  /\ now >= escrow[a].cancelAt + OwnerCancelTimelock
  /\ ClearMarketEscrow(a)
  /\ UNCHANGED <<now, module, backupOwner, escapeVars, pendingVars, metadataUri, nonce,
                 pluginConfig>>

(***************************************************************************)
(* The specification.  A block is at least a tick after the one before;    *)
(* the transactions of a block share its time.                             *)
(***************************************************************************)
Tick ==
  /\ now < MaxTime
  /\ now' = now + 1
  /\ UNCHANGED <<module, backupOwner, escapeVars, pendingVars, escrow, metadataUri, nonce,
                 pluginConfig>>

RegistrationNext(who) ==
  \/ \E a \in Accounts : RegisterAccount(a, who)
  \/ \E ids \in SUBSET Accounts : RegisterAccounts(ids, who)

ConfigNext(a, who) ==
  \/ \E h \in Hooks \cup {Zero} : UpdateHook(a, who, h)
  \/ \E v \in Verifiers \cup {Zero}, p \in BOOLEAN : UpdateVerifier(a, who, v, p)
  \/ ConfirmHookUpdate(a, who)
  \/ ConfirmVerifierUpdate(a, who)
  \/ CancelHookUpdate(a, who)
  \/ CancelVerifierUpdate(a, who)
  \/ \E b \in BOOLEAN : SetMetadataUri(a, who, b)
  \/ \E c \in ModuleCalls : CallVerifier(a, who, c)
  \/ \E c \in ModuleCalls : CallHook(a, who, c)

EscapeNext(a, who) ==
  \/ InitiateEscape(a, who)
  \/ \E v \in Verifiers \cup {Zero}, p \in BOOLEAN : FinalizeEscape(a, who, v, p)

OwnerEscrowNext(a, who) ==
  \/ InitiateMarketEscrowCancel(a, who)
  \/ ForceCancelMarketEscrow(a, who)

MarketNext(a, m) ==
  \E l \in 1..MaxListing :
    \/ \E who \in Owners : EnterMarketEscrow(a, who, m, l)
    \/ CancelMarketEscrow(a, m, l)
    \/ \E o \in Owners : SettleMarketEscrow(a, m, l, o)

Next ==
  \/ Tick
  \/ \E who \in Owners : RegistrationNext(who)
  \/ \E a \in Accounts, who \in Owners :
       ConfigNext(a, who) \/ EscapeNext(a, who) \/ OwnerEscrowNext(a, who)
  \/ \E a \in Accounts, who \in Owners \cup {Zero}, op \in UserOps : ExecuteUserOp(a, who, op)
  \/ \E a \in Accounts, m \in Markets : MarketNext(a, m)

Spec == Init /\ [][Next]_vars

(***************************************************************************)
(* Properties.                                                             *)
(***************************************************************************)

\* Every variable keeps its type; a slot only ever holds a plugin of its kind.
TypeOK ==
  /\ now \in Times \ {0}
  /\ module \in [Slots -> [Accounts -> Plugins \cup {Zero}]]
  /\ \A s \in Slots, a \in Accounts : module[s][a] \in PluginsOf(s) \cup {Zero}
  /\ backupOwner \in [Accounts -> Owners \cup {Zero}]
  /\ escapeTriggeredAt \in [Accounts -> Times]
  /\ escapeLastInitiated \in [Accounts -> Times]
  /\ pendingUpdate \in [Slots -> [Accounts -> PendingConfigUpdate]]
  /\ \A s \in Slots, a \in Accounts : pendingUpdate[s][a].new \in PluginsOf(s) \cup {Zero}
  /\ pendingCall \in [Slots -> [Accounts -> PendingModuleCall]]
  /\ escrow \in [Accounts -> MarketEscrow]
  /\ metadataUri \in [Accounts -> BOOLEAN]
  /\ nonce \in [Accounts -> [Channels -> 0..MaxSeq]]
  /\ pluginConfig \in [Accounts -> SUBSET Plugins]

\* A plugin that is not installed for an account holds no configuration of it, unless its
\* clearAccount failed: every path that takes a plugin out of a slot (ConfirmVerifierUpdate,
\* ConfirmHookUpdate, FinalizeEscape, SettleMarketEscrow) also clears it.
NoOrphanConfig ==
  \A a \in Accounts :
    pluginConfig[a] \subseteq NoClear \cup {module["verifier"][a], module["hook"][a]}

\* A staged update always has an installed plugin to replace.  Otherwise UpdateVerifier and
\* UpdateHook could fill the empty slot at once and the old update still be confirmed over it.
PendingNeedsModule ==
  \A s \in Slots, a \in Accounts : pendingUpdate[s][a] # NoUpdate => module[s][a] # Zero

\* A running escape was started by the last InitiateEscape, so the cooldown marker that gates a
\* restart can be neither missing nor older than the escape it protects.
EscapeStamped ==
  \A a \in Accounts : escapeTriggeredAt[a] \in {0, escapeLastInitiated[a]}

\* The escrow's three keys live and die together.  In particular no owner-cancel marker outlives
\* its escrow: it would let the owner force-cancel the next sale without waiting.
NoStaleEscrowMarker ==
  \A a \in Accounts : IsMarketEscrowActive(a) \/ escrow[a] = NoEscrow

\* Every marker belongs to what it marks: a staged update to an installed plugin, the cooldown's
\* stamp to the escape that runs, the owner's cancel request to the escrow it was made in.
MarkersBelong == PendingNeedsModule /\ EscapeStamped /\ NoStaleEscrowMarker

\* The shell a buyer is promised: nothing of the seller's is left on the account.
CleanShell(a) ==
  /\ \A s \in Slots :
       module[s][a] = Zero /\ pendingUpdate[s][a] = NoUpdate /\ pendingCall[s][a] = NoCall
  /\ escapeTriggeredAt[a] = 0 /\ escapeLastInitiated[a] = 0
  /\ escrow[a] = NoEscrow /\ ~metadataUri[a]
  /\ pluginConfig[a] \subseteq NoClear

\* Account ids are public before they are registered.  Nothing can be planted under one: whatever
\* is called before, registration finds no module, marker, nonce or plugin configuration there.
BlankUntilRegistered ==
  \A a \in Accounts : ~Exists(a) =>
    CleanShell(a) /\ pluginConfig[a] = {} /\ \A c \in Channels : nonce[a][c] = 0

UpdateMatured(s, a) ==
  /\ pendingUpdate[s][a] # NoUpdate
  /\ now >= pendingUpdate[s][a].at + ConfigUpdateTimelock
CallMatured(s, a) ==
  /\ pendingCall[s][a].module = module[s][a]
  /\ now >= pendingCall[s][a].at + ConfigUpdateTimelock
EscapeMatured(a) == IsEscapeActive(a) /\ now >= escapeTriggeredAt[a] + EscapeTimelock(a)

\* The step touches the plugin installed in slot s of account a.
TouchesPlugin(s, a) ==
  LET p == module[s][a] IN
  /\ p # Zero
  /\ \/ module'[s][a] # p
     \/ p \in pluginConfig[a] /\ p \notin pluginConfig'[a]
     \/ p \notin pluginConfig[a] /\ p \in pluginConfig'[a]

\* An installed plugin is replaced, and its configuration of the account touched, only after a
\* timelock the owner could watch: the slot's staged update, the slot's staged call to that very
\* plugin, a full escape, or the sale of the account out of escrow.
AnnouncedStep ==
  \A s \in Slots, a \in Accounts :
    TouchesPlugin(s, a) =>
      UpdateMatured(s, a) \/ CallMatured(s, a) \/ EscapeMatured(a) \/ IsMarketEscrowActive(a)
NoUnannouncedChange == [][AnnouncedStep]_vars

\* What is staged is never altered in place and never backdated: a staged update is first
\* withdrawn or confirmed, and a staged update or call carries the time it was staged at.
HonestStep ==
  \A s \in Slots, a \in Accounts :
    /\ pendingUpdate'[s][a] # pendingUpdate[s][a] =>
         \/ pendingUpdate'[s][a] = NoUpdate
         \/ pendingUpdate[s][a] = NoUpdate /\ pendingUpdate'[s][a].at = now
    /\ pendingCall'[s][a] # pendingCall[s][a] =>
         pendingCall'[s][a] = NoCall \/ pendingCall'[s][a].at = now
StagingIsHonest == [][HonestStep]_vars

ControlOf(a) ==
  <<backupOwner[a], module["verifier"][a], module["hook"][a], pluginConfig[a],
    escapeTriggeredAt[a], pendingCall["verifier"][a], pendingCall["hook"][a], nonce[a]>>

\* An account in escrow is sold as the buyer saw it: until the sale nothing that controls it
\* changes (no operation, escape, rotation or plugin call), a staged update can only be withdrawn,
\* and the sale itself hands over a clean shell.
FrozenStep ==
  \A a \in Accounts : IsMarketEscrowActive(a) =>
    \/ /\ ControlOf(a)' = ControlOf(a)
       /\ \A s \in Slots : pendingUpdate'[s][a] \in {pendingUpdate[s][a], NoUpdate}
    \/ CleanShell(a)'
EscrowFreezesUntilCleanSale == [][FrozenStep]_vars

\* No user operation runs under a ticking escape: the step that advances a nonce ends the escape,
\* so whoever can still operate the account cannot do so and let the escape mature as well.
EscapeStep == \A a \in Accounts : nonce'[a] # nonce[a] => escapeTriggeredAt'[a] = 0
OperationEndsEscape == [][EscapeStep]_vars

\* The backup owner changes in one way only: by a sale out of an escrow the old owner entered,
\* and the new owner gets a clean shell.
OwnerStep ==
  \A a \in Accounts :
    Exists(a) /\ backupOwner'[a] # backupOwner[a] => IsMarketEscrowActive(a) /\ CleanShell(a)'
OwnerChangesOnlyBySale == [][OwnerStep]_vars
=============================================================================

--------------------------- MODULE UserOpExecution ---------------------------
(***************************************************************************)
(* contracts/UnifiedSmartWallet.Execution.cs with the calls it makes.  In  *)
(* AbstractAccount a user operation is one step; here it is the frame of a *)
(* call stack that is suspended while the hook's preExecute, the target,   *)
(* the hook's postExecute and the verifier's postExecute run.  The code    *)
(* that runs there is foreign, it may call any entry point of the core     *)
(* (only ExecuteUserOp asks for the execution lock), for this account or   *)
(* another one, and it may throw, which undoes what its frame wrote.       *)
(*                                                                         *)
(* A transaction that faults altogether leaves the storage it found, a     *)
(* state the model already has.  Whose witnesses a transaction carries is  *)
(* left open.  Plugin calls of the configuration entry points stay atomic. *)
(***************************************************************************)
EXTENDS AbstractAccount, Sequences

CONSTANTS
  Targets,      \* contracts a user operation can call
  Core,         \* this contract
  MaxDepth      \* bound of the model: nested user operations

ASSUME TargetAssumption == Zero \notin Targets \cup {Core} /\ MaxDepth \in Nat \ {0}

VARIABLES
  lock,              \* Prefix_ExecutionLock: the accounts that hold one
  verifyContext,     \* Prefix_VerifyContext
  hookContext,       \* Prefix_HookExecutionContext
  verifierContext,   \* Prefix_VerifierExecutionContext
  scopeTarget,       \* Prefix_VerifyScopeTarget
  calls              \* the suspended ExecuteUserOp frames, innermost first

contexts == <<verifyContext, hookContext, verifierContext>>
executionVars == <<lock, contexts, scopeTarget, calls>>

NoContext == [a \in Accounts |-> Zero]

ExecutionInit ==
  /\ Init
  /\ lock = {}
  /\ verifyContext = NoContext /\ hookContext = NoContext /\ verifierContext = NoContext
  /\ scopeTarget = NoContext
  /\ calls = <<>>

Frames == {calls[i] : i \in DOMAIN calls}

Contracts == Plugins \cup Targets \cup {Core}

(***************************************************************************)
(* What contracts ask the core.  "caller" is the contract that asks; the   *)
(* plugin of an operation also names the contract "by" that called it: the *)
(* core, or the root plugin of a chain (MultiHook and MultiSig call their  *)
(* children).  "scoped" are the contracts T for which the transaction has  *)
(* a signer whose witness is allowed to this core and to T alone.          *)
(***************************************************************************)
VerifyScopedTransactionSigner(a, scoped) == scopeTarget[a] # Zero /\ scopeTarget[a] \in scoped

Verify(trigger, a, caller, scoped) ==
  IF trigger = "Application" /\ verifyContext[a] # Zero THEN caller = verifyContext[a]
  ELSE VerifyScopedTransactionSigner(a, scoped)

CanExecuteHook(a, by, caller) ==
  /\ hookContext[a] # Zero
  /\ hookContext[a] = IF by = Core THEN caller ELSE by

CanExecuteVerifier(a, by, caller) ==
  /\ verifierContext[a] # Zero
  /\ verifierContext[a] = IF by = Core THEN caller ELSE by

\* The contract's admin says, for a batch of accounts, to which contract their signers are scoped.
SetVerifyScopeTargets(accounts, target) ==
  /\ accounts # {}
  /\ scopeTarget' = [a \in Accounts |-> IF a \in accounts THEN target ELSE scopeTarget[a]]
  /\ UNCHANGED <<vars, lock, contexts, calls>>

(***************************************************************************)
(* ExecuteUserOp.  The frame keeps the verifier and the hook it has read   *)
(* at the start; "todo" is what it still calls, the running call first.    *)
(***************************************************************************)
IsExecutionActive(a) == a \in lock
NoHookRunning(a) == hookContext[a] = Zero                         \* mutant
AssertNotExecuting(a) == ~IsExecutionActive(a)

PhasesOf(hook, verifier) ==
  (IF hook = Zero THEN <<>> ELSE <<"preExecute">>)
    \o <<"target">>
    \o (IF hook = Zero THEN <<>> ELSE <<"postHook">>)
    \o (IF verifier = Zero THEN <<>> ELSE <<"postVerifier">>)

\* What a throw out of the frame goes back to: everything the core and its plugins store.
CurrentStorage ==
  [module |-> module, backupOwner |-> backupOwner,
   escapeTriggeredAt |-> escapeTriggeredAt, escapeLastInitiated |-> escapeLastInitiated,
   pendingUpdate |-> pendingUpdate, pendingCall |-> pendingCall, escrow |-> escrow,
   metadataUri |-> metadataUri, nonce |-> nonce, pluginConfig |-> pluginConfig,
   lock |-> lock, verifyContext |-> verifyContext, hookContext |-> hookContext,
   verifierContext |-> verifierContext, scopeTarget |-> scopeTarget]

Storage ==
  [module : [Slots -> [Accounts -> Plugins \cup {Zero}]],
   backupOwner : [Accounts -> Owners \cup {Zero}],
   escapeTriggeredAt : [Accounts -> Times], escapeLastInitiated : [Accounts -> Times],
   pendingUpdate : [Slots -> [Accounts -> PendingConfigUpdate]],
   pendingCall : [Slots -> [Accounts -> PendingModuleCall]],
   escrow : [Accounts -> MarketEscrow], metadataUri : [Accounts -> BOOLEAN],
   nonce : [Accounts -> [Channels -> 0..MaxSeq]], pluginConfig : [Accounts -> SUBSET Plugins],
   lock : SUBSET Accounts, verifyContext : [Accounts -> Targets \cup {Zero}],
   hookContext : [Accounts -> Hooks \cup {Zero}],
   verifierContext : [Accounts -> Verifiers \cup {Zero}],
   scopeTarget : [Accounts -> Targets \cup {Zero}]]

Phases == {"preExecute", "target", "postHook", "postVerifier"}

Frame ==
  [account : Accounts, op : UserOps, target : Targets,
   hook : Hooks \cup {Zero}, verifier : Verifiers \cup {Zero},
   todo : Seq(Phases) \ {<<>>}, saved : Storage]

\* The target's authority starts when the target is called.
SetVerifyContext(frame) ==
  verifyContext' = IF Head(frame.todo) = "target"
                   THEN [verifyContext EXCEPT ![frame.account] = frame.target]
                   ELSE verifyContext

BeginUserOp(a, who, op, target) ==
  LET frame == [account |-> a, op |-> op, target |-> target,
                hook |-> module["hook"][a], verifier |-> module["verifier"][a],
                todo |-> PhasesOf(module["hook"][a], module["verifier"][a]),
                saved |-> CurrentStorage]
  IN
  /\ AssertNotExecuting(a)
  /\ Len(calls) < MaxDepth                                 \* bound of the model
  /\ ExecuteUserOp(a, who, op)
  /\ lock' = lock \cup {a}
  /\ verifierContext' = [verifierContext EXCEPT ![a] = frame.verifier]
  /\ hookContext' = [hookContext EXCEPT ![a] = frame.hook]
  /\ SetVerifyContext(frame)
  /\ calls' = <<frame>> \o calls
  /\ UNCHANGED scopeTarget

\* The running call returns and another one follows.
NextPhase ==
  /\ calls # <<>>
  /\ LET frame == [Head(calls) EXCEPT !.todo = Tail(@)] IN
       /\ frame.todo # <<>>
       /\ SetVerifyContext(frame)
       /\ calls' = <<frame>> \o Tail(calls)
  /\ UNCHANGED <<vars, lock, hookContext, verifierContext, scopeTarget>>

ClearUnlessReplaced(f) ==                                         \* mutant
  /\ verifyContext' = [verifyContext EXCEPT ![f.account] = Zero]
  /\ hookContext' = IF module["hook"][f.account] = Zero THEN hookContext
                    ELSE [hookContext EXCEPT ![f.account] = Zero]
  /\ verifierContext' = [verifierContext EXCEPT ![f.account] = Zero]

\* The finally blocks.  They go by the frame's copy of the account, not by what is stored now.
ClearContexts(f) ==
  /\ verifyContext' = [verifyContext EXCEPT ![f.account] = Zero]
  /\ hookContext' = IF f.hook = Zero THEN hookContext
                    ELSE [hookContext EXCEPT ![f.account] = Zero]
  /\ verifierContext' = IF f.verifier = Zero THEN verifierContext
                        ELSE [verifierContext EXCEPT ![f.account] = Zero]

EndUserOp ==
  /\ calls # <<>>
  /\ LET f == Head(calls) IN
       /\ Tail(f.todo) = <<>>
       /\ ClearContexts(f)
       /\ lock' = lock \ {f.account}
  /\ calls' = Tail(calls)
  /\ UNCHANGED <<vars, scopeTarget>>

\* The hook, the target or the verifier throws.  The frame's caller, if it catches, finds the
\* storage as it was before the call.
ThrowUserOp ==
  /\ calls # <<>>
  /\ LET s == Head(calls).saved IN
       /\ module' = s.module /\ backupOwner' = s.backupOwner
       /\ escapeTriggeredAt' = s.escapeTriggeredAt
       /\ escapeLastInitiated' = s.escapeLastInitiated
       /\ pendingUpdate' = s.pendingUpdate /\ pendingCall' = s.pendingCall
       /\ escrow' = s.escrow /\ metadataUri' = s.metadataUri
       /\ nonce' = s.nonce /\ pluginConfig' = s.pluginConfig
       /\ lock' = s.lock /\ verifyContext' = s.verifyContext
       /\ hookContext' = s.hookContext /\ verifierContext' = s.verifierContext
       /\ scopeTarget' = s.scopeTarget
  /\ calls' = Tail(calls)
  /\ UNCHANGED now

(***************************************************************************)
(* The specification.  Everything but a new block may happen inside an     *)
(* operation as well as between transactions.                              *)
(***************************************************************************)
CoreCall ==
  /\ \/ \E who \in Owners : RegistrationNext(who)
     \/ \E a \in Accounts, who \in Owners :
          ConfigNext(a, who) \/ EscapeNext(a, who) \/ OwnerEscrowNext(a, who)
     \/ \E a \in Accounts, m \in Markets : MarketNext(a, m)
  /\ UNCHANGED executionVars

UserOpCall ==
  \E a \in Accounts, who \in Owners \cup {Zero}, op \in UserOps, target \in Targets :
    BeginUserOp(a, who, op, target)

AdminCall == \E accounts \in SUBSET Accounts, t \in Targets : SetVerifyScopeTargets(accounts, t)

NewBlock == calls = <<>> /\ Tick /\ UNCHANGED executionVars

ExecutionNext ==
  CoreCall \/ UserOpCall \/ AdminCall \/ NextPhase \/ EndUserOp \/ ThrowUserOp \/ NewBlock

ExecutionSpec == ExecutionInit /\ [][ExecutionNext]_<<vars, executionVars>>

(***************************************************************************)
(* Properties.                                                             *)
(***************************************************************************)

\* The frames, with the storage each would go back to, and the contexts keep their types, and so
\* does everything the core stores, inside an operation and after a throw as well.
ExecutionTypeOK ==
  /\ TypeOK
  /\ lock \in SUBSET Accounts
  /\ verifyContext \in [Accounts -> Targets \cup {Zero}]
  /\ hookContext \in [Accounts -> Hooks \cup {Zero}]
  /\ verifierContext \in [Accounts -> Verifiers \cup {Zero}]
  /\ scopeTarget \in [Accounts -> Targets \cup {Zero}]
  /\ calls \in Seq(Frame)

\* The lock is held by the accounts on the call stack, none of which is there twice: an operation
\* never runs inside another one of its own account, however deep, and no lock stays behind.
LockIsCallStack ==
  /\ lock = {f.account : f \in Frames}
  /\ \A i, j \in DOMAIN calls : calls[i].account = calls[j].account => i = j

\* An account's authority follows its own running operation, for whatever contract asks and whomever
\* it names.  From the moment the target is called the target alone is answered, and a signer's scope
\* counts for nothing; before and without an operation it is all that counts, and outside a call
\* (the Verification trigger) as well.  A plugin that names the core must be the operation's hook or
\* verifier itself, and one that names another contract is believed exactly if that is the operation's
\* hook or verifier.  No contract of a nested operation takes the authority over, nor does anyone keep
\* it when the operation is over, though the account's modules may have changed meanwhile.
AuthorityFollowsOperation ==
  \A a \in Accounts, caller \in Contracts :
    LET own == {f \in Frames : f.account = a}
        answered == {f \in own : Head(f.todo) # "preExecute"}
    IN
    /\ \A scoped \in SUBSET Targets :
         /\ Verify("Application", a, caller, scoped) <=>
              IF answered = {} THEN scopeTarget[a] \in scoped
              ELSE \E f \in answered : f.target = caller
         /\ Verify("Verification", a, caller, scoped) <=> scopeTarget[a] \in scoped
    /\ \A by \in Contracts :
         LET root == IF by = Core THEN caller ELSE by IN
         /\ CanExecuteHook(a, by, caller) <=> \E f \in own : f.hook = root
         /\ CanExecuteVerifier(a, by, caller) <=> \E f \in own : f.verifier = root

\* An operation's nonce stays spent while it runs, whatever is called and undone inside it: the
\* account's channel stands one past it, so neither a replay nor the successor can have run.
NonceStaysSpent ==
  \A f \in Frames : nonce[f.account][f.op.channel] = f.op.sequence + 1

\* docs/PROTOCOL_COMPLETENESS_AUDIT.md: "Global execution lock across all operations.  Fails
\* immediately if any op is in-flight."  The lock is per account.
GlobalExecutionLock == Len(calls) <= 1
=============================================================================

# A verification project for the Neo abstract account

This directory holds TLA+ specifications of the abstract-account protocol of this repository and of
the services and the web interface in front of it, the TLC configurations that check them on small instances, and proofs for TLAPS. Paths below are
relative to the repository's root. `PROJECT.json` is the index: every run, the mutation each
property is known to catch, the source lines behind every definition, and the hazards the
properties were chosen for.

- [1. The system](#1-the-system)
- [2. Hard behaviours and what makes the system correct](#2-hard-behaviours-and-what-makes-the-system-correct)
- [3. The modules and the code](#3-the-modules-and-the-code)
- [4. What the runs check](#4-what-the-runs-check)
- [5. What is proved](#5-what-is-proved)
- [6. Where code and documents differ](#6-where-code-and-documents-differ)
- [7. Assumptions and what is left out](#7-assumptions-and-what-is-left-out)
- [8. Plan](#8-plan)

## 1. The system

An *abstract account* is an id (the hash of its registration parameters) for which a core contract
on Neo N3 keeps a record: an optional verifier plugin that decides who may operate the account, an
optional hook plugin that watches operations, a native backup owner, and an escape timelock. Anyone
may relay a signed *user operation*; the core checks it and calls the target with the account's
authority. Around the contracts there are a relay that pays for operations, a database of shared
drafts with a signed API for the operators of a draft, and a web interface that composes, signs,
checks and submits them. The project covers the contracts' logic and the concurrent part of the
rest: whatever keeps state over a wait.

| Component (source) | State | Operations | Modelled in |
|---|---|---|---|
| **Account core** `contracts/UnifiedSmartWallet.{Accounts,Escape,State,Internal,Models}.cs` | per account: verifier, hook, owner, escape marker and cooldown stamp, staged updates and staged plugin calls, metadata, nonce channels | register (single, batch); update/confirm/cancel verifier and hook; staged configuration calls; escape initiate/finalize; metadata | `AbstractAccount` |
| **Market escrow of the core** `UnifiedSmartWallet.MarketEscrow.cs` | market, listing and owner-cancel marker per account | enter, cancel, settle (by the market); initiate and force cancel (by the owner) | `AbstractAccount`, `AddressMarket` |
| **User operation execution** `UnifiedSmartWallet.{Execution,VerifyContext}.cs` | execution lock, three contexts (verify, hook, verifier) and the scope target per account | ExecuteUserOp(s), `Verify`, `CanExecuteHook`, `CanExecuteVerifier`; set scope targets (by the admin) | `UserOpExecution` |
| **Address market** `contracts/market/AAAddressMarket.cs` | allowed core, listings, deposits of buyers, in-flight counts | create, reprice, cancel, pay, settle, refund, abandon | `AddressMarket`, `AtomicSale` |
| **Sponsored execution and paymaster** `UnifiedSmartWallet.Paymaster.cs`, `contracts/paymaster/Paymaster.cs` | sponsors' deposits, policies per account or for any, daily and total counters | deposit, withdraw, set/revoke policy, preview, execute sponsored, settle | `Paymaster` |
| **Authority timelocks** `UnifiedSmartWallet.Admin.cs`, `contracts/hooks/HookAuthority.cs`, `verifiers/VerifierAuthority.cs`, `paymaster/PaymasterAuthority.cs`, market lines 95-168 | admin, core binding, pending changes with a 7-day timelock | propose, confirm, cancel | not modelled |
| **Spending hooks** `contracts/hooks/{DailyLimitHook,TokenRestrictedHook,MultiHook}.cs` | limits, spending windows, snapshots of balances | preExecute, postExecute, configuration | not modelled |
| **Policy hooks** `contracts/hooks/{WhitelistHook,NeoDIDCredentialHook}.cs` | configured lists | preExecute, configuration | a refusing hook in `UserOpExecution` |
| **Stateful verifiers** `contracts/verifiers/{SessionKeyVerifier,SubscriptionVerifier,MultiSigVerifier}.cs` | session key and spending, charge counters and periods, members | validate, postExecute, configuration | not modelled |
| **Signature verifiers** the other `contracts/verifiers/*.cs` | a key per account | validate | not modelled: cryptography and encoding |
| **Social recovery verifier** `contracts/recovery/*.cs` | per account: owner, factors, threshold, timelock, oracle, recovery nonce, pending recovery, approvals, spent nullifiers, session; oracle requests; credits | set up, reconfigure, submit tickets, request and answer, finalize, cancel, revoke, fund | `SocialRecovery`, `GuardedRecovery` |
| **Relay** `frontend/api/{relay-transaction,relayHelpers,requestDurability}.js` | stored answers and locks that expire, in Upstash; nothing in the process | simulate or submit a signed invocation | `Relay` |
| **Operator API** `frontend/api/{draft-operator,operatorMutationHelpers,requestDurability}.js` | as the relay | claim a draft, six kinds of mutation | `SharedDraft`, `DraftLog` |
| **Draft database** `supabase/migrations/*.sql` | one row per draft: key and counter of the operator, status, links, signatures, metadata | functions of collaborators (append a signature, append an activity), of operators (set the status or the check, append a receipt, rotate either link) and of anybody (patch the metadata); conditional updates of the API | `SharedDraft` |
| **Draft and relay client** `frontend/src/features/operations/*`, `views/TransactionInfoView.vue`, `services/walletService.js` (relay, broadcast) | the staged operation, collected signatures, the last check, the dialog, what is pending | stage, sign, persist, load, check, confirm, submit; the transport of an operator's mutation | `SharedDraft`, `Workspace` |
| **Wallet session** `frontend/src/services/walletService.js`, `composables/useWalletConnection.js`, `utils/wallet.js` | session state and account, their copy in the browser's storage, one reconciliation under way | restore, connect, disconnect, reconcile, account and network events | `WalletSession` |
| **Identity API** `frontend/api/{did-*,morpheus-*}.js` | none | proxy to external services | not modelled |
| **SDK, other panels, tests, scripts, docs** `sdk/js`, `shared`, `frontend/src`, `tests`, ... | none of the protocol | | read as reference |

**How they interact.** The core calls plugins (`validateSignature`, `preExecute`, `postExecute`,
`setPublicKey`, `clearAccount`), targets, the market's `abandonListing` and the paymaster's
`settleReimbursement`; each callee may call the core back in the same transaction. The market calls
`enterMarketEscrow`, `cancelMarketEscrow` and `settleMarketEscrow` of the core and transfers GAS,
which runs a receiving contract's `onNEP17Payment`. The recovery verifier asks the core once, at set-up,
who the backup owner is, sends requests to an oracle and is called back by it. Contracts share
nothing else: they see each other through calls only, and a transaction either commits or leaves no
trace.

Off the chain everything is a call that takes its time. The browser asks the wallets for signatures
and accounts, the relay for a simulation or a submission, the operator API for mutations, and the
database directly for what collaborators may do. The relay and the API are functions without memory
that share the idempotency store, the relay asks the node and the paymaster's service, the API reads
a row and later updates it on conditions. Wallets, node, paymaster's service, store and database are
outside; they are modelled by what the code allows them to answer.

## 2. Hard behaviours and what makes the system correct

Transactions are serial, so there are no races between threads. What is hard is *inside* a
transaction (a callee that calls back, a nested call that throws and is caught) and *across* many
transactions (staged changes, timelocks and escrows that overlap in orders nobody wrote a test for).
Off the chain it is the opposite: any number of requests and handlers interleave at every wait, they
act on what they read before it, they are given up, repeated, cut off, and answered late.

*Account core.* Staged updates, staged calls, escapes, operations and escrows overlap freely. An
installed plugin changes only after a timelock that ran in the open; no configuration of a removed
plugin stays behind; an escape and an operation exclude each other; escape and escrow leave
nothing of the old controller; nothing can be planted under an id before it is registered.

*Execution.* Only `ExecuteUserOp` asks for the lock; every other entry point is callable from
inside an operation and may replace the modules under it. The lock must be the call stack, the
contexts must answer for exactly the running operation (its target, its hook and verifier and the chain
below them), also beside a signer's scope, and the nonce must stay spent, although contexts are cleared by a copy of the account and inner frames roll back.

*Market.* The seller is paid before the account moves, and may be a contract that acts while it is
paid. Escrow and listing must agree, the seller paid must be the owner who loses the account, the
GAS held must be the deposits owed. The owner must always get out of an escrow, a depositor always
get the money back.

*Paymaster.* The operation that is to be reimbursed runs first and can change the policy, the
deposit and the counters, or be undone. Deposits must stay backed and every standing policy must
keep its budgets, whatever is shadowed, revoked and set again around it.

*Social recovery.* Tickets are signed off-chain and arrive in any order, directly or as late answers
of an oracle that may no longer be the account's. Votes of an attempt that is over, of factors that
are no longer configured, or of a ticket that was used before must not count, an owner can always
call an attempt off, and a session must not outlive the owner who suffered it.

*Operator API and drafts.* A mutation is checked against a row that was read before, and writes
values made from that row. Between the two another browser, a collaborator or a rotation of the link
may write. Every mutation must be applied whole and once, in the order of the counter, by the key
that holds the draft; collected signatures must survive; "done" must be true, also when it is a
stored answer that is repeated or when the request was given up.

*Relay.* A lock may run out while its holder still works, a holder deletes whatever lock is there
when it ends, and the function may die at any call. The relay's money must only be spent on an
approval of just the invocation that is sent and within every ceiling, by the fees that are really
paid; an answer must say what the request did.

*Workspace.* Composing goes on while a signature, a check, a submission or a persist is under way,
and each of them writes into what is there by then. What is submitted must be what the relay was
asked about.

*Wallet session.* The wallet answers and reports when it likes. A late answer must neither bring an
ended session back nor make an unknown account count as verified, and a pending session must not
stay so because its pass was an older one.

The list of single hazards, each at its line and with the properties aimed at it, is in
`PROJECT.json`; those without a property say why.

## 3. The modules and the code

Conventions. A failed `ExecutionEngine.Assert` reverts the whole transaction, so an entry point is
one action whose guard is the conjunction of its asserts, in whatever order. `who` is an address
whose witness the transaction carries; `caller` is `Runtime.CallingScriptHash`. An absent storage
key is the value the code reads for it (`Zero` for a hash, `0` for a time or a number).
`UnifiedSmartWallet` treats verifier and hook by twin code: the models have one definition per
operation with a `slot` parameter and one name per entry point.

**`AbstractAccount`** - the core's storage and every entry point that changes it. `module[s][a]`
is `AccountState.Verifier` / `HookId`; `pendingUpdate` and `pendingCall` are the staged records;
`escrow` groups the three escrow keys (as fields that are written separately, since forgetting one
is a plausible mistake); `pluginConfig[a]` is the set of plugins that hold configuration of `a`: it
lives in the plugin contracts, but the core is what sets it (`setPublicKey`, allowlisted calls) and
clears it (`clearAccount`, best effort: plugins in `NoClear` fail and the failure is ignored).
`ExecuteUserOp` is here one step with what it does to the core's own state; whether a verifier
accepts is left open, which covers all verifiers. A market is any contract that calls in.

**`UserOpExecution`** extends it: `BeginUserOp` does what `AbstractAccount!ExecuteUserOp` does,
takes the lock, sets the contexts, and suspends as a frame on `calls` with the copy of the account
the code has read (`hook`, `verifier`), the foreign calls left (`todo`), and the storage a throw
goes back to (`saved`). While a frame is suspended `CoreCall` runs any entry point of the core,
`UserOpCall` starts an operation of another account, `NextPhase` goes to the next foreign call,
`EndUserOp` runs the `finally` blocks and `ThrowUserOp` undoes the frame. `Verify`, `CanExecuteHook` and
`CanExecuteVerifier` are operators with the code's arguments: `caller` is the contract that asks, `by` the
one a plugin names as its own caller, which is how the children of MultiHook and MultiSig are accepted.
`Verify` without a context, and under the Verification trigger, falls back to the transaction's
signers: `scoped` stands for the contracts T of the signers whose one rule allows this core and T
(`HasExactAaWitnessRules`), and `scopeTarget` is what the contract's admin has set, at any time, also
inside an operation. The properties quantify over all of these arguments.

**`AddressMarket`** composes the core's escrow with the market and the GAS ledger. `CreateListing`,
`CancelListing` and `FinishSettleListing` contain the core's action as a conjunct;
`OwnerForceCancel` contains the market's `AbandonListing`. `BeginSettleListing` pays the seller and
suspends in `settling`; `InCallback` is the paid contract acting with its own and the payer's
witness; `FinishSettleListing` or `RevertSettleListing` ends the transaction. `AtomicSale` is the
abstract specification: accounts with owners, owners with wealth, and one step in which both change.

**`Paymaster`** composes the paymaster with the core's nonces and its sponsored entry points.
`ExecuteSponsoredUserOps` suspends as a frame on `sponsored` while its operations run, `NextUserOp`
runs the next one of a batch, `FinishSponsored` settles, `ThrowSponsored` undoes. The sponsor is
`Transaction.Sender`, as in the code, so a target can act as the sponsor who sent the transaction.
`ValidatePaymasterOp` (the preview) and the settlement ask the same conditions in the code and share
one operator. `paid` is a history variable: what was paid under the policy that stands now.

**`SocialRecovery`** - the recovery verifier's storage and every entry point on accounts. A ticket
is a tuple of its fields, any of which the signer may sign at any time; it comes in by
`SubmitRecoveryTicket` / `SubmitActionTicket` or by `OnRecoveryResult` / `OnActionResult`, the two
branches of `OnOracleResult`, which share `SubmitRecoveryTicketInternal` and
`ActivateActionSessionInternal` with them as the code does. `NoPending`, `NoSession` and `NoRequest`
are what the getters return for absent keys. Oracles count their requests each on its own, while the
contract stores requests under the number alone: with two oracles a later request replaces an
earlier one of the same number, in the model as in the code. `GuardedRecovery` is the abstract
specification: owners, configurations and votes, without tickets, nonces, nullifiers, requests and
counters. The refinement reads the votes of an attempt off the approvals under the current nonce.

**`SharedDraft`** - the row of a draft, the SQL functions that write it, the API and the browsers'
transport. The functions are those that are left when all migrations have run: `AppendSignature` and
`AppendActivity` of collaborators, `DirectCall` with the five of operators, and `PatchMetadata`, which
the first migration created and none drops. Each locks the row, or writes one column, and none moves
`operator_counter`; the link is checked before, on a row that is not locked. A
request goes through `posted`, `loaded` (it has a copy `row` of the draft), `written` and `answered`:
`Load` reads, `Claim` and `Mutate` write if the update's conditions (`StillUnclaimed`,
`StillAsLoaded`) select the row, `Refuse` is what the checks on the copy turn away, `Complete` and
`NotRecorded` are the two ends of `completeDurableRequest`. `Patched` is the update as the code
builds it: columns the mutation names, the metadata as one value made from the copy, everything else
left as it is in the database. `Run`, `SendMutation`, `MutationDone` and `MutationFailed` are
`operatorMutationTransport.js`; `GiveUp` is the client's timeout, after which the request goes on or,
by `Vanish`, never arrives. `log` is a history variable. `DraftLog` is the abstract specification: a
draft that is claimed once and to which mutations are applied one after another, with single
writes of the database between them. Its `copies` say what a mutation of the metadata is made from: the
metadata of some moment since the mutation before. A write of the database that came after that
moment is undone by it, which is what the code does; a mutation never is.

**`Relay`** - a request to `relay-transaction.js`, cut at every call to another service: `Miss` and
`TakeLock` (the look-up and the lock are two calls), `Preview`, `Authorize` or `Deny`, `Broadcast`,
`Complete`. `Throw`, `NotRecorded` and `Die` are the ways it fails, `ExpireLock` and `ExpireAnswer` the
store's timers. It has no specification of its own; `Workspace` is who calls it.

**`Workspace`** extends `Relay` with the web interface on its two surfaces, the operations workspace
(`home`) and the view of a shared draft (`view`). Signing (`StartSigning`, `FinishSigning`),
persisting (`PersistDraft`, `DraftPersisted`), checking and submitting (`CheckRelay`,
`SubmitViaRelay`, then `RelayChecked` or `Submitted`, then `OutcomeRecorded`) are each taken apart
where the code awaits. `pending` is the flag the buttons go by; the dialog (`confirming`) and the
shortcut do not ask it, as in the code. Invocations are numbered; an invocation is a signed operation
with its nonce and deadline, and `issued` remembers what was signed. `checked` and `overlapped` are
history variables.

**`WalletSession`** - one page's session with a Neo wallet. `session` is `sessionState` with the
connected account, `stored` its copy in `localStorage`, which other tabs write too, `pass` the
reconciliation under way with the `cachedAddress` it was begun for: `looking` while it waits for a
provider to appear, `asked` while it waits for `getAccounts`. `Connect` begins a wallet's prompt and
`ConnectDone` or `ConnectFails` ends it, however much later. `named` is a history variable: the accounts
the wallet named to this page.

`MC*` modules give constants their small values. Definitions marked `mutant` are the plausible
bugs of `PROJECT.json`; no specification uses them.

## 4. What the runs check

| Run | Instance | States, time | Question |
|---|---|---|---|
| `Account` | 1 account, 2 owners, 1 verifier, 1 hook whose `clearAccount` fails, 1 staged call that clears, 1 market, clock 1..3 | 602,000, 1.5 min | Do rotations, staged calls, escapes, operations and escrows, freely interleaved, keep the invariants, announce every change, freeze an account in escrow, and change its owner by a clean sale only? |
| `UserOps` | 3 accounts of which one has a hook, a verifier and a market; every entry point callable inside an operation; 1 target, that signers may be scoped to; depth 2; rollback of either frame | 103,000, 2 min | Does the core answer whoever asks, and whatever caller it names, by the running operation although the modules change under it, and by the signers' scopes only without one, and are locks and spent nonces exactly those of the call stack? |
| `UserOpGlobalLock` | as above | | Violated: there is no global lock (section 6). |
| `Market` | 2 owners of whom one is a contract, 2 listings, 2 prices, fairness | 33,000, 1.5 min | Do market, core and GAS agree at every point of a settlement, does the market implement `AtomicSale`, does every escrow end once its owner asked, and is every deposit recoverable? |
| `PaymasterBudgets` | 1 sponsor and relay, 2 kinds of policy, clock over two day windows, batches of 2 | 760,000, 1 min | Are totals, day budgets and ends of standing policies kept? |
| `PaymasterNesting` | 2 parties that are sponsors and relays, 2 accounts, sponsored calls inside sponsored calls | 471,000, 1 min | Are the deposits backed, and none overdrawn, under nesting and rollback? |
| `PaymasterCost` | as above | | Violated: a relay can be paid twice its cost (section 6). |
| `Recovery` | 1 account, 2 owners, 2 factors, 2 oracles, 2 configurations, 2 nullifiers, 2 attempts, 1 request of each kind, clock 1..3, fairness | 166,000, 1 min | Does an attempt count exactly its own votes, does every ticket count once whichever way it comes, is authority always earned, does an executable recovery end, and does the verifier implement `GuardedRecovery`? |
| `SharedDraft` | 2 browsers, 2 requests at a time, a receipt and a rotation of the operator's link, 1 signer, 1 activity, a call of each function of operators, a patch, 2 mutations, with store and without | 438,000, 2 min | Does the draft implement `DraftLog`, is success true, is what is counted signed, do signatures stay, whatever SQL functions write in between? |
| `Workspace` | 2 requests at a time, 2 invocations, 1 signer, 2 configurations, 1 transaction, 1 expiry of a lock, both surfaces | 1,459,000, 3 min | Are answers true, spendings approved, locks accounted for, and does whoever waits submit what was checked? |
| `WorkspaceUnchecked` | as above, workspace only, no store | | Violated: the shortcut and the dialog submit what was not checked (section 6). |
| `WalletSession` | 3 accounts, 2 connects at a time, 1 reload, any answers and events, fairness | 23,000, 4 s | Is every session vouched for, and every pending one settled? |

**Why the bounds are enough.** The clock covers the timelocks that have to run one after the other
(stage and confirm, or initiate, cool down and initiate again), so every timelock matures, and is
also met one tick early. Times are compared with one another only, so only the order of the
timelocks matters: an escape longer than an update timelock and a cooldown shorter than the escape.
No action of the core reads another account's state, which is why one account is enough for
`Account` (the proofs are for any number); more are used where they share something: the call stack,
a sponsor's policy for any account. Two listings allow the account to be listed again, with a
leftover of the first listing, and two prices are what a reprice needs. `MaxSeq` bounds nonces by the
operations it takes to run one, replay it, and run its successor. In `PaymasterBudgets` the clock
covers two windows of two ticks, so a window runs out and the next begins with the first spend after it.
Twice the budget in one day, just before and just after a border, takes a longer clock: that the bound of
`PolicyKeepsItsWord` holds there too is shown by the theorem `PoliciesKept` alone.

`UserOps` restricts its instance by `MCBound` to three parts that do not need each other: the account
with modules alone, in one block and for one operation, where everything it can call is called; the
two others without modules, whose operations nest in either order and over two blocks; or those two with
a scope target that the admin sets before, inside or after their operations, in one block. That no
further part matters is what the proofs show, which know no bound.

In `Recovery` a quorum of two and a quorum of one cover an attempt that is below its threshold and
one that is executable at once; two attempts are what a vote or ticket needs to be misused in a later
one, and two nullifiers let either attempt collect its quorum while a spent one is tried again.
In `SharedDraft` the activity holds one entry and the receipts two, so that appends trim a full list and
fill one that is not; two mutations suffice for one to overtake another, and one more would only
repeat it. `MCBound` has, without the store, one kind of other writer at a time: a signer, a commenter, or one
of the SQL functions (`Traces` reads off the row what they left), before the last mutation. `MaxLinks` bounds
the links that SQL functions draw. With the store browsers are alone, for the store answers for
requests and does not know of other writes; `SharedDraft_proofs` knows none of these bounds.

`MCBound` of `Workspace` separates what the store makes interact from what it does not. With a store:
overlapping requests about one invocation, on a draft opened by its link, no broadcast by the wallet
beside them, and a second request only while one is waited for. Without: one request at a time,
about two invocations, while the draft is composed and persisted in the workspace; the draft is
persisted only if no submission overlapped another and nothing was sent, and overlapping submissions
are about one invocation. `MaxSubmissions`, `MaxSent` and `MaxExpiries` bound what is at work at a time, what is
sent, and how often a lock runs out; one expiry lets two requests work on the same thing.

In `WalletSession` three accounts are the one a pass was begun for, the one that was switched to,
and a stranger. `SYMMETRY` is used in runs without liveness only, over model values no definition
tells apart.

**Fairness.** `Spec` and its extensions of the safety runs have none. `FairMarketSpec` assumes:
*new blocks* (SF: the chain goes on although transactions fill the blocks between); *a started
transaction ends* (WF on `AfterCallback`: execution is bounded by its gas); and *inclusion* (SF on
the owner's `ForceCancelMarketEscrow` and on a depositor's `RefundPendingPayment`: a valid transaction
that is sent again and again is included, also if it is invalid from time to time). No fairness is
assumed of sellers, buyers, the market's admin, or of anyone who would have to be cooperative.
`FairSpec` of `SocialRecovery` assumes new blocks (SF) and WF of `FinalizeRecovery`: the call needs no
witness and stays enabled once the timelock is over, until the owner cancels, so that anybody who
wants the recovery can send it; nothing is assumed of the owner, the signer or the oracles.
`ReadyRecoveryEnds` is stated for timelocks and nonces within the model's bounds.
`FairSpec` of `WalletSession` assumes that a page mounts the wallet's controls (the navigation bar
has them), that timers run out, and that the wallet answers `getAccounts`. The code has no timeout
for the last, so `PendingIsSettled` is about a wallet that answers, and about a provider that can be
asked without prompting the user. Nothing is assumed of the user, of other tabs, or of events.
The services off the chain have safety properties only: whether a request is ever answered is up to
services nobody here schedules.
`EscrowIsReleased` is stated for timers that can run out within the clock's bound, and for a timer
that the owner does not restart.

**Mutants.** `PROJECT.json` gives for every checked property one plausible bug (a dropped guard, a
key not deleted, a swapped account key) under which TLC finds it violated in the same run.

## 5. What is proved

`AbstractAccount_proofs` proves, for any sets of accounts, owners, plugins
and markets, any timelocks and any bounds:

| Theorem | Statement |
|---|---|
| `TypeCorrect` | `Spec => []TypeOK` |
| `Safety` | `Spec => []Inv`, from which `OrphanFree`, `MarkersAreKept` and `NothingPlanted` follow |
| `OwnerIsKept` | the owner changes only by a sale out of escrow, with a clean shell |
| `EscrowFreezes` | nothing that controls an account changes during its escrow |
| `OperationsEndEscapes` | the step that spends a nonce ends the escape |
| `ChangesAreAnnounced` | an installed plugin changes only after a timelock or a sale |
| `StagingHonest` | staged records are not altered in place or backdated |

`UserOpExecution_proofs` proves, for operations nested to any depth, with every entry point
of the core callable in between and any frame rolled back:

| Theorem | Statement |
|---|---|
| `ExecutionTypeCorrect` | `ExecutionSpec => []ExecutionTypeOK` |
| `SafeInside` | `ExecutionSpec => []Inv`: the invariants of `AbstractAccount` hold also inside operations and after rollbacks |
| `LockFollowsStack` | the execution locks are exactly the accounts of the operations on the stack, each once |
| `NoncesStaySpent` | the nonce of an operation in progress cannot be used by another |
| `AuthorityIsLent` | whoever asks and whatever caller it names: once the target of an operation is called `Verify` accepts that target alone, otherwise, and under the Verification trigger, exactly a signer scoped to the account's scope target; `CanExecuteHook` and `CanExecuteVerifier` accept the hook and the verifier of the operation in progress when they name the core, and any contract that names one of them instead |

`AddressMarket_proofs` proves, for any finite set of owners, any of them contracts that act while they
are paid, any accounts, prices and number of listings:

| Theorem | Statement |
|---|---|
| `MarketTypeCorrect` | `MarketSpec => []MarketTypeOK` |
| `MarketSafety` | `MarketSpec => []MarketInv`, the inductive invariant the others follow from |
| `ListingsHold` | escrow and Active listing are two sides of one thing, and the seller is the owner |
| `DepositsHold` | the contract holds the deposits it owes, has counted them, each the price of its Active listing |
| `BooksHold` | between transactions an owner has what the recorded sales say |
| `MarketImplementsSale` | `MarketSpec => SaleSpec`: the market implements `AtomicSale` |
| `RefundsCovered` | no deposit exceeds what the contract holds |
| `CoreStaysSafe` | `MarketSpec => []Inv`: the invariants of `AbstractAccount` hold inside a settlement and after its revert |

`Paymaster_proofs` proves, for any finite set of sponsors and relays, any accounts, policies, lengths
of batches and depths of nesting:

| Theorem | Statement |
|---|---|
| `PaymasterSafety` | `PaymasterSpec => []PaymasterInv`, the inductive invariant the others follow from |
| `DepositsBacked` | the paymaster holds exactly the deposits it owes its sponsors |
| `PoliciesKept` | a standing policy pays at most its total budget, nothing after its end, and at most twice its daily budget in any 24 hours |
| `DepositsCovered` | no sponsor's deposit exceeds what the paymaster holds |

`SocialRecovery_proofs` proves, for any finite set of factors, any configurations, oracles and bounds:

| Theorem | Statement |
|---|---|
| `RecoveryTypeCorrect` | `Spec => []TypeOK` |
| `AttemptsAreExact` | the counter of a pending recovery is the number of recorded approvals under the current nonce, all by configured factors, and it is executable exactly with a quorum |
| `TicketsCountOnce` | an account has spent as many nullifiers as it had approvals and sessions |
| `AuthorityComesFromTickets` | authority is gained by a completed recovery or a fresh ticket only |
| `RecoveryIsGuarded` | `Spec => Promise!Spec`: `SocialRecovery` implements `GuardedRecovery` |
| `CreditsBacked` | the contract holds exactly the oracle credits it has recorded |
| `CreditsCovered` | no account's credit exceeds what the contract holds |

`SharedDraft_proofs` proves, for any browsers, mutations, signatures, limits and numbers of requests:

| Theorem | Statement |
|---|---|
| `DraftTypeCorrect` | `Spec => []DraftTypeOK` |
| `DraftImplementsLog` | `Spec => DraftIsLog`: `SharedDraft` implements `DraftLog` |
| `CountedStaysSigned` | what moves the counter was signed, by the key that holds the draft, for the counter as it stood and under the operator link of the moment |
| `SignaturesAreKept` | no step removes a collected signature or gives a signer a second one |
| `SuccessesAreTrue` | success is answered, from the store too, of mutations in the log only |

`Workspace_proofs` proves, for any invocations, fees, ceilings, configurations and numbers of requests:

| Theorem | Statement |
|---|---|
| `WorkspaceTypeCorrect` | `WorkspaceSpec => []WorkspaceTypeOK` |
| `SpendingsAreApproved` | every transaction sent is covered by an approval of its invocation, or the permission to do without, and by every ceiling |
| `AnswersStayTrue` | an answer says what its request, or the one it repeats, did |
| `LocksKeepCount` | a lock that expired `n` times has let in at most `n + 1` workers, or `n` if it is free |
| `PatientIsChecked` | in the view always, and in the workspace for an unpersisted draft and one submission at a time, what is submitted was checked |

Of `WalletSession` it proves `SessionsAreVouchedFor`: only the user's connect or a page load makes a
session where there is none, and what counts as verified the wallet named to this page, for any
accounts and any number of connects under way.

*Assumptions.* Those of `AbstractAccount`: `Zero` is no owner, plugin or market; no contract is both
a verifier and a hook; account ids determine their registration parameters (`PreimageAssumption`,
collision freedom of the hash); timelocks are natural numbers; the clock starts after 0. `TargetAssumption` of `UserOpExecution` adds that `Zero` is
neither a target nor the core and that there is a positive bound on the depth. `RecoveryAssumption` is what
`ValidateMasterNullifiers` and the timelock's lower bound ensure of a configuration, and that the
sets of factors, nullifiers and accounts are finite. `MarketAssumption` says that the market is no
owner and prices are positive, `PaymasterAssumption` that the paymaster is no party and a day is
longer than nothing, both that the addresses are finitely many: they have 160 bits, and a sum over
all holders needs it. `PatchAssumption` says that patches hold lists within the
limits; `DraftAssumption`, `RelayAssumption`, `WorkspaceAssumption`
and `SessionAssumption` say that bounds and limits are natural numbers, limits of lists positive, that
`Zero` and `Nobody` are names of nothing, and that the requests are finitely many. TLC evaluates all
of them in every run of the module concerned.

*The argument for one operation at a time.* `StepCases` lists the operations a step can be, with twin entry points merged. For
types every case is direct. The safety invariant `Inv` is the conjunction of `NoOrphanConfig`,
`PendingNeedsModule`, `EscapeStamped`, `NoStaleEscrowMarker` and `BlankUntilRegistered`; the
conjuncts need each other (the middle three are what `MarkersBelong` names). Registration overwrites the modules without clearing the old ones and
leaves staged records alone: that `NoOrphanConfig` and `PendingNeedsModule` survive it needs
`BlankUntilRegistered`, which in turn holds because every other operation asks for an existing
account, except the market's `CancelMarketEscrow`, which needs an escrow that a non-existing account
does not have. `StepFrame` then says that a step leaves an account as it was or is one operation on
it, and the action properties go through the operations from there: most leave the property's
variables alone, a sale is dealt with once in `SaleCleans`, and for `ChangesAreAnnounced`
the invariant `PendingNeedsModule` rules out a confirmation over an empty slot.

*The argument for nested operations.* A rollback puts back the storage its frame saved, so an
invariant of the storage is not enough: it has to be known of every saved storage too. The proofs
look at a saved storage `s` through `At(s)`, an instance of `AbstractAccount` whose variables are the
fields of `s`; `SafeAt` is `Inv` read through it, and the strengthened invariant says that the
current storage and those of all frames are safe. For locks and nonces the strengthening is
`StackInv`: the current storage `Matches` the whole stack (its locks are the stack's accounts, its
contexts name their target, hook and verifier, its nonce channels stand one past their nonces), and the storage that frame `i` saved matches the frames below
`i`. Pushing a frame saves a storage that matches the stack so far, returning pops a frame whose
account no other frame has, and a throw goes back to a storage already known to match what is left.
The order of a frame's phases (`WellPhased`) is needed besides: the verify context is set
when the hook has returned and before the target is called, and never otherwise.

*The argument for social recovery.* `AttemptIsExact` is not inductive: set-up writes nonce 0 and would
forget a pending recovery or approvals left under the id. `BlankUntilSetUp` says there are none,
because a ticket is accepted only for an account that is set up; the conjunction (`AttemptInv`) is
inductive. `OneVoteMore` is the step that matters: an accepted ticket adds its factor to the votes of
the current nonce, which did not have it, so counter and votes grow together. `EveryTicketCountsOnce`
needs besides that both sets are finite (`TicketInv`): an accepted ticket puts a nullifier into the one
set that was not there, and adds an approval that was not there or a session. For the refinement every
operation on one account is mapped to the step of `GuardedRecovery` it stands for (`PromiseStep`):
an accepted ticket to `Vote`, cancellation to `CallOff`, finalisation to `Complete`, and all that
concerns sessions, requests and credits to a stutter; that the votes vanish with the attempt is
`AttemptIsExact` for the next nonce.

*The argument for the draft.* `Inv == Types /\ RowInv /\ LoadedAgree`. `Agrees(row)` says that a row is an
older state of the draft: its counter is no further, its key, if it has one, is the draft's, without a key it is
at counter 0, and its lists keep their limits. `LoadedAgree` says so of every copy a request holds. It
does not say that a copy with the draft's counter is the row, since SQL functions write without
counting; the update's conditions on link and counter are what is left, and the key follows from
`Agrees`. `Steps` sorts the steps into five kinds: those that leave the log's part of the row alone
(`Quiet`), an SQL function of operators (`Written`), a patch (`Overwritten`), a claim, and a mutation. The
refinement follows case by case: what a mutation of the metadata is made from (`MadeOf`) is the copy of its
request, which is among `Copies` because its counter is the draft's, and a step that counts empties
`Copies`, because older copies cannot be written any more. `SuccessIsTrue` is not inductive, since an
answer may come from the store: `TrueAnswers` says it of answers that are written, stored and given.

*The argument for the relay and the workspace.* `WorkspaceInv == RelayInv /\ DraftTypes /\ SubmitTypes
/\ CallsAreIssued`. `RelayInv` says of every request what its phase promises (`CallInv`), of every
stored answer that it fits its fingerprint, and of every transaction that it was approved. For the
locks, `Workers` is finite and every step lets at most one request enter or leave; a request enters
only while the lock is free and sets it, and only an expiry frees the lock of one that goes on. For
`PatientSubmitsChecked` the strengthening is `CheckInv`: with one submission at a time, the check
under way is of the invocation that is remembered as checked, and a positive result of a patient user
is that of the remembered invocation unless a check is under way (`CheckIsUnderWay`), which a
submission would overlap.

*The argument for the session.* `SessionInv` is the types with "what is verified was named". `Established`,
`Ended` and `Untouched` are the three things a step can do to a session.

*Sums.* What a contract owes is `SumFunctionOnSet` of the `Functions` module, a recursion over the
subsets of a finite set that takes them apart in an order left open. `Sums` proves what the
balances need of it: that the recursion has one solution (`SolutionExists`, `SolutionsAgree`), that any
member can be taken out (`SumRemove`), that changing a function at one place changes the sum by as
much (`SumChange`), that sums over disjoint sets add up (`SumUnion`). Where the argument is an
induction over finite sets, it takes a smallest counterexample (`SmallestSubset`), because the
library's induction theorems have an operator as a parameter.

*The argument for the market.* A settlement that reverts goes back to the state it saved, whatever its
callback has done since. `Good(c)` is therefore said of a snapshot `c`: escrows `Agree` with listings, an
Active listing is the owner's (`Owned`), listings not made yet are `Blank`, deposits are `Counted`, `Priced`
and `Backed`. `MarketInv` says it of the current state and of the saved one, and `Suspended` relates
the two: the listing that was read was Active and paid for, the owners' wealth differs by the price in
flight (`InFlight`) only, and what was sold before is what is sold still, since a callback cannot
finish another settlement. `Settled` closes the books: the core's `SettleMarketEscrow` succeeds only
on an escrow under the listing that was read, so by `Agree` that listing is still Active, and the sale
that is recorded is the one that was paid. A deposit or a refund moves one deposit and two balances
(`PaidIn`, `PaidOut`), and the wealth stays as it is (`DepositMoves`). For the refinement the abstract
wealth is read off the saved state while a settlement is suspended; then only `FinishSettleListing`
is a sale, and every other step, a revert included, a stutter. `CoreStaysSafe` needs of a saved state
that its escrows are whole and belong to accounts that exist (`EscrowsWhole`), and that no account
appears while a settlement is suspended (`OwnersStand`).

*The argument for the paymaster.* As for nested operations, what is needed of the storage is needed of
the storage of every frame. `BookOK` is one policy's book: its total counter is at least what was paid
under it, so is its day counter of what was paid since the day's window began, and no
payment lies behind the window's end. Twenty-four hours meet at most two windows; so besides the
window that stands only the day before it counts, and a window that begins anew finds nothing paid
in it. A payment adds to one moment (`SumPaid`), at most what the counters leave (`BookPaid`). The clock
stands still while frames are suspended (`ClockStands`), so a book that was fit to go back to stays
fit. The twice in the statement is not slack: the window is not a sliding one, and a budget can be
spent just before and just after its border.

*Only model-checked* is what must eventually happen: `EscrowIsReleased` and `DepositIsRecoverable` of the
market, `ReadyRecoveryEnds` and `PendingIsSettled`. Their fairness is about `ENABLED` actions, which
the prover does not reason about. `RefundsCovered`, `DepositsCovered` and `CreditsCovered` prove the half of it that is
safety: that money asked for is there. The three runs that must fail have no theorem, of course. All
other properties of the runs are stated by a theorem.

## 6. Where code and documents differ

Three differences are checked as runs that must fail:

1. **Global execution lock.** `docs/PROTOCOL_COMPLETENESS_AUDIT.md:179-182` and
   `docs/SECURITY_MODEL.md:154` describe a lock over all operations
   (`IsAnyExecutionActive()`). The code's lock is per account (`UnifiedSmartWallet.Execution.cs:25`,
   `UnifiedSmartWallet.Internal.cs:47-52`). `UserOpGlobalLock` shows an operation inside another
   account's operation. `UserOps` shows that what the lock is for holds nevertheless.
2. **Reimbursement above cost.** `UnifiedSmartWallet.Paymaster.cs:60-61`: "the relay cannot be
   reimbursed for more than it actually paid". The cap compares each request with the fees of the
   whole transaction; a transaction with two sponsored calls gets up to twice its fees
   (`PaymasterCost`). The sponsor's budgets still hold (`PolicyKeepsItsWord`).
3. **Submitting what was not checked.** `HomeOperationsWorkspace.vue:2355` demands a successful
   preflight before a submission, and the button is disabled while one is pending. The shortcut
   (`:1677-1685`) and the dialog (`:1119-1134`) do not ask whether one is pending, while `checkRelay`
   (`:2213-2223`) names the new invocation before its answer is there and `persistDraft`
   (`:1946-1955`) brings an old answer back. `WorkspaceUnchecked` submits an invocation nobody
   checked; `PatientSubmitsChecked` says when that cannot happen.

Others met while reading, not made into runs because they are numbers or wording:
`docs/PROTOCOL_COMPLETENESS_AUDIT.md:106` gives the escape cooldown as 7 days (the code: 1 hour,
`UnifiedSmartWallet.Internal.cs:32`) and line 35 the configuration timelock as 7 days (the code: 24
hours, line 33); line 199 says configuration changes are blocked in escrow, while cancelling a
staged update and setting metadata are not (`UnifiedSmartWallet.State.cs:238-285`), which
`EscrowFreezesUntilCleanSale` takes into account.

Two observations on social recovery, of which no document says otherwise. An attempt with fewer
approvals than the threshold never expires, and its new owner is fixed by the first ticket; only the
owner can end it (`CancelRecovery`). If the owner's key is lost, as recovery presumes, the factors
can recover the account to that address and no other. And requests are stored under the oracle's
number alone (`MorpheusSocialRecoveryVerifier.Validation.cs:153-161`), so requests to different
oracles can replace each other; the loser's ticket can still be submitted directly.

Observations on the services and the interface, of which no document says otherwise, or which are
not about a state of the models:

- `draft-operator.js:224`: activity, receipts and check are one metadata value made from an unlocked
  read; what an SQL function writes to them in between is lost, because it does not move the
  counter. It happens in `SharedDraft`; `DraftLog` says of receipts and check what may be lost that way, and
  leaves the activity out.
- The five functions of operators are still there beside the signed API: `20260314_signed_operator_mutations.sql:6-10`
  revokes them from `anon` only, and `20260309_relay_preflight_snapshot.sql:23` so revokes
  `patch_aa_draft_metadata`, while the comment in `20260611_draft_metadata_hardening.sql:261-265` says that a function keeps
  PostgreSQL's default grant to `public` after such a revoke. `README.md:32` says the chain of migrations
  "moves operator-only status/relay mutations behind the signed operator mutation server route". What these
  functions write is neither signed nor counted. `SharedDraft` has them, so its properties hold although
  they are called; `CountedIsSigned` is therefore about what is counted, not about everything that is written.
- `walletService.js:634` takes every answer of 200 without an error field for a success, and the relay
  answers a submission whose preview faults so (`relay-transaction.js:784-787`): the draft becomes
  relayed although nothing was sent.
- `HomeOperationsWorkspace.vue:2200-2204` and `TransactionInfoView.vue:1079-1083` hand the check to be
  saved over in an object that `drafts.js:466-476` wraps once more, so `draft-operator.js:213` stores it one level too deep.
- `requestDurability.js:52-73` reads the body of Upstash's REST answer as the stored value; that API
  wraps it in a `result` field, in which case stored answers are never recognised. The models have
  both: answers may expire at once. If replies are recognised, a claim's stored answer is repeated for
  15 minutes with the counter it had then (`draft-operator.js:264-277`), so the next mutation of
  the same browser is refused for a counter that is behind.
- `requestDurability.js:166-216`: a request that looked up its answer before the first one stored it
  does the work again, and a request whose lock expired deletes its successor's. The chain's nonce is
  what keeps an invocation from running twice; `LocksCountWorkers` says how many requests there can be.
  If the store fails after the work was done, the answer is 500 to something that happened
  (`NotRecorded`).
- Restaging keeps the collected signatures, and a signature that arrives late is put into whatever is
  staged by then; `selectMetaInvocation` may fall back to the invocation of an operation that is no longer staged, while
  readiness is judged by another selection. `stageOperation` on a persisted draft changes the operation
  it shows before it finds the draft immutable, and `persistDraft` overwrites what changed while it
  waited. All of this is in `Workspace`.
- Signatures are told apart by kind and signer alone, so a signer cannot replace one whose deadline
  has passed.
- `walletService.js:333`: a pass goes by the account it was begun for. If the wallet reports another
  account and then another network while the pass waits, its answer takes the first account back,
  if the wallet still has it. It is an account the wallet named, so `SessionIsVouchedFor` holds. An
  `ACCOUNT_CHANGED` that arrives while a connect is under way from no session is ignored, and the
  connect's older answer stands.

## 7. Assumptions and what is left out

- **Transactions.** A transaction that faults leaves the storage it found; the models do not
  represent it. An exception that a caller catches undoes the callee's writes (`ThrowUserOp`,
  `ThrowSponsored`).
- **Witnesses.** Which addresses signed a transaction is left open: the models allow any witness at
  any time, which covers all signer sets and scopes.
- **Verifiers and hooks** may accept or refuse anything (a refusal is a throw). The properties are
  those the core guarantees whatever plugin is installed.
- **Plugin calls of configuration entry points are atomic.** `ConfirmHookUpdate`,
  `ConfirmVerifierUpdate`, `FinalizeEscape` and `SettleMarketEscrow` call `clearAccount` and
  `setPublicKey` in the middle; what a plugin could call back there is listed as a hazard and is
  not modelled yet.
- **Verify's fallback.** Which contracts the transaction's signers are scoped to is left open, as witnesses
  are; what a rule looks like is abstracted to the contract it names beside the core. Scope targets are
  set by the contract's admin, for any accounts; no operation, escape or sale clears them. Who is
  admin is left open (see authority timelocks). NEO and GAS as callers are accepted exactly when they
  are the target (`VerifyContext.cs:86-87`), as any contract is.
- **Plugin chains.** `CanExecuteHook` and `CanExecuteVerifier` believe whatever caller a plugin names. That a
  child asks only when its root has called it, and names that root, is up to the child's code; the model has
  any contract ask at any time and name any other.
- **Market.** One suspended settlement at a time; core operations that neither read nor write
  escrow or owner are left to `AbstractAccount`. Arithmetic is unbounded in both (`BigInteger`).
- **Paymaster.** Fees go to the network and are outside the ledger; the ledger has the parties and
  the paymaster only. Operations of a sponsored batch make the same call. An operation is there its
  nonce and what its target may do as sponsor or relay; what it may do to the core is
  `UserOpExecution`.
- **Recovery.** The backup owner of the core and the recovery verifier's owner are the same at set-up
  and independent afterwards: a sale or a recovery changes one of them. No entry point of the core
  asks the recovery verifier, so the two are not composed. A signature is valid for the verifier
  key the account has when the ticket arrives; keys are not distinguished, since the signer may sign
  any ticket. An oracle's failed or rejected answer faults, which leaves the request in place.
- **SQL functions of drafts.** The functions of operators check the operator link, and `PatchMetadata` no link
  but the share link; a link revoked between that check and the write still serves, so in the model
  anybody may call any of them at any time. Patches hold lists no longer than the appending
  functions keep them (`PatchAssumption`); a patch can in fact hold any JSON. An API `setStatus` with a blank
  status keeps the old one (`draft-operator.js:208`) and is left out. Dates and the paths that go with links
  are not state of the model.
- **Store and database.** A request to the store or the database is one step; what fails is left
  open where the code handles it. The look-up and the lock are one step in `SharedDraft` and two in
  `Relay`, which also has locks that outlive their request: the operator API's update conditions make
  a second worker harmless there.
- **Links** are drawn at random; the models number them in the order they were drawn, so a link is
  never guessed. Who was given a link may use it.
- **Relay.** Simulation, node, paymaster's service may answer anything the code accepts; an approval
  must name the invocation it was asked for, which the code checks. Forwarding of raw transactions
  (off by default) and the rate limiter (a counter per address in the process, a refusal like others)
  are left out.
- **Workspace.** Signing is with EVM wallets. zkLogin signing, manual signatures (which carry no
  invocation), the paymaster form and the hydration of rotated links are left out. What an outcome
  writes to the draft is `SharedDraft`'s matter and takes its time in `Workspace` (`recording`). In the
  view a draft is loaded once, with whatever was signed and collected elsewhere, or nothing, and with a check that
  may have been saved with it; the runs go on from a draft with at most one signature.
- **Wallet session.** Hashes and provider names are not state of the model. The EVM wallet keeps no
  session. Other tabs change the storage and are not heard of until a reload, as in the code.
- **Not modelled** and why: signature checking and payload layouts, the encoding of operations in SDK
  and `shared` (cryptography and encoding); events, `Safe` read methods and error texts (no state);
  authority timelocks (one admin, one pending record, one timelock, little to interleave); hooks and
  verifiers as plugins (balances, tokens and targets would have to be state; in the core's models a
  plugin may do anything); `account-metadata.js` and the identity API (one request to another service,
  no state); the other panels, which send one transaction each, and `i18n` (texts); deployment.

## 8. Plan

Done, in the order of importance: `AbstractAccount` and its proofs; `AddressMarket` with
`AtomicSale`; `UserOpExecution` and its proofs; `Paymaster`; `SocialRecovery` with `GuardedRecovery`;
`SharedDraft` with `DraftLog`; `Relay` and `Workspace`; `WalletSession`. All of them have proofs of every
invariant, action property and refinement that a run checks.

What a continuation would take up, in this order:

1. Spending hooks: DailyLimitHook and TokenRestrictedHook around a target that moves tokens, with
   snapshots before and metering after, limits set or cleared inside, nested operations, fixed and
   rolling window; composed with MultiHook's order.
2. Stateful verifiers: SessionKeyVerifier (spending survives rotation, the key is read before and
   after) and SubscriptionVerifier (its counter against the core's nonce channel).
3. Suspended plugin calls in the configuration entry points of `UserOpExecution`.
4. Authority timelocks, proved once for the contracts that share the pattern.

The runs stay one per question: where a new module's instance answers a question of an old run as
well (suspended plugin calls subsume one half of `UserOps`), the old run is replaced.

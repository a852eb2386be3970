------------------------------ MODULE Paymaster ------------------------------
(***************************************************************************)
(* contracts/paymaster/Paymaster.cs composed with the core's sponsored     *)
(* entry points (UnifiedSmartWallet.Paymaster.cs) and the nonces of        *)
(* AbstractAccount.  A sponsor deposits GAS and sets policies; a relay     *)
(* sends a transaction in which the core executes an operation, or a batch *)
(* of them, and then has the paymaster reimburse the relay.                *)
(*                                                                         *)
(* The paymaster knows a sponsor by Transaction.Sender, so while a         *)
(* sponsored operation runs, the operation's target can do whatever the    *)
(* relay can do as a sponsor, call the core's sponsored entry points for   *)
(* another account, or throw.  A sponsored call is therefore a frame that  *)
(* is suspended until its operations are done.  A relay that is a contract *)
(* runs code when it is paid, after the last write of the settlement; what *)
(* it does there is a step after it.                                       *)
(*                                                                         *)
(* authorizedCore is the core.  The fees of a transaction go to the        *)
(* network and are not part of the ledger here.                            *)
(***************************************************************************)
EXTENDS AbstractAccount, Sequences, Functions

CONSTANTS
  Parties,          \* addresses that send transactions, as sponsors or as relays
  ThisPaymaster,    \* this contract
  Calls,            \* the (target, method) pairs of the operations
  PolicyChoices,    \* the policies a sponsor may ask for
  OneDay,           \* 24 hours
  Amounts,          \* GAS amounts a caller may name
  Fees,             \* system fee and network fee of a transaction
  InitialGas,       \* what every party starts with
  MaxOps,           \* bound of the model: operations in a batch
  MaxSponsored      \* bound of the model: nested sponsored calls

ASSUME PaymasterAssumption ==
  /\ ThisPaymaster \notin Parties /\ Zero \notin Accounts
  /\ IsFiniteSet(Parties)                 \* addresses have 160 bits
  /\ \A c \in Calls : c.target # Zero /\ c.method # Zero
  /\ \A p \in PolicyChoices :
       /\ DOMAIN p = {"target", "method", "maxPerOp", "dailyBudget", "totalBudget", "validUntil"}
       /\ {p.maxPerOp, p.dailyBudget, p.totalBudget, p.validUntil} \subseteq Nat
  /\ OneDay \in Nat \ {0} /\ InitialGas \in Nat
  /\ Amounts \subseteq Nat /\ Fees \subseteq Nat

VARIABLES
  deposit,       \* Prefix_SponsorDeposit
  policy,        \* Prefix_Policy
  dailySpent,    \* Prefix_DailySpent
  dailyReset,    \* Prefix_DailyReset
  totalSpent,    \* Prefix_TotalSpent
  gas,           \* GAS balances
  tx,            \* the running transaction and what its sender was reimbursed in it
  sponsored,     \* the suspended sponsored calls, innermost first
  paid           \* history: what was paid under the policy as it stands, by time

counters == <<dailySpent, dailyReset, totalSpent, paid>>
paymasterVars == <<deposit, policy, counters, gas>>
allVars == <<vars, paymasterVars, tx, sponsored>>

Scopes == Accounts \cup {Zero}        \* Zero: the sponsor's policy for any account
Holders == Parties \cup {ThisPaymaster}
NoTx == [sender |-> Zero, fee |-> 0, claimed |-> 0]
Never == -OneDay                      \* an absent key reads 0: more than a day before any block

PolicyRecords == PolicyChoices \cup {Zero}
NoPolicy == Zero

PaymasterInit ==
  /\ Init
  /\ deposit = [s \in Parties |-> 0]
  /\ policy = [s \in Parties |-> [c \in Scopes |-> NoPolicy]]
  /\ dailySpent = [s \in Parties |-> [c \in Scopes |-> 0]]
  /\ dailyReset = [s \in Parties |-> [c \in Scopes |-> Never]]
  /\ totalSpent = [s \in Parties |-> [c \in Scopes |-> 0]]
  /\ paid = [s \in Parties |-> [c \in Scopes |-> [t \in Times |-> 0]]]
  /\ gas = [h \in Holders |-> IF h = ThisPaymaster THEN 0 ELSE InitialGas]
  /\ tx = NoTx
  /\ sponsored = <<>>

Transfer(from, to, amount) ==
  /\ gas[from] >= amount
  /\ gas' = [gas EXCEPT ![from] = @ - amount, ![to] = @ + amount]

(***************************************************************************)
(* Deposits and policies.  The sponsor is the transaction's sender.        *)
(***************************************************************************)
OverwriteDeposit(s, amount) ==                                    \* mutant
  /\ amount > 0
  /\ Transfer(s, ThisPaymaster, amount)
  /\ deposit' = [deposit EXCEPT ![s] = amount]
  /\ UNCHANGED <<policy, counters>>

OnNEP17Payment(s, amount) ==
  /\ amount > 0
  /\ Transfer(s, ThisPaymaster, amount)
  /\ deposit' = [deposit EXCEPT ![s] = @ + amount]
  /\ UNCHANGED <<policy, counters>>

WithdrawDeposit(s, amount) ==
  /\ amount > 0
  /\ amount <= deposit[s]
  /\ deposit' = [deposit EXCEPT ![s] = @ - amount]
  /\ Transfer(ThisPaymaster, s, amount)
  /\ UNCHANGED <<policy, counters>>

\* Replacing a policy keeps the spending counters.
SetPolicy(s, scope, new) ==
  /\ new.maxPerOp > 0
  /\ scope = Zero => new.dailyBudget > 0 /\ new.totalBudget > 0
  /\ policy' = [policy EXCEPT ![s][scope] = new]
  /\ paid' = [paid EXCEPT ![s][scope] = [t \in Times |-> 0]]
  /\ UNCHANGED <<deposit, dailySpent, dailyReset, totalSpent, gas>>

\* ClearSpendingCounters is part of it.
RevokePolicy(s, scope) ==
  /\ policy' = [policy EXCEPT ![s][scope] = NoPolicy]
  /\ dailySpent' = [dailySpent EXCEPT ![s][scope] = 0]
  /\ dailyReset' = [dailyReset EXCEPT ![s][scope] = Never]
  /\ totalSpent' = [totalSpent EXCEPT ![s][scope] = 0]
  /\ paid' = [paid EXCEPT ![s][scope] = [t \in Times |-> 0]]
  /\ UNCHANGED <<deposit, gas>>

(***************************************************************************)
(* Which policy applies, under which key its spending is booked, and what  *)
(* has been spent: ResolvePolicy's two results, and the counters.          *)
(***************************************************************************)
ScopeOf(s, a) == IF policy[s][a] # NoPolicy THEN a ELSE Zero
ResolvePolicy(s, a) == policy[s][ScopeOf(s, a)]
SpendingKey(s, a) == ScopeOf(s, a)

GetDailySpent(s, key) ==
  IF now >= dailyReset[s][key] + OneDay THEN 0 ELSE dailySpent[s][key]

KeepWindow(s, key, amount) ==                                     \* mutant
  /\ dailySpent' = [dailySpent EXCEPT ![s][key] = GetDailySpent(s, key) + amount]
  /\ UNCHANGED dailyReset

UpdateDailySpent(s, key, amount) ==
  /\ dailySpent' = [dailySpent EXCEPT ![s][key] = GetDailySpent(s, key) + amount]
  /\ dailyReset' = [dailyReset EXCEPT ![s][key] = IF now >= @ + OneDay THEN now ELSE @]

\* The relay's preflight.  Settlement asks the same questions again.
ValidatePaymasterOp(s, a, call, amount) ==
  LET p == ResolvePolicy(s, a)
      key == SpendingKey(s, a)
  IN
  /\ amount > 0
  /\ p # NoPolicy
  /\ p.validUntil > 0 => now <= p.validUntil
  /\ p.target \in {Zero, call.target} /\ p.method \in {Zero, call.method}
  /\ amount <= p.maxPerOp
  /\ p.dailyBudget > 0 => GetDailySpent(s, key) + amount <= p.dailyBudget
  /\ p.totalBudget > 0 => totalSpent[s][key] + amount <= p.totalBudget
  /\ amount <= deposit[s]

SettleReimbursement(s, a, call, relay, amount) ==
  LET key == SpendingKey(s, a) IN
  /\ ValidatePaymasterOp(s, a, call, amount)
  /\ deposit' = [deposit EXCEPT ![s] = @ - amount]
  /\ UpdateDailySpent(s, key, amount)
  /\ totalSpent' = [totalSpent EXCEPT ![s][key] = @ + amount]
  /\ paid' = [paid EXCEPT ![s][ScopeOf(s, a)][now] = @ + amount]
  /\ Transfer(ThisPaymaster, relay, amount)
  /\ UNCHANGED policy

(***************************************************************************)
(* The core's sponsored entry points; a single operation is a batch of     *)
(* one.  All operations of a batch make the same call.                     *)
(***************************************************************************)
CapReimbursementToActualCost(requested) == IF requested < tx.fee THEN requested ELSE tx.fee

\* What a throw out of the frame goes back to.
CurrentState ==
  [nonce |-> nonce, deposit |-> deposit, policy |-> policy, dailySpent |-> dailySpent,
   dailyReset |-> dailyReset, totalSpent |-> totalSpent, gas |-> gas, paid |-> paid, tx |-> tx]

\* No operation of the account is running: the core's execution lock.
NotExecuting(a) == \A i \in DOMAIN sponsored : sponsored[i].account # a

\* Up to the target call of the first operation.
ExecuteSponsoredUserOps(a, who, op, ops, call, s, requested) ==
  LET settled == CapReimbursementToActualCost(requested) IN
  /\ tx # NoTx
  /\ Len(sponsored) < MaxSponsored                         \* bound of the model
  /\ requested > 0
  /\ settled > 0
  /\ NotExecuting(a)
  /\ ExecuteUserOp(a, who, op)
  /\ sponsored' = <<[account |-> a, who |-> who, left |-> ops - 1, call |-> call, sponsor |-> s,
                     amount |-> settled, saved |-> CurrentState]>> \o sponsored
  /\ UNCHANGED <<paymasterVars, tx>>

\* An operation of the batch returns and the next one starts.
NextUserOp(op) ==
  /\ sponsored # <<>>
  /\ LET f == Head(sponsored) IN
       /\ f.left > 0
       /\ ExecuteUserOp(f.account, f.who, op)
       /\ sponsored' = <<[f EXCEPT !.left = @ - 1]>> \o Tail(sponsored)
  /\ UNCHANGED <<paymasterVars, tx>>

\* The last operation returns and the sender is reimbursed.
FinishSponsored ==
  /\ sponsored # <<>>
  /\ LET f == Head(sponsored) IN
       /\ f.left = 0
       /\ SettleReimbursement(f.sponsor, f.account, f.call, tx.sender, f.amount)
       /\ tx' = [tx EXCEPT !.claimed = @ + f.amount]
  /\ sponsored' = Tail(sponsored)
  /\ UNCHANGED vars

\* An operation, a refused settlement or a failed assertion throws, and the caller catches.
ThrowSponsored ==
  /\ sponsored # <<>>
  /\ LET f == Head(sponsored).saved IN
       /\ nonce' = f.nonce /\ deposit' = f.deposit /\ policy' = f.policy
       /\ dailySpent' = f.dailySpent /\ dailyReset' = f.dailyReset
       /\ totalSpent' = f.totalSpent /\ gas' = f.gas /\ paid' = f.paid /\ tx' = f.tx
  /\ sponsored' = Tail(sponsored)
  /\ UNCHANGED <<now, module, backupOwner, escapeVars, pendingVars, escrow, metadataUri,
                 pluginConfig>>

(***************************************************************************)
(* The specification.  A transaction makes any calls its sender signed     *)
(* for; the code it runs on the way may make them too.  A transaction that *)
(* faults leaves the state it found, one the model already has.            *)
(***************************************************************************)
BeginTransaction ==
  /\ tx = NoTx
  /\ \E p \in Parties, fee \in Fees : tx' = [sender |-> p, fee |-> fee, claimed |-> 0]
  /\ UNCHANGED <<vars, paymasterVars, sponsored>>

EndTransaction ==
  /\ tx # NoTx /\ sponsored = <<>>
  /\ tx' = NoTx
  /\ UNCHANGED <<vars, paymasterVars, sponsored>>

SponsorCall ==
  /\ tx # NoTx
  /\ \/ \E amount \in Amounts :
          OnNEP17Payment(tx.sender, amount) \/ WithdrawDeposit(tx.sender, amount)
     \/ \E scope \in Scopes :
          \/ \E p \in PolicyChoices : SetPolicy(tx.sender, scope, p)
          \/ RevokePolicy(tx.sender, scope)
  /\ UNCHANGED <<vars, tx, sponsored>>

RelayCall ==
  \E a \in Accounts, who \in Owners, op \in UserOps, ops \in 1..MaxOps, call \in Calls,
     s \in Parties, requested \in Amounts :
    ExecuteSponsoredUserOps(a, who, op, ops, call, s, requested)

Between ==
  /\ tx = NoTx
  /\ Tick \/ \E who \in Owners : RegistrationNext(who)
  /\ UNCHANGED <<paymasterVars, tx, sponsored>>

PaymasterNext ==
  \/ Between \/ BeginTransaction \/ EndTransaction \/ SponsorCall \/ RelayCall
  \/ (\E op \in UserOps : NextUserOp(op)) \/ FinishSponsored \/ ThrowSponsored

PaymasterSpec == PaymasterInit /\ [][PaymasterNext]_allVars

(***************************************************************************)
(* Properties.                                                             *)
(***************************************************************************)

\* The contract holds exactly what it owes its sponsors and no deposit is overdrawn, whatever was
\* nested or thrown away: a sponsor who withdraws inside an operation it sponsors has the later
\* settlement refused, never paid out of another sponsor's deposit.
SponsorsBacked ==
  /\ \A s \in Parties : deposit[s] >= 0
  /\ gas[ThisPaymaster] = SumFunction(deposit)

PaidIn(s, scope, times) == SumFunctionOnSet(paid[s][scope], times)
After(t) == {u \in Times : u > t}
DayFrom(t) == {u \in Times : t <= u /\ u < t + OneDay}

\* A policy keeps its word as long as it stands: it pays no more than its total budget, nothing
\* after it has expired, and in no 24 hours more than twice its daily budget (the window is not
\* a sliding one).  The policy for any account counts all accounts together, and a sponsor who
\* withdraws, re-funds, or sets other policies meanwhile changes nothing about it.
PolicyKeepsItsWord ==
  \A s \in Parties, scope \in Scopes :
    policy[s][scope] # NoPolicy =>
      LET p == policy[s][scope] IN
      /\ p.totalBudget > 0 => PaidIn(s, scope, Times) <= p.totalBudget
      /\ p.validUntil > 0 => PaidIn(s, scope, After(p.validUntil)) = 0
      /\ p.dailyBudget > 0 =>
           \A t \in Times : PaidIn(s, scope, DayFrom(t)) <= 2 * p.dailyBudget

\* UnifiedSmartWallet.Paymaster.cs: "the relay cannot be reimbursed for more than it actually
\* paid."  The cap is applied to every sponsored call of a transaction by itself.
RelayPaidAtCost == tx # NoTx => tx.claimed <= tx.fee
=============================================================================

---------------------------- MODULE WalletSession ----------------------------
(***************************************************************************)
(* The session with a Neo wallet that one page of the web interface keeps  *)
(* (walletService.js, useWalletConnection.js), and its copy in the         *)
(* browser's storage, which the page is restored from.                     *)
(*                                                                         *)
(* A restored session is pending until one pass of runSessionReconciliation*)
(* has found a provider and asked it for its accounts.  The pass is single *)
(* flight.  While it waits the user connects and disconnects, the wallet   *)
(* reports another account or another network, and other tabs write the    *)
(* same storage.                                                           *)
(*                                                                         *)
(* The wallet is outside: its answers and events name any accounts, in any *)
(* order.  A NEP-21 wallet can be asked without prompting the user, a      *)
(* legacy one cannot.  Hashes and provider names are left out, and so is   *)
(* the EVM wallet, which has no session.                                   *)
(***************************************************************************)
EXTENDS Naturals

CONSTANTS
  Nobody,
  Accounts,      \* the addresses in the wallet
  MaxConnects,   \* bound of the model: connect calls under way
  MaxLoads       \* bound of the model: reloads of the page

ASSUME SessionAssumption ==
  Nobody \notin Accounts /\ {MaxConnects, MaxLoads} \subseteq Nat

Providers == {"none", "legacy", "nep21"}

VARIABLES
  session,     \* sessionState and the connected account
  stored,      \* the account in the browser's storage
  provider,    \* the best provider in the page
  pass,        \* the reconciliation under way, and the cachedAddress it was begun with
  connecting,  \* how many connect calls wait for the wallet
  mounted,     \* a component that uses the wallet has been mounted
  named,       \* history: the accounts the wallet named to this page
  loads
vars == <<session, stored, provider, pass, connecting, mounted, named, loads>>

Disconnected == [state |-> "disconnected", account |-> Nobody]
NoPass == [phase |-> "none", cached |-> Nobody]

\* bootstrap: what is restored is not verified.
Restored(account) ==
  IF account = Nobody THEN Disconnected ELSE [state |-> "pending", account |-> account]

Init ==
  /\ stored \in Accounts \cup {Nobody}
  /\ session = Restored(stored)
  /\ provider \in Providers
  /\ pass = NoPass /\ connecting = 0 /\ mounted = FALSE
  /\ named = {} /\ loads = 0

SetConnected(account) ==
  /\ session' = [state |-> "verified", account |-> account]
  /\ stored' = account
ClearSession == session' = Disconnected /\ stored' = Nobody

Pending == session.state = "pending"
Connected == session.account # Nobody

-----------------------------------------------------------------------------
(* The page and its surroundings. *)

Load ==
  /\ loads < MaxLoads /\ loads' = loads + 1                       \* bound of the model
  /\ session' = Restored(stored)
  /\ provider' \in Providers
  /\ pass' = NoPass /\ connecting' = 0 /\ mounted' = FALSE
  /\ named' = {}
  /\ UNCHANGED stored

\* A wallet extension injects its provider after the page has started.
ProviderAppears ==
  /\ provider' \in IF provider = "none" THEN {"legacy", "nep21"} ELSE {"nep21"}
  /\ provider' # provider
  /\ UNCHANGED <<session, stored, pass, connecting, mounted, named, loads>>

OtherTab ==
  /\ stored' \in Accounts \cup {Nobody}
  /\ UNCHANGED <<session, provider, pass, connecting, mounted, named, loads>>

-----------------------------------------------------------------------------
(* The user. *)

Disconnect ==
  /\ Connected /\ ClearSession
  /\ UNCHANGED <<provider, pass, connecting, mounted, named, loads>>

Connect ==
  /\ connecting < MaxConnects                                     \* bound of the model
  /\ connecting' = connecting + 1
  /\ UNCHANGED <<session, stored, provider, pass, mounted, named, loads>>

\* However long the wallet's prompt was open.
ConnectDone ==
  /\ connecting > 0 /\ connecting' = connecting - 1
  /\ provider # "none"
  /\ \E account \in Accounts : SetConnected(account) /\ named' = named \cup {account}
  /\ UNCHANGED <<provider, pass, mounted, loads>>

\* No provider, no address, or the user declines.
ConnectFails ==
  /\ connecting > 0 /\ connecting' = connecting - 1
  /\ UNCHANGED <<session, stored, provider, pass, mounted, named, loads>>

-----------------------------------------------------------------------------
(* Reconciliation. *)

\* reconcileSession, of a pending session: a caller shares the pass that is under way.  A provider
\* that is there is asked at once.
Reconcile(account) ==
  pass' = IF pass # NoPass THEN pass
          ELSE [phase |-> IF provider = "nep21" THEN "asked" ELSE "looking", cached |-> account]

\* A component that uses the wallet is mounted.
Mount ==
  /\ mounted' = TRUE
  /\ IF Pending THEN Reconcile(session.account) ELSE UNCHANGED pass
  /\ UNCHANGED <<session, stored, provider, connecting, named, loads>>

\* Neo.DapiProvider.ready.  A connect or a disconnect may have come first.
ProviderReady ==
  /\ pass.phase = "looking" /\ provider = "nep21"
  /\ pass' = IF Pending THEN [pass EXCEPT !.phase = "asked"] ELSE NoPass
  /\ UNCHANGED <<session, stored, provider, connecting, mounted, named, loads>>

\* Without any provider the session cannot be verified; with one that would have to prompt the
\* user it stays as it is.
ProviderTimeout ==
  /\ pass.phase = "looking" /\ pass' = NoPass
  /\ IF Pending /\ provider = "none" THEN ClearSession ELSE UNCHANGED <<session, stored>>
  /\ UNCHANGED <<provider, connecting, mounted, named, loads>>

\* The cached account if the wallet has it, else its default, else none.
Selection(accounts) ==
  IF pass.cached \in accounts THEN {pass.cached} ELSE accounts

StillHeard == pass # NoPass                                       \* mutant
StillPending == Pending

Adopt(accounts) ==
  IF accounts = {} THEN ClearSession
  ELSE \E account \in Selection(accounts) : SetConnected(account)

\* getAccounts answers, or fails and counts as empty.
AccountsAnswered ==
  /\ pass.phase = "asked" /\ pass' = NoPass
  /\ \E accounts \in SUBSET Accounts :
       /\ named' = named \cup accounts
       /\ IF StillPending THEN Adopt(accounts) ELSE UNCHANGED <<session, stored>>
  /\ UNCHANGED <<provider, connecting, mounted, loads>>

-----------------------------------------------------------------------------
(* The wallet's events. *)

HandleAccountChanged ==
  /\ Connected
  /\ \E account \in Accounts \ {session.account} :
       SetConnected(account) /\ named' = named \cup {account}
  /\ UNCHANGED <<provider, pass, connecting, mounted, loads>>

JoinPass(account) == UNCHANGED pass                               \* mutant
ForceReconcile(account) == Reconcile(account)

HandleNetworkChanged ==
  /\ Connected
  /\ session' = [session EXCEPT !.state = "pending"]
  /\ ForceReconcile(session.account)
  /\ UNCHANGED <<stored, provider, connecting, mounted, named, loads>>

Next ==
  \/ Load \/ ProviderAppears \/ OtherTab
  \/ Disconnect \/ Connect \/ ConnectDone \/ ConnectFails
  \/ Mount \/ ProviderReady \/ ProviderTimeout \/ AccountsAnswered
  \/ HandleAccountChanged \/ HandleNetworkChanged

Spec == Init /\ [][Next]_vars

\* Every page mounts the wallet's controls once, timers run out, and the wallet answers.
FairSpec ==
  /\ Spec
  /\ WF_vars(~mounted /\ Mount)
  /\ WF_vars(ProviderReady \/ ProviderTimeout) /\ WF_vars(AccountsAnswered)

-----------------------------------------------------------------------------
(* Properties. *)

\* Nothing but the user's connect, or a page load, makes a session where there was none: no answer
\* or event that comes late brings one back that was ended meanwhile.  And no account counts as
\* verified that the wallet has not named to this page.
SessionIsVouchedFor ==
  [][/\ ~Connected /\ Connected' => connecting' < connecting \/ loads' # loads
     /\ session'.state = "verified" => session'.account \in named']_vars

\* With a wallet that can be asked, a session does not stay pending, however often the network
\* changes, the session is changed or the page is reloaded meanwhile.
PendingIsSettled == [](provider = "nep21") => (Pending ~> ~Pending)
=============================================================================

---------------------------- MODULE AddressMarket ----------------------------
(***************************************************************************)
(* contracts/market/AAAddressMarket.cs composed with the core's escrow     *)
(* (AbstractAccount) and the GAS ledger.  The market calls the core in     *)
(* CreateListing, CancelListing and SettleListing; the core calls back     *)
(* into the market (abandonListing) whenever it clears an escrow itself.   *)
(*                                                                         *)
(* SettleListing pays the seller before it moves the account and before it *)
(* records the sale.  A seller that is a contract runs its own code in     *)
(* between (onNEP17Payment), with its own witness and the payer's, so a    *)
(* settlement is several steps: the call is suspended in "settling" with   *)
(* the state to go back to, callbacks may run, and it either finishes or   *)
(* the whole transaction reverts.  A callback does not settle again: one   *)
(* suspended settlement at a time is a bound of the model.                 *)
(***************************************************************************)
EXTENDS AbstractAccount, Functions

CONSTANTS
  ThisMarket,       \* this contract
  ContractOwners,   \* the owners that are contracts and run code when paid
  Prices,           \* prices between MinListingPrice and MaxListingPrice
  InitialGas        \* what every owner starts with

ASSUME MarketAssumption ==
  /\ ThisMarket \in Markets /\ ThisMarket \notin Owners
  /\ IsFiniteSet(Owners)                  \* addresses have 160 bits
  /\ ContractOwners \subseteq Owners
  /\ Prices \subseteq Nat \ {0}
  /\ InitialGas \in Nat

VARIABLES
  allowedAA,        \* Prefix_AllowedAA, for the core
  nextListingId,    \* Prefix_NextListingId
  listings,         \* Prefix_Listing
  pendingPayment,   \* Prefix_PendingPayment
  pendingCount,     \* Prefix_PendingCount
  gas,              \* GAS balances
  settling          \* the suspended SettleListing call, with the state it reverts to

marketVars == <<allowedAA, nextListingId, listings, pendingPayment, pendingCount, gas>>
allVars == <<vars, marketVars, settling>>

ListingIds == 1..MaxListing
Payers == Owners
Holders == Owners \cup {ThisMarket}
Amounts == Prices \cup {0}        \* what a caller can name: 0 is below every valid price

StatusNone == 0
StatusActive == 1
StatusSold == 2
StatusCancelled == 3

NoListing == [account |-> Zero, seller |-> Zero, price |-> 0,
              status |-> StatusNone, buyer |-> Zero]
Idle == [listing |-> 0]

MarketInit ==
  /\ Init
  /\ allowedAA = FALSE
  /\ nextListingId = 1
  /\ listings = [l \in ListingIds |-> NoListing]
  /\ pendingPayment = [l \in ListingIds |-> [p \in Payers |-> 0]]
  /\ pendingCount = [l \in ListingIds |-> 0]
  /\ gas = [h \in Holders |-> IF h = ThisMarket THEN 0 ELSE InitialGas]
  /\ settling = Idle

(***************************************************************************)
(* Helpers of the contract, and the GAS contract's transfer.               *)
(***************************************************************************)
IsActive(l) == listings[l].status = StatusActive
AnyPrice(price) == price >= 0                                     \* mutant
ValidPrice(price) == price \in Prices
NoPaymentInFlight(l) == pendingCount[l] = 0
AnyPayer(l, payer) == payer \in Payers                            \* mutant
HasPaidPrice(l, payer) == pendingPayment[l][payer] = listings[l].price
RefundableWhileActive(l, payer) ==                                \* mutant
  IsActive(l) /\ pendingPayment[l][payer] > 0
Refundable(l, payer) == pendingPayment[l][payer] > 0

PutPendingPayment(l, payer, amount) ==
  /\ pendingPayment' = [pendingPayment EXCEPT ![l][payer] = amount]
  /\ pendingCount' = [pendingCount EXCEPT ![l] = @ + 1]

CountDownOnly(l, payer) ==                                        \* mutant
  /\ pendingCount' = [pendingCount EXCEPT ![l] = IF @ <= 1 THEN 0 ELSE @ - 1]
  /\ UNCHANGED pendingPayment

ClearPendingPayment(l, payer) ==
  /\ pendingPayment' = [pendingPayment EXCEPT ![l][payer] = 0]
  /\ pendingCount' = [pendingCount EXCEPT ![l] = IF @ <= 1 THEN 0 ELSE @ - 1]

Transfer(from, to, amount) ==
  /\ gas[from] >= amount
  /\ gas' = [gas EXCEPT ![from] = @ - amount, ![to] = @ + amount]

\* AbandonListing, called by the core for account a; a listing that is not Active stays as it is.
AbandonListing(a, l) ==
  listings' = IF listings[l].account = a /\ IsActive(l)
              THEN [listings EXCEPT ![l].status = StatusCancelled]
              ELSE listings

(***************************************************************************)
(* The market's entry points.                                              *)
(***************************************************************************)
SetAllowedAA(allowed) ==
  /\ allowedAA' = allowed
  /\ UNCHANGED <<vars, nextListingId, listings, pendingPayment, pendingCount, gas>>

CreateListing(a, who, price) ==
  /\ allowedAA
  /\ ValidPrice(price)
  /\ nextListingId \in ListingIds                          \* bound of the model
  /\ EnterMarketEscrow(a, who, ThisMarket, nextListingId)
  /\ nextListingId' = nextListingId + 1
  /\ listings' = [listings EXCEPT ![nextListingId] =
       [account |-> a, seller |-> backupOwner[a], price |-> price,
        status |-> StatusActive, buyer |-> Zero]]
  /\ UNCHANGED <<allowedAA, pendingPayment, pendingCount, gas>>

UpdateListingPrice(l, who, newPrice) ==
  /\ ValidPrice(newPrice)
  /\ IsActive(l)
  /\ who = listings[l].seller
  /\ NoPaymentInFlight(l)
  /\ listings' = [listings EXCEPT ![l].price = newPrice]
  /\ UNCHANGED <<vars, allowedAA, nextListingId, pendingPayment, pendingCount, gas>>

\* The core clears its escrow and calls back AbandonListing before the listing is put again.
CancelListing(l, who) ==
  /\ IsActive(l)
  /\ who = listings[l].seller
  /\ NoPaymentInFlight(l)
  /\ CancelMarketEscrow(listings[l].account, ThisMarket, l)
  /\ listings' = [listings EXCEPT ![l].status = StatusCancelled]
  /\ UNCHANGED <<allowedAA, nextListingId, pendingPayment, pendingCount, gas>>

\* A GAS transfer to the market that names a listing.
OnNEP17Payment(l, from, amount) ==
  /\ amount > 0
  /\ IsActive(l)
  /\ amount = listings[l].price
  /\ pendingPayment[l][from] = 0
  /\ Transfer(from, ThisMarket, amount)
  /\ PutPendingPayment(l, from, amount)
  /\ UNCHANGED <<vars, allowedAA, nextListingId, listings>>

\* Any status.  The transfer is the last call, so what a paid contract does comes after it.
RefundPendingPayment(l, payer) ==
  /\ Refundable(l, payer)
  /\ ClearPendingPayment(l, payer)
  /\ Transfer(ThisMarket, payer, pendingPayment[l][payer])
  /\ UNCHANGED <<vars, allowedAA, nextListingId, listings>>

(***************************************************************************)
(* SettleListing: from the checks to the payout, and from the return of    *)
(* the payout to the end.  "listing" is the copy the call has read.        *)
(***************************************************************************)
CurrentState ==
  [escrow |-> escrow, nextListingId |-> nextListingId, listings |-> listings,
   pendingPayment |-> pendingPayment, pendingCount |-> pendingCount, gas |-> gas]

BeginSettleListing(l, payer, newBackupOwner) ==
  /\ IsActive(l)
  /\ HasPaidPrice(l, payer)
  /\ ClearPendingPayment(l, payer)
  /\ Transfer(ThisMarket, listings[l].seller, listings[l].price)
  /\ settling' = [listing |-> l, copy |-> listings[l], payer |-> payer,
                  newBackupOwner |-> newBackupOwner, saved |-> CurrentState]
  /\ UNCHANGED <<vars, allowedAA, nextListingId, listings>>

FinishSettleListing ==
  LET l == settling.listing
      listing == settling.copy
  IN
  /\ SettleMarketEscrow(listing.account, ThisMarket, l, settling.newBackupOwner)
  /\ listings' = [listings EXCEPT ![l] =
       [listing EXCEPT !.status = StatusSold, !.buyer = settling.payer]]
  /\ settling' = Idle
  /\ UNCHANGED <<allowedAA, nextListingId, pendingPayment, pendingCount, gas>>

\* A failed Assert, or a fault in the callback, reverts the whole transaction.
RevertSettleListing ==
  LET s == settling.saved IN
  /\ escrow' = s.escrow /\ nextListingId' = s.nextListingId /\ listings' = s.listings
  /\ pendingPayment' = s.pendingPayment /\ pendingCount' = s.pendingCount /\ gas' = s.gas
  /\ settling' = Idle
  /\ UNCHANGED <<now, module, backupOwner, escapeVars, pendingVars, metadataUri, nonce,
                 pluginConfig, allowedAA>>

(***************************************************************************)
(* The core's own escrow clearing, which notifies this market.             *)
(***************************************************************************)
ForceCancelUnpaid(a, who) ==                                      \* mutant
  /\ IsMarketEscrowActive(a) /\ NoPaymentInFlight(escrow[a].listing)
  /\ ForceCancelMarketEscrow(a, who)
  /\ AbandonListing(a, escrow[a].listing)
  /\ UNCHANGED <<allowedAA, nextListingId, pendingPayment, pendingCount, gas>>

OwnerForceCancel(a, who) ==
  /\ ForceCancelMarketEscrow(a, who)
  /\ IF escrow[a].market = ThisMarket
     THEN AbandonListing(a, escrow[a].listing)
     ELSE UNCHANGED listings
  /\ UNCHANGED <<allowedAA, nextListingId, pendingPayment, pendingCount, gas>>

(***************************************************************************)
(* The specification.  The core operations that neither read nor write an  *)
(* escrow or an owner commute with the market and stay with                *)
(* AbstractAccount, which checks them against any market.                  *)
(***************************************************************************)
\* What a transaction or a callback that carries who's witness can do.
WitnessedNext(who) ==
  \/ \E a \in Accounts, price \in Amounts : CreateListing(a, who, price)
  \/ \E l \in ListingIds, amount \in Amounts :
       UpdateListingPrice(l, who, amount) \/ OnNEP17Payment(l, who, amount)
  \/ \E l \in ListingIds : CancelListing(l, who) \/ RefundPendingPayment(l, who)
  \/ \E a \in Accounts :
       \/ OwnerForceCancel(a, who)
       \/ InitiateMarketEscrowCancel(a, who) /\ UNCHANGED marketVars

OwnerTransaction == settling = Idle /\ (\E who \in Owners : WitnessedNext(who)) /\ UNCHANGED settling

Registration ==
  /\ settling = Idle
  /\ \E who \in Owners : RegistrationNext(who)
  /\ UNCHANGED <<marketVars, settling>>

AdminTransaction ==
  settling = Idle /\ (\E allowed \in BOOLEAN : SetAllowedAA(allowed)) /\ UNCHANGED settling

NewBlock == settling = Idle /\ Tick /\ UNCHANGED <<marketVars, settling>>

SettleTransaction ==
  /\ settling = Idle
  /\ \E l \in ListingIds, payer \in Payers, o \in Owners : BeginSettleListing(l, payer, o)

InCallback ==
  /\ settling # Idle
  /\ settling.copy.seller \in ContractOwners
  /\ \E who \in {settling.copy.seller, settling.payer} : WitnessedNext(who)
  /\ UNCHANGED settling

AfterCallback == settling # Idle /\ (FinishSettleListing \/ RevertSettleListing)

MarketNextStep ==
  \/ OwnerTransaction \/ Registration \/ AdminTransaction \/ NewBlock
  \/ SettleTransaction \/ InCallback \/ AfterCallback

MarketSpec == MarketInit /\ [][MarketNextStep]_allVars

(***************************************************************************)
(* Fairness: blocks keep coming, a started transaction ends (it has a gas  *)
(* limit), and a transaction an owner or a depositor keeps sending is in   *)
(* the end included when it is valid, whatever else is in the blocks.      *)
(***************************************************************************)
ReleasedByOwner(a) ==
  settling = Idle /\ (\E who \in Owners : OwnerForceCancel(a, who)) /\ UNCHANGED settling
RefundedTo(l, p) == settling = Idle /\ RefundPendingPayment(l, p) /\ UNCHANGED settling

FairMarketSpec ==
  /\ MarketSpec
  /\ SF_allVars(NewBlock) /\ WF_allVars(AfterCallback)
  /\ \A a \in Accounts : SF_allVars(ReleasedByOwner(a))
  /\ \A l \in ListingIds, p \in Payers : SF_allVars(RefundedTo(l, p))

(***************************************************************************)
(* Properties.                                                             *)
(***************************************************************************)

\* The market's variables keep their type; a listing has a price within the market's bounds.
MarketTypeOK ==
  /\ allowedAA \in BOOLEAN
  /\ nextListingId \in 1..MaxListing + 1
  /\ listings \in [ListingIds -> [account : Accounts \cup {Zero}, seller : Owners \cup {Zero},
                                  price : Prices \cup {0}, status : 0..3,
                                  buyer : Owners \cup {Zero}]]
  /\ \A l \in ListingIds : listings[l] = NoListing \/ listings[l].price \in Prices
  /\ pendingPayment \in [ListingIds -> [Payers -> Prices \cup {0}]]
  /\ pendingCount \in [ListingIds -> Nat]
  /\ gas \in [Holders -> Nat]

\* The two contracts agree on what is for sale: an account is in this market's escrow under
\* listing l exactly when l is an Active listing of it.  No zombie listing, no account locked
\* for a listing that is over; also at every point inside a settlement's callback.
EscrowMatchesListing ==
  \A a \in Accounts, l \in ListingIds :
    (escrow[a].market = ThisMarket /\ escrow[a].listing = l)
      <=> (IsActive(l) /\ listings[l].account = a)

\* Whoever is paid for an account is the one who loses it: the seller recorded when the listing
\* was created is still the backup owner while the listing is Active.
SellerIsOwner ==
  \A l \in ListingIds : IsActive(l) => listings[l].seller = backupOwner[listings[l].account]

\* What is for sale is what the core holds in escrow, and the seller's to sell.
ListingsAreReal == EscrowMatchesListing /\ SellerIsOwner

Deposits(l) == SumFunction(pendingPayment[l])

\* The contract holds exactly the deposits it still owes back or has yet to pay out.
Solvent == gas[ThisMarket] = SumFunction([l \in ListingIds |-> Deposits(l)])

\* pendingCount, which blocks a price change or a cancellation, counts the deposits exactly.
CountIsExact ==
  \A l \in ListingIds :
    pendingCount[l] = Cardinality({p \in Payers : pendingPayment[l][p] > 0})

\* A deposit on an Active listing is its price, so every depositor can settle at any time: the
\* price cannot be moved under a payment in flight.
DepositIsPrice ==
  \A l \in ListingIds, p \in Payers :
    IsActive(l) => pendingPayment[l][p] \in {0, listings[l].price}

\* Deposits are all there, all counted, and enough to buy what they were paid for.
DepositsAreKept == Solvent /\ CountIsExact /\ DepositIsPrice

\* A depositor's money counts as the depositor's.
WealthIn(pay, g) ==
  [p \in Owners |-> g[p] + SumFunction([l \in ListingIds |-> pay[l][p]])]
Sold(l) == listings[l].status = StatusSold
SoldFor(ls) == SumFunctionOnSet([l \in ListingIds |-> listings[l].price], ls)

\* The books balance: between transactions an owner has what the recorded sales say, no more and
\* no less.  Nobody pays without a sale or is paid twice for one.
BooksBalance ==
  settling = Idle =>
    \A p \in Owners :
      WealthIn(pendingPayment, gas)[p] = InitialGas
        + SoldFor({l \in ListingIds : Sold(l) /\ listings[l].seller = p})
        - SoldFor({l \in ListingIds : Sold(l) /\ listings[l].buyer = p})

\* Seen from outside a transaction the market is AtomicSale: an account changes hands in one step
\* with its price, whatever the seller's contract does while it is being paid.
Sale == INSTANCE AtomicSale WITH
  owner <- backupOwner,
  wealth <- IF settling = Idle THEN WealthIn(pendingPayment, gas)
            ELSE WealthIn(settling.saved.pendingPayment, settling.saved.gas)
SaleSpec == Sale!Spec

\* An escrow whose owner has asked for its cancellation ends, unless the owner restarts the timer:
\* neither depositors, who can block CancelListing, nor the market can hold the account.  (Stated
\* for the timers that can run out within the model's clock.)
EscrowIsReleased ==
  \A a \in Accounts, t \in Times \ {0} :
    (escrow[a].cancelAt = t /\ t + OwnerCancelTimelock <= MaxTime) ~> (escrow[a].cancelAt # t)

\* A depositor who keeps asking is paid back or gets the account, however the listing ends.
DepositIsRecoverable ==
  \A l \in ListingIds, p \in Payers :
    (pendingPayment[l][p] > 0) ~> (pendingPayment[l][p] = 0)
=============================================================================

------------------------ MODULE AddressMarket_proofs ------------------------
(***************************************************************************)
(* Proofs about AddressMarket: what is for sale and what is owed, for      *)
(* every finite set of owners and every set of accounts, listings and      *)
(* prices.                                                                 *)
(*                                                                         *)
(* A settlement may revert to the state it saved, and its callback may do  *)
(* anything an owner can do.  So the invariant is stated of a snapshot of  *)
(* the state, and holds of the current one and of the saved one; beside it *)
(* stands what relates the two.                                            *)
(***************************************************************************)
EXTENDS AddressMarket, AbstractAccount_proofs, Sums

Listing == [account : Accounts \cup {Zero}, seller : Owners \cup {Zero}, price : Prices \cup {0},
            status : 0..3, buyer : Owners \cup {Zero}]
Snapshot ==
  [escrow : [Accounts -> MarketEscrow], nextListingId : 1..MaxListing + 1,
   listings : [ListingIds -> Listing],
   pendingPayment : [ListingIds -> [Payers -> Prices \cup {0}]],
   pendingCount : [ListingIds -> Nat], gas : [Holders -> Nat]]
Settlement ==
  [listing : ListingIds, copy : Listing, payer : Payers, newBackupOwner : Owners,
   saved : Snapshot]

Settling == settling # Idle
SettlingOK == Settling => settling \in Settlement

\* An escrow of this market and an Active listing are two sides of one thing.
Agree(c) ==
  \A a \in Accounts, l \in ListingIds :
    (c.escrow[a].market = ThisMarket /\ c.escrow[a].listing = l)
      <=> (c.listings[l].status = StatusActive /\ c.listings[l].account = a)

\* An Active listing is of an account that exists, and by its owner.
Owned(c) ==
  \A l \in ListingIds : c.listings[l].status = StatusActive =>
    /\ c.listings[l].account \in Accounts /\ c.listings[l].seller \in Owners
    /\ c.listings[l].price \in Prices
    /\ c.listings[l].seller = backupOwner[c.listings[l].account]

\* Listings that have not been made yet are blank, and nobody has paid for them.
Blank(c) ==
  \A l \in ListingIds :
    /\ l >= c.nextListingId => c.listings[l] = NoListing
    /\ c.listings[l] = NoListing \/ c.listings[l].price \in Prices
    /\ c.listings[l] = NoListing => \A p \in Payers : c.pendingPayment[l][p] = 0

\* What a payment function says: who has paid, all that is owed, what one payer has paid in.
PaidUp(h) == {q \in Payers : h[q] > 0}
Owed(f) == SumFunction([k \in ListingIds |-> SumFunction(f[k])])
PaidInBy(f, q) == SumFunction([k \in ListingIds |-> f[k][q]])

Counted(c) ==
  \A l \in ListingIds : c.pendingCount[l] = Cardinality(PaidUp(c.pendingPayment[l]))

Priced(c) ==
  \A l \in ListingIds, p \in Payers : c.listings[l].status = StatusActive =>
    c.pendingPayment[l][p] \in {0, c.listings[l].price}

Backed(c) ==
  c.gas[ThisMarket] = Owed(c.pendingPayment)

Good(c) == Agree(c) /\ Owned(c) /\ Blank(c) /\ Counted(c) /\ Priced(c) /\ Backed(c)

SoldBy(c, p) == {l \in ListingIds : c.listings[l].status = StatusSold /\ c.listings[l].seller = p}
SoldTo(c, p) == {l \in ListingIds : c.listings[l].status = StatusSold /\ c.listings[l].buyer = p}
Price(c) == [l \in ListingIds |-> c.listings[l].price]
Balanced(c) ==
  \A p \in Owners :
    WealthIn(c.pendingPayment, c.gas)[p] = InitialGas
      + SumFunctionOnSet(Price(c), SoldBy(c, p)) - SumFunctionOnSet(Price(c), SoldTo(c, p))

\* What the suspended settlement has moved so far, and may still take back.
InFlight(p) ==
  (IF p = settling.copy.seller THEN settling.copy.price ELSE 0)
    - (IF p = settling.payer THEN settling.copy.price ELSE 0)

\* Where a suspended settlement stands: the listing it read was Active and paid for, nothing but
\* its price has moved, and what had been sold before it is still what is sold.
Suspended ==
  LET s == settling.saved IN
  /\ settling.copy = s.listings[settling.listing]
  /\ settling.copy.status = StatusActive
  /\ s.pendingPayment[settling.listing][settling.payer] = settling.copy.price
  /\ \A p \in Owners :
       WealthIn(pendingPayment, gas)[p]
         = WealthIn(s.pendingPayment, s.gas)[p] + InFlight(p)
  /\ \A l \in ListingIds :
       /\ Sold(l) <=> s.listings[l].status = StatusSold
       /\ Sold(l) => listings[l] = s.listings[l]

MarketInv ==
  /\ TypeOK /\ MarketTypeOK /\ SettlingOK
  /\ Good(CurrentState)
  /\ Balanced(IF Settling THEN settling.saved ELSE CurrentState)
  /\ Settling => Good(settling.saved) /\ Suspended

(***************************************************************************)
(* The steps.  In a callback the seller or the payer acts, both of them    *)
(* owners.                                                                 *)
(***************************************************************************)
LEMMA MarketCases ==
  ASSUME SettlingOK, [MarketNextStep]_allVars
  PROVE  \/ (\E who \in Owners : WitnessedNext(who)) /\ UNCHANGED settling
         \/ /\ \/ \E who \in Owners : RegistrationNext(who) /\ UNCHANGED marketVars
               \/ \E allowed \in BOOLEAN : SetAllowedAA(allowed)
               \/ Tick /\ UNCHANGED marketVars
            /\ ~Settling /\ UNCHANGED settling
         \/ /\ ~Settling
            /\ \E l \in ListingIds, payer \in Payers, o \in Owners :
                 BeginSettleListing(l, payer, o)
         \/ Settling /\ FinishSettleListing
         \/ Settling /\ RevertSettleListing
         \/ UNCHANGED allVars
<1>1. CASE InCallback
  <2>1. Settling /\ settling.copy.seller \in Owners /\ settling.payer \in Owners
    BY <1>1, MarketAssumption DEF InCallback, Settling, SettlingOK, Settlement, Payers
  <2>2. PICK who \in {settling.copy.seller, settling.payer} : WitnessedNext(who)
    BY <1>1 DEF InCallback
  <2> QED
    BY <1>1, <2>1, <2>2 DEF InCallback
<1>2. CASE Registration
  BY <1>2 DEF Registration, Settling
<1>3. CASE OwnerTransaction
  BY <1>3 DEF OwnerTransaction
<1>4. CASE AdminTransaction \/ NewBlock
  BY <1>4 DEF AdminTransaction, NewBlock, Settling
<1>5. CASE SettleTransaction
  BY <1>5 DEF SettleTransaction, Settling
<1>6. CASE AfterCallback
  BY <1>6 DEF AfterCallback, Settling
<1> QED
  BY <1>1, <1>2, <1>3, <1>4, <1>5, <1>6 DEF MarketNextStep

(***************************************************************************)
(* Types.  Apart from a revert, a step of the market is a step of the core *)
(* or leaves the core alone.                                               *)
(***************************************************************************)
LEMMA CoreStep ==
  ASSUME MarketInv, [MarketNextStep]_allVars, ~(Settling /\ RevertSettleListing)
  PROVE  [Next]_vars
<1> USE MarketAssumption
<1>1. ASSUME NEW who \in Owners, NEW a \in Accounts, NEW price \in Amounts,
             CreateListing(a, who, price)
      PROVE  Next
  BY <1>1 DEF CreateListing, Next, MarketNext, ListingIds
<1>2. ASSUME NEW who \in Owners, NEW l \in ListingIds, CancelListing(l, who)
      PROVE  Next
  <2>1. listings[l].account \in Accounts
    BY <1>2 DEF CancelListing, MarketInv, Good, Owned, CurrentState, IsActive
  <2> QED
    BY <1>2, <2>1 DEF CancelListing, Next, MarketNext, ListingIds
<1>3. ASSUME NEW who \in Owners, NEW a \in Accounts,
             OwnerForceCancel(a, who) \/ InitiateMarketEscrowCancel(a, who)
      PROVE  Next
  BY <1>3 DEF OwnerForceCancel, Next, OwnerEscrowNext
<1>4. ASSUME Settling, FinishSettleListing
      PROVE  Next
  <2>1. settling.listing \in ListingIds /\ settling.newBackupOwner \in Owners
    BY <1>4 DEF MarketInv, SettlingOK, Settlement
  <2>2. settling.copy.account \in Accounts
    BY <1>4, <2>1 DEF MarketInv, Suspended, Good, Owned
  <2>3. SettleMarketEscrow(settling.copy.account, ThisMarket, settling.listing,
                           settling.newBackupOwner)
    BY <1>4 DEF FinishSettleListing
  <2> QED
    BY <2>1, <2>2, <2>3 DEF Next, MarketNext, ListingIds
<1>5. ASSUME NEW who \in Owners, RegistrationNext(who)
      PROVE  Next
  BY <1>5 DEF Next
<1> QED
  BY MarketCases, <1>1, <1>2, <1>3, <1>4, <1>5
     DEF MarketInv, WitnessedNext, UpdateListingPrice, OnNEP17Payment, RefundPendingPayment, SetAllowedAA, Next,
         BeginSettleListing, allVars

\* What a settlement saves is of the type it has to be restored to.
LEMMA SnapshotType == TypeOK /\ MarketTypeOK => CurrentState \in Snapshot
BY DEF TypeOK, MarketTypeOK, CurrentState, Snapshot, Listing

\* A transfer between two holders leaves every balance a natural number.
LEMMA TransferType ==
  ASSUME gas \in [Holders -> Nat], NEW from \in Holders, NEW to \in Holders, from # to,
         NEW amount \in Nat, Transfer(from, to, amount)
  PROVE  /\ gas' \in [Holders -> Nat]
         /\ gas'[from] = gas[from] - amount /\ gas'[to] = gas[to] + amount
         /\ \A h \in Holders \ {from, to} : gas'[h] = gas[h]
BY DEF Transfer

\* The two ways a deposit moves.
LEMMA PaymentType ==
  ASSUME MarketTypeOK, NEW l \in ListingIds, NEW p \in Payers
  PROVE  /\ ClearPendingPayment(l, p) =>
              /\ pendingPayment' \in [ListingIds -> [Payers -> Prices \cup {0}]]
              /\ pendingCount' \in [ListingIds -> Nat]
         /\ \A amount \in Amounts : PutPendingPayment(l, p, amount) =>
              /\ pendingPayment' \in [ListingIds -> [Payers -> Prices \cup {0}]]
              /\ pendingCount' \in [ListingIds -> Nat]
<1>1. ASSUME NEW x \in Prices \cup {0}, pendingPayment' = [pendingPayment EXCEPT ![l][p] = x]
      PROVE  pendingPayment' \in [ListingIds -> [Payers -> Prices \cup {0}]]
  <2>1. [pendingPayment[l] EXCEPT ![p] = x] \in [Payers -> Prices \cup {0}]
    BY DEF MarketTypeOK
  <2> QED
    BY <1>1, <2>1 DEF MarketTypeOK
<1>2. ClearPendingPayment(l, p) => pendingCount' \in [ListingIds -> Nat]
  BY DEF ClearPendingPayment, MarketTypeOK
<1>3. ASSUME NEW amount, PutPendingPayment(l, p, amount)
      PROVE  pendingCount' \in [ListingIds -> Nat]
  BY <1>3 DEF PutPendingPayment, MarketTypeOK
<1> QED
  BY <1>1, <1>2, <1>3 DEF ClearPendingPayment, PutPendingPayment, Amounts

\* Prices and deposits are natural numbers.
LEMMA AmountsAreNat ==
  ASSUME NEW x \in Prices \cup {0}
  PROVE  x \in Nat
BY MarketAssumption

\* A deposit is an amount of GAS.
LEMMA DepositType ==
  ASSUME MarketTypeOK, NEW l \in ListingIds, NEW p \in Owners
  PROVE  pendingPayment[l][p] \in Prices \cup {0} /\ pendingPayment[l][p] \in Nat
<1>1. pendingPayment[l] \in [Owners -> Prices \cup {0}]
  BY DEF MarketTypeOK, Payers
<1>2. pendingPayment[l][p] \in Prices \cup {0}
  BY <1>1
<1> QED
  BY <1>2, AmountsAreNat

\* A listing that is called off is a listing still.
LEMMA CancelledType ==
  ASSUME MarketTypeOK, NEW l \in ListingIds, IsActive(l),
         listings' = [listings EXCEPT ![l].status = StatusCancelled]
  PROVE  /\ listings' \in [ListingIds -> Listing]
         /\ \A k \in ListingIds : listings'[k] = NoListing \/ listings'[k].price \in Prices
<1>1. listings \in [ListingIds -> Listing]
  BY DEF MarketTypeOK, Listing
<1>2. listings[l].price \in Prices
  BY DEF MarketTypeOK, IsActive, NoListing, StatusActive, StatusNone
<1>3. [listings[l] EXCEPT !.status = StatusCancelled] \in Listing
  BY <1>1 DEF Listing, StatusCancelled
<1>4. listings'[l] = [listings[l] EXCEPT !.status = StatusCancelled]
  BY <1>1
<1>5. listings'[l].price = listings[l].price
  BY <1>1, <1>4 DEF Listing
<1> QED
  BY <1>1, <1>2, <1>3, <1>4, <1>5 DEF MarketTypeOK

\* A listing that is sold differs in its status and its buyer.
SoldCopy(c, p) == [c EXCEPT !.status = StatusSold, !.buyer = p]

\* A listing that is sold is a listing still.
LEMMA SoldType ==
  ASSUME NEW c \in Listing, NEW p \in Owners
  PROVE  /\ SoldCopy(c, p) \in Listing
         /\ SoldCopy(c, p).status = StatusSold /\ SoldCopy(c, p).buyer = p
         /\ SoldCopy(c, p).seller = c.seller /\ SoldCopy(c, p).price = c.price
<1>1. StatusSold \in 0..3
  BY DEF StatusSold
<1>2. PICK z : z = [c EXCEPT !.status = StatusSold, !.buyer = p]
  OBVIOUS
<1>3. z \in Listing
  BY <1>1, <1>2 DEF Listing
<1>4. /\ z.status = StatusSold /\ z.buyer = p
      /\ z.seller = c.seller /\ z.price = c.price
  BY <1>2 DEF Listing
<1>5. SoldCopy(c, p) = z
  BY <1>2 DEF SoldCopy
<1> QED
  BY <1>3, <1>4, <1>5

\* The core's types are kept by every step, a revert included.
LEMMA CoreTypeStep == MarketInv /\ [MarketNextStep]_allVars => TypeOK'
<1> SUFFICES ASSUME MarketInv, [MarketNextStep]_allVars PROVE TypeOK'
  OBVIOUS
<1>1. CASE Settling /\ RevertSettleListing
  <2>1. settling.saved.escrow \in [Accounts -> MarketEscrow]
    BY <1>1 DEF MarketInv, SettlingOK, Settlement, Snapshot
  <2> QED
    BY <1>1, <2>1 DEF MarketInv, RevertSettleListing, TypeOK, escapeVars, pendingVars
<1>2. CASE ~(Settling /\ RevertSettleListing)
  <2>1. [Next]_vars
    BY <1>2, CoreStep
  <2> QED
    BY <2>1, TypeStep DEF MarketInv
<1> QED
  BY <1>1, <1>2

\* The market's types are kept by every step.
LEMMA MarketTypeStep == MarketInv /\ [MarketNextStep]_allVars => MarketTypeOK'
<1> SUFFICES ASSUME MarketInv, [MarketNextStep]_allVars PROVE MarketTypeOK'
  OBVIOUS
<1> USE MarketAssumption DEF MarketInv
<1>1. ASSUME NEW who \in Owners, NEW a \in Accounts, NEW price \in Amounts,
             CreateListing(a, who, price)
      PROVE  MarketTypeOK'
  <2>1. backupOwner[a] \in Owners \cup {Zero} /\ price \in Prices
    BY <1>1 DEF TypeOK, CreateListing, ValidPrice
  <2>2. nextListingId + 1 \in 1..MaxListing + 1 /\ nextListingId \in ListingIds
    BY <1>1, BoundAssumption DEF CreateListing, ListingIds
  <2> QED
    BY <1>1, <2>1, <2>2 DEF CreateListing, MarketTypeOK, NoListing, StatusActive
<1>2. ASSUME NEW who \in Owners, NEW l \in ListingIds, NEW amount \in Amounts,
             UpdateListingPrice(l, who, amount)
      PROVE  MarketTypeOK'
  BY <1>2 DEF UpdateListingPrice, ValidPrice, MarketTypeOK
<1>3. ASSUME NEW who \in Owners, NEW l \in ListingIds, NEW amount \in Amounts,
             OnNEP17Payment(l, who, amount)
      PROVE  MarketTypeOK'
  <2>1. amount \in Nat /\ Transfer(who, ThisMarket, amount) /\ gas \in [Holders -> Nat]
    BY <1>3 DEF OnNEP17Payment, Amounts, MarketTypeOK
  <2>2. gas' \in [Holders -> Nat]
    BY <2>1, TransferType DEF Holders
  <2>3. /\ pendingPayment' \in [ListingIds -> [Payers -> Prices \cup {0}]]
        /\ pendingCount' \in [ListingIds -> Nat]
    BY <1>3, PaymentType DEF OnNEP17Payment, Payers
  <2> QED
    BY <1>3, <2>2, <2>3 DEF OnNEP17Payment, MarketTypeOK
<1>4. ASSUME NEW who \in Owners, NEW l \in ListingIds, CancelListing(l, who)
      PROVE  MarketTypeOK'
  <2>1. listings' = [listings EXCEPT ![l].status = StatusCancelled] /\ IsActive(l)
    BY <1>4 DEF CancelListing
  <2> QED
    BY <1>4, <2>1, CancelledType DEF CancelListing, MarketTypeOK, Listing
<1>5. ASSUME NEW who \in Owners, NEW l \in ListingIds, RefundPendingPayment(l, who)
      PROVE  MarketTypeOK'
  <2>1. pendingPayment[l][who] \in Nat
    BY DepositType
  <2> QED
    BY <1>5, <2>1, TransferType, PaymentType
       DEF RefundPendingPayment, MarketTypeOK, Holders, Payers
<1>6. ASSUME NEW who \in Owners, NEW a \in Accounts, OwnerForceCancel(a, who)
      PROVE  MarketTypeOK'
  <2>1. \/ listings' = listings
        \/ IsActive(escrow[a].listing)
             /\ listings' = [listings EXCEPT ![escrow[a].listing].status = StatusCancelled]
    BY <1>6 DEF OwnerForceCancel, AbandonListing
  <2>2. escrow[a].listing \in ListingIds
    BY <1>6, BoundAssumption
       DEF TypeOK, MarketEscrow, OwnerForceCancel, ForceCancelMarketEscrow, IsMarketEscrowActive, ListingIds
  <2> QED
    BY <1>6, <2>1, <2>2, CancelledType DEF OwnerForceCancel, MarketTypeOK, Listing
<1>7. ASSUME UNCHANGED marketVars
      PROVE  MarketTypeOK'
  BY <1>7 DEF marketVars, MarketTypeOK
<1>8. ASSUME NEW allowed \in BOOLEAN, SetAllowedAA(allowed)
      PROVE  MarketTypeOK'
  BY <1>8 DEF SetAllowedAA, MarketTypeOK
<1>9. ASSUME NEW l \in ListingIds, NEW payer \in Payers, NEW o \in Owners,
             BeginSettleListing(l, payer, o)
      PROVE  MarketTypeOK'
  <2>1. listings[l].seller \in Owners /\ listings[l].price \in Nat
    BY <1>9 DEF BeginSettleListing, Good, Owned, CurrentState, IsActive
  <2> QED
    BY <1>9, <2>1, TransferType, PaymentType DEF BeginSettleListing, MarketTypeOK, Holders
<1>10. ASSUME Settling, FinishSettleListing
       PROVE  MarketTypeOK'
  <2>1. /\ settling.listing \in ListingIds /\ settling.copy \in Listing
        /\ settling.payer \in Owners
    BY <1>10 DEF SettlingOK, Settlement, Payers
  <2>2. settling.copy.price \in Prices
    BY <1>10, <2>1 DEF Suspended, Good, Owned
  <2> QED
    <3>1. PICK z : z = SoldCopy(settling.copy, settling.payer)
      OBVIOUS
    <3>2. z \in Listing /\ z.price = settling.copy.price
      BY <2>1, <3>1, SoldType
    <3>3. listings' = [listings EXCEPT ![settling.listing] = z]
      BY <1>10, <3>1 DEF FinishSettleListing, SoldCopy
    <3>4. UNCHANGED <<allowedAA, nextListingId, pendingPayment, pendingCount, gas>>
      BY <1>10 DEF FinishSettleListing
    <3> QED
      BY <2>1, <2>2, <3>2, <3>3, <3>4 DEF MarketTypeOK, Listing
<1>11. ASSUME Settling, RevertSettleListing
       PROVE  MarketTypeOK'
  <2>1. settling.saved \in Snapshot /\ Blank(settling.saved)
    BY <1>11 DEF SettlingOK, Settlement, Good
  <2> QED
    BY <1>11, <2>1 DEF RevertSettleListing, MarketTypeOK, Snapshot, Listing, Blank
<1> QED
  BY MarketCases, <1>1, <1>2, <1>3, <1>4, <1>5, <1>6, <1>7, <1>8, <1>9, <1>10, <1>11
     DEF WitnessedNext, allVars

\* A suspended settlement keeps its type; a new one gets it from what it reads.
LEMMA SettlingStep == MarketInv /\ [MarketNextStep]_allVars => SettlingOK'
<1> SUFFICES ASSUME MarketInv, [MarketNextStep]_allVars PROVE SettlingOK'
  OBVIOUS
<1>1. ASSUME NEW l \in ListingIds, NEW payer \in Payers, NEW o \in Owners,
             BeginSettleListing(l, payer, o)
      PROVE  SettlingOK'
  <2>1. CurrentState \in Snapshot /\ listings[l] \in Listing
    BY SnapshotType DEF MarketInv, MarketTypeOK, Listing
  <2> QED
    BY <1>1, <2>1 DEF BeginSettleListing, SettlingOK, Settling, Settlement
<1>2. CASE FinishSettleListing \/ RevertSettleListing
  BY <1>2 DEF FinishSettleListing, RevertSettleListing, SettlingOK, Settling
<1>3. CASE UNCHANGED settling
  BY <1>3 DEF MarketInv, SettlingOK, Settling
<1> QED
  BY MarketCases, <1>1, <1>2, <1>3 DEF allVars, MarketInv

(***************************************************************************)
(* Deposits.  A deposit that moves moves the total owed and the wealth of  *)
(* its payer by as much, and the count of the deposits by one.             *)
(***************************************************************************)
\* The sums of the model are over finite sets and of numbers.
LEMMA Finite == IsFiniteSet(ListingIds) /\ IsFiniteSet(Payers)
<1>1. MaxListing \in Int /\ 1 \in Int
  BY BoundAssumption
<1> QED
  BY <1>1, FS_Interval, MarketAssumption DEF ListingIds, Payers

\* The deposits on a listing, the deposits on all listings, and the deposits of a payer.
LEMMA TotalTypes ==
  ASSUME NEW f \in [ListingIds -> [Payers -> Nat]]
  PROVE  /\ \A k \in ListingIds : SumFunction(f[k]) \in Int
         /\ Owed(f) \in Int
         /\ \A q \in Payers : PaidInBy(f, q) \in Nat
<1>1. ASSUME NEW k \in ListingIds PROVE SumFunction(f[k]) \in Int
  <2>1. DOMAIN f[k] = Payers /\ \A q \in Payers : f[k][q] \in Int
    OBVIOUS
  <2> QED
    BY <2>1, Finite, SumType DEF SumFunction
<1>2. Owed(f) \in Int
  <2> DEFINE h == [k \in ListingIds |-> SumFunction(f[k])]
  <2>1. DOMAIN h = ListingIds /\ \A k \in ListingIds : h[k] \in Int
    BY <1>1
  <2> HIDE DEF h
  <2>2. SumFunction(h) \in Int
    BY <2>1, Finite, SumType DEF SumFunction
  <2> QED
    BY <2>2 DEF h, Owed
<1>3. ASSUME NEW q \in Payers PROVE PaidInBy(f, q) \in Nat
  <2> DEFINE h == [k \in ListingIds |-> f[k][q]]
  <2>1. DOMAIN h = ListingIds /\ \A k \in ListingIds : h[k] \in Nat
    OBVIOUS
  <2> HIDE DEF h
  <2>2. SumFunction(h) \in Nat
    BY <2>1, Finite, SumNat DEF SumFunction
  <2> QED
    BY <2>2 DEF h, PaidInBy
<1> QED
  BY <1>1, <1>2, <1>3

\* One value of a function over a finite set changes.
LEMMA OneChange ==
  ASSUME NEW S, IsFiniteSet(S), NEW f, NEW g, NEW x \in S, DOMAIN f = S, DOMAIN g = S,
         \A y \in S : f[y] \in Int /\ g[y] \in Int,
         \A y \in S \ {x} : f[y] = g[y]
  PROVE  SumFunction(g) = SumFunction(f) + g[x] - f[x]
BY SumChange DEF SumFunction

\* One deposit changes.
LEMMA TotalChange ==
  ASSUME NEW f \in [ListingIds -> [Payers -> Nat]], NEW l \in ListingIds, NEW p \in Payers,
         NEW g \in [ListingIds -> [Payers -> Nat]],
         \A k \in ListingIds, q \in Payers : k # l \/ q # p => g[k][q] = f[k][q]
  PROVE  /\ Owed(g) = Owed(f) + g[l][p] - f[l][p]
         /\ PaidInBy(g, p) = PaidInBy(f, p) + g[l][p] - f[l][p]
<1>1. SumFunction(g[l]) = SumFunction(f[l]) + g[l][p] - f[l][p]
  <2>1. /\ DOMAIN f[l] = Payers /\ DOMAIN g[l] = Payers
        /\ \A y \in Payers : f[l][y] \in Int /\ g[l][y] \in Int
        /\ \A y \in Payers \ {p} : f[l][y] = g[l][y]
    OBVIOUS
  <2> QED
    BY <2>1, Finite, OneChange
<1>2. \A k \in ListingIds \ {l} : g[k] = f[k]
  OBVIOUS
<1>3. Owed(g) = Owed(f) + g[l][p] - f[l][p]
  <2> DEFINE F == [k \in ListingIds |-> SumFunction(f[k])]
             G == [k \in ListingIds |-> SumFunction(g[k])]
  <2>1. /\ DOMAIN F = ListingIds /\ DOMAIN G = ListingIds
        /\ \A y \in ListingIds : F[y] \in Int /\ G[y] \in Int
        /\ \A y \in ListingIds \ {l} : F[y] = G[y]
    BY <1>2, TotalTypes
  <2>2. G[l] = F[l] + g[l][p] - f[l][p] /\ F[l] \in Int
    BY <1>1, TotalTypes
  <2>3. SumFunction(F) \in Int /\ f[l][p] \in Int /\ g[l][p] \in Int
    BY TotalTypes DEF Owed
  <2> HIDE DEF F, G
  <2>4. SumFunction(G) = SumFunction(F) + G[l] - F[l]
    BY SMTT(30), <2>1, Finite, OneChange
  <2>5. SumFunction(G) = SumFunction(F) + g[l][p] - f[l][p]
    BY <2>2, <2>3, <2>4
  <2> QED
    BY <2>5 DEF F, G, Owed
<1>4. PaidInBy(g, p) = PaidInBy(f, p) + g[l][p] - f[l][p]
  <2> DEFINE F == [k \in ListingIds |-> f[k][p]]
             G == [k \in ListingIds |-> g[k][p]]
  <2>1. /\ DOMAIN F = ListingIds /\ DOMAIN G = ListingIds
        /\ \A y \in ListingIds : F[y] \in Int /\ G[y] \in Int
        /\ \A y \in ListingIds \ {l} : F[y] = G[y]
    BY <1>2
  <2>2. G[l] = g[l][p] /\ F[l] = f[l][p]
    OBVIOUS
  <2> HIDE DEF F, G
  <2>3. SumFunction(G) = SumFunction(F) + G[l] - F[l]
    BY SMTT(30), <2>1, Finite, OneChange
  <2>4. SumFunction(G) = SumFunction(F) + g[l][p] - f[l][p]
    BY <2>2, <2>3
  <2> QED
    BY <2>4 DEF F, G, PaidInBy
<1> QED
  BY <1>3, <1>4

\* What the others have paid does not change.
LEMMA OtherPayers ==
  ASSUME NEW f, NEW g, NEW q, \A k \in ListingIds : g[k][q] = f[k][q]
  PROVE  PaidInBy(g, q) = PaidInBy(f, q)
<1>1. [k \in ListingIds |-> g[k][q]] = [k \in ListingIds |-> f[k][q]]
  OBVIOUS
<1> QED
  BY <1>1 DEF PaidInBy

\* One payer more, or one less, has paid.
LEMMA CountChange ==
  ASSUME NEW f, NEW g, NEW p \in Payers, \A q \in Payers : q # p => g[q] = f[q]
  PROVE  LET n == Cardinality(PaidUp(f))
             m == Cardinality(PaidUp(g))
         IN  /\ n \in Nat
             /\ f[p] = 0 /\ g[p] \in Nat \ {0} => m = n + 1
             /\ g[p] = 0 /\ f[p] \in Nat \ {0} => n > 0 /\ m = n - 1
<1>1. IsFiniteSet(PaidUp(f)) /\ IsFiniteSet(PaidUp(g))
  BY Finite, FS_Subset DEF PaidUp
<1>2. Cardinality(PaidUp(f)) \in Nat
  BY <1>1, FS_CardinalityType
<1>3. ASSUME f[p] = 0, g[p] \in Nat \ {0} PROVE Cardinality(PaidUp(g)) = Cardinality(PaidUp(f)) + 1
  <2>1. p \notin PaidUp(f) /\ PaidUp(g) = PaidUp(f) \cup {p}
    BY <1>3 DEF PaidUp
  <2> QED
    BY <1>1, <2>1, FS_AddElement
<1>4. ASSUME g[p] = 0, f[p] \in Nat \ {0}
      PROVE  Cardinality(PaidUp(f)) > 0 /\ Cardinality(PaidUp(g)) = Cardinality(PaidUp(f)) - 1
  <2>1. p \in PaidUp(f) /\ PaidUp(g) = PaidUp(f) \ {p}
    BY <1>4 DEF PaidUp
  <2> QED
    BY <1>1, <1>2, <2>1, FS_RemoveElement, FS_EmptySet
<1> QED
  BY <1>2, <1>3, <1>4

\* Wealth is an amount of GAS, no less than each of the deposits in it.
LEMMA WealthOfType ==
  ASSUME NEW pay \in [ListingIds -> [Payers -> Prices \cup {0}]], NEW g \in [Holders -> Nat],
         NEW q \in Owners
  PROVE  /\ WealthIn(pay, g)[q] \in Nat
         /\ \A l \in ListingIds : pay[l][q] \in Nat /\ pay[l][q] <= WealthIn(pay, g)[q]
<1> DEFINE h == [k \in ListingIds |-> pay[k][q]]
<1>1. DOMAIN h = ListingIds /\ \A k \in ListingIds : h[k] \in Nat /\ h[k] = pay[k][q]
  <2>1. \A k \in ListingIds : pay[k][q] \in Prices \cup {0}
    BY DEF Payers
  <2> QED
    BY <2>1, AmountsAreNat
<1>2. WealthIn(pay, g)[q] = g[q] + SumFunction(h)
  BY DEF WealthIn
<1> HIDE DEF h
<1>3. SumFunction(h) \in Nat /\ \A k \in ListingIds : h[k] <= SumFunction(h)
  BY <1>1, Finite, SumNat DEF SumFunction
<1>4. g[q] \in Nat
  BY DEF Holders
<1> QED
  BY <1>1, <1>2, <1>3, <1>4

\* Everybody's wealth is an amount of GAS, in the state that is and in a saved one.
LEMMA WealthType ==
  ASSUME MarketTypeOK, NEW q \in Owners
  PROVE  WealthIn(pendingPayment, gas)[q] \in Nat
BY WealthOfType DEF MarketTypeOK

\* A deposit of p on l becomes x, and h pays or gets the difference d.
DepositBecomes(l, p, x, h, d) ==
  /\ x \in Prices \cup {0} /\ d = x - pendingPayment[l][p]
  /\ pendingPayment' = [pendingPayment EXCEPT ![l][p] = x]
  /\ gas' \in [Holders -> Nat]
  /\ gas'[ThisMarket] = gas[ThisMarket] + d /\ gas'[h] = gas[h] - d
  /\ \A o \in Holders \ {ThisMarket, h} : gas'[o] = gas[o]

\* The market still holds what it owes, and h and p share the difference.
LEMMA DepositMoves ==
  ASSUME MarketTypeOK, NEW l \in ListingIds, NEW p \in Owners, NEW h \in Owners,
         NEW x, NEW d, DepositBecomes(l, p, x, h, d)
  PROVE  /\ Backed(CurrentState) => Backed(CurrentState)'
         /\ \A q \in Owners : WealthIn(pendingPayment, gas)'[q]
              = WealthIn(pendingPayment, gas)[q]
                  + (IF q = p THEN d ELSE 0) - (IF q = h THEN d ELSE 0)
<1> USE DEF DepositBecomes
<1>1. /\ pendingPayment \in [ListingIds -> [Payers -> Nat]]
      /\ pendingPayment' \in [ListingIds -> [Payers -> Nat]]
      /\ x \in Nat /\ p \in Payers
      /\ pendingPayment'[l][p] = x
      /\ \A k \in ListingIds, q \in Payers :
           k # l \/ q # p => pendingPayment'[k][q] = pendingPayment[k][q]
  <2>1. pendingPayment \in [ListingIds -> [Payers -> Prices \cup {0}]] /\ p \in Payers
    BY DEF MarketTypeOK, Payers
  <2>2. Prices \cup {0} \subseteq Nat
    BY AmountsAreNat
  <2>3. pendingPayment \in [ListingIds -> [Payers -> Nat]] /\ x \in Nat
    BY <2>1, <2>2
  <2>4. [pendingPayment[l] EXCEPT ![p] = x] \in [Payers -> Nat]
    BY <2>1, <2>3
  <2> QED
    BY <2>1, <2>3, <2>4
<1>0. /\ Owed(pendingPayment') = Owed(pendingPayment) + x - pendingPayment[l][p]
      /\ PaidInBy(pendingPayment', p) = PaidInBy(pendingPayment, p) + x - pendingPayment[l][p]
      /\ \A q \in Payers : q # p => PaidInBy(pendingPayment', q) = PaidInBy(pendingPayment, q)
  <2>1. PICK f \in [ListingIds -> [Payers -> Nat]], g \in [ListingIds -> [Payers -> Nat]] :
          f = pendingPayment /\ g = pendingPayment'
    BY <1>1
  <2>3. \A k \in ListingIds, q \in Payers : k # l \/ q # p => g[k][q] = f[k][q]
    BY <1>1, <2>1
  <2>4. p \in Payers
    BY DEF Payers
  <2>2. /\ Owed(g) = Owed(f) + g[l][p] - f[l][p]
        /\ PaidInBy(g, p) = PaidInBy(f, p) + g[l][p] - f[l][p]
    BY <2>3, <2>4, TotalChange
  <2>5. ASSUME NEW q \in Payers, q # p PROVE PaidInBy(g, q) = PaidInBy(f, q)
    BY <2>3, <2>5, OtherPayers
  <2> QED
    BY <1>1, <2>1, <2>2, <2>5
<1>2. d \in Int /\ gas \in [Holders -> Nat]
  BY <1>1 DEF MarketTypeOK
<1>3. Backed(CurrentState) => Backed(CurrentState)'
  <2>2. Owed(pendingPayment) \in Int
    BY <1>1, TotalTypes
  <2>3. gas[ThisMarket] \in Int /\ pendingPayment[l][p] \in Int
    BY <1>1, <1>2 DEF Holders
  <2> QED
    BY <1>0, <1>1, <2>2, <2>3 DEF Backed, CurrentState
<1>4. ASSUME NEW q \in Owners
      PROVE  WealthIn(pendingPayment, gas)'[q]
              = WealthIn(pendingPayment, gas)[q]
                  + (IF q = p THEN d ELSE 0) - (IF q = h THEN d ELSE 0)
  <2> DEFINE before == PaidInBy(pendingPayment, q)
             after == PaidInBy(pendingPayment', q)
  <2>1. before \in Nat /\ after \in Nat
    BY <1>1, TotalTypes DEF Payers
  <2>2. IF q = p THEN after = before + x - pendingPayment[l][p] ELSE after = before
    BY <1>0 DEF Payers
  <2>3. gas[q] \in Nat /\ gas'[q] = IF q = h THEN gas[q] - d ELSE gas[q]
    BY <1>2, MarketAssumption DEF Holders
  <2>4. /\ WealthIn(pendingPayment, gas)[q] = gas[q] + before
        /\ WealthIn(pendingPayment, gas)'[q] = gas'[q] + after
    BY DEF WealthIn, PaidInBy
  <2>5. pendingPayment[l][p] \in Nat
    BY <1>1
  <2> HIDE DEF before, after
  <2> QED
    BY <1>1, <1>2, <2>1, <2>2, <2>3, <2>4, <2>5
<1> QED
  BY <1>3, <1>4

\* The deposits stay counted.
LEMMA CountMoves ==
  ASSUME MarketTypeOK, Counted(CurrentState), NEW l \in ListingIds, NEW p \in Owners,
         \/ pendingPayment[l][p] > 0 /\ ClearPendingPayment(l, p)
         \/ \E amount \in Prices : pendingPayment[l][p] = 0 /\ PutPendingPayment(l, p, amount)
  PROVE  Counted(CurrentState)'
<1>1. /\ pendingPayment \in [ListingIds -> [Payers -> Prices \cup {0}]] /\ p \in Payers
      /\ pendingCount \in [ListingIds -> Nat]
      /\ \A k \in ListingIds :
           pendingCount[k] = Cardinality(PaidUp(pendingPayment[k]))
  BY DEF MarketTypeOK, Payers, Counted, CurrentState
<1> SUFFICES ASSUME NEW k \in ListingIds
             PROVE  pendingCount'[k] = Cardinality(PaidUp(pendingPayment'[k]))
  BY DEF Counted, CurrentState
<1>2. CASE k # l
  <2>1. pendingCount'[k] = pendingCount[k] /\ pendingPayment'[k] = pendingPayment[k]
    BY <1>1, <1>2 DEF ClearPendingPayment, PutPendingPayment
  <2> QED
    BY <1>1, <2>1
<1>3. CASE k = l
  <2> DEFINE n == Cardinality(PaidUp(pendingPayment[l]))
             m == Cardinality(PaidUp(pendingPayment'[l]))
  <2>1. pendingCount[l] = n
    BY <1>1
  <2>2. \A q \in Payers : q # p => pendingPayment'[l][q] = pendingPayment[l][q]
    BY <1>1 DEF ClearPendingPayment, PutPendingPayment
  <2>3. /\ n \in Nat
        /\ pendingPayment[l][p] = 0 /\ pendingPayment'[l][p] \in Nat \ {0} => m = n + 1
        /\ pendingPayment'[l][p] = 0 /\ pendingPayment[l][p] \in Nat \ {0} => n > 0 /\ m = n - 1
    BY <1>1, <2>2, CountChange
  <2>4. pendingPayment[l][p] \in Nat
    BY DepositType
  <2> HIDE DEF n, m
  <2>5. CASE pendingPayment[l][p] > 0 /\ ClearPendingPayment(l, p)
    <3>1. pendingPayment'[l][p] = 0
      BY <1>1, <2>5 DEF ClearPendingPayment
    <3>2. n > 0 /\ m = n - 1
      BY <2>3, <2>4, <2>5, <3>1
    <3>3. pendingCount'[l] = IF n <= 1 THEN 0 ELSE n - 1
      BY <1>1, <2>1, <2>5 DEF ClearPendingPayment
    <3>4. pendingCount'[l] = m
      BY <2>3, <3>2, <3>3
    <3> QED
      BY <1>3, <3>4 DEF m
  <2>6. ASSUME NEW amount \in Prices, pendingPayment[l][p] = 0, PutPendingPayment(l, p, amount)
        PROVE  pendingCount'[k] = m
    <3>1. pendingPayment'[l][p] = amount /\ amount \in Nat \ {0}
      BY <1>1, <2>6, MarketAssumption DEF PutPendingPayment
    <3>2. pendingCount'[l] = n + 1
      BY <1>1, <2>1, <2>6 DEF PutPendingPayment
    <3> QED
      BY <1>3, <2>3, <2>6, <3>1, <3>2
  <2> QED
    BY <1>3, <2>5, <2>6 DEF m
<1> QED
  BY <1>2, <1>3

(***************************************************************************)
(* Money steps: a deposit comes in, or is paid out to its payer or to the  *)
(* seller.                                                                 *)
(***************************************************************************)
SameWealth ==
  \A q \in Owners : WealthIn(pendingPayment, gas)'[q] = WealthIn(pendingPayment, gas)[q]
SameSales ==
  \A l \in ListingIds : (Sold(l)' <=> Sold(l)) /\ (Sold(l) => listings'[l] = listings[l])

\* A deposit is its payer's money still.
LEMMA PaidIn ==
  ASSUME TypeOK, MarketTypeOK, Good(CurrentState), NEW who \in Owners, NEW l \in ListingIds,
         NEW amount \in Amounts, OnNEP17Payment(l, who, amount)
  PROVE  Good(CurrentState)' /\ SameWealth
<1> USE DEF OnNEP17Payment
<1>1. /\ pendingPayment \in [ListingIds -> [Payers -> Prices \cup {0}]] /\ who \in Payers
      /\ IsActive(l) /\ amount = listings[l].price /\ amount \in Prices /\ amount \in Nat
      /\ pendingPayment[l][who] = 0
  BY AmountsAreNat DEF MarketTypeOK, Payers, Amounts
<1>2. pendingPayment' = [pendingPayment EXCEPT ![l][who] = amount]
  BY DEF PutPendingPayment
<1>3. /\ gas' \in [Holders -> Nat]
      /\ gas'[who] = gas[who] - amount /\ gas'[ThisMarket] = gas[ThisMarket] + amount
      /\ \A o \in Holders \ {ThisMarket, who} : gas'[o] = gas[o]
  <2>1. gas \in [Holders -> Nat] /\ who \in Holders /\ ThisMarket \in Holders /\ who # ThisMarket
    BY MarketAssumption DEF MarketTypeOK, Holders
  <2> QED
    BY <1>1, <2>1, TransferType
<1>4. amount = amount - pendingPayment[l][who]
  BY <1>1
<1>5. /\ Backed(CurrentState)'
      /\ \A q \in Owners : WealthIn(pendingPayment, gas)'[q] = WealthIn(pendingPayment, gas)[q]
           + (IF q = who THEN amount ELSE 0) - (IF q = who THEN amount ELSE 0)
  <2>1. DepositBecomes(l, who, amount, who, amount)
    BY <1>1, <1>2, <1>3, <1>4 DEF DepositBecomes
  <2> QED
    BY <2>1, DepositMoves DEF Good
<1>6. SameWealth
  <2> SUFFICES ASSUME NEW q \in Owners
               PROVE  WealthIn(pendingPayment, gas)'[q] = WealthIn(pendingPayment, gas)[q]
    BY DEF SameWealth
  <2>1. WealthIn(pendingPayment, gas)[q] \in Int
    BY WealthType
  <2> QED
    BY <1>1, <1>5, <2>1
<1>7. Counted(CurrentState)'
  BY <1>1, CountMoves DEF Good
<1>8. Agree(CurrentState)' /\ Owned(CurrentState)'
  BY DEF Good, Agree, Owned, CurrentState, vars
<1>9. \A k \in ListingIds, q \in Payers : k # l => pendingPayment'[k][q] = pendingPayment[k][q]
  BY <1>1, <1>2
<1>10. \A q \in Payers : pendingPayment'[l][q] \in {pendingPayment[l][q], amount}
  BY <1>1, <1>2
<1>11. Blank(CurrentState)'
  BY <1>1, <1>9 DEF Good, Blank, CurrentState, IsActive, NoListing, StatusActive, StatusNone
<1>12. Priced(CurrentState)'
  BY <1>1, <1>9, <1>10 DEF Good, Priced, CurrentState
<1> QED
  BY <1>5, <1>6, <1>7, <1>8, <1>11, <1>12 DEF Good

\* What a deposit paid out takes from its payer, the one it is paid to gets.
LEMMA PaidOut ==
  ASSUME TypeOK, MarketTypeOK, Good(CurrentState), NEW l \in ListingIds, NEW payer \in Owners,
         NEW to \in Owners, pendingPayment[l][payer] > 0, ClearPendingPayment(l, payer),
         Transfer(ThisMarket, to, pendingPayment[l][payer]),
         UNCHANGED <<escrow, backupOwner, nextListingId, listings>>
  PROVE  /\ Good(CurrentState)'
         /\ \A q \in Owners : WealthIn(pendingPayment, gas)'[q] = WealthIn(pendingPayment, gas)[q]
              + (IF q = to THEN pendingPayment[l][payer] ELSE 0)
              - (IF q = payer THEN pendingPayment[l][payer] ELSE 0)
<1> DEFINE amount == pendingPayment[l][payer]
           d == 0 - amount
<1>1. /\ pendingPayment \in [ListingIds -> [Payers -> Prices \cup {0}]] /\ payer \in Payers
      /\ amount \in Nat
  BY DepositType DEF MarketTypeOK, Payers
<1>2. pendingPayment' = [pendingPayment EXCEPT ![l][payer] = 0]
  BY DEF ClearPendingPayment
<1>3. /\ gas' \in [Holders -> Nat] /\ gas \in [Holders -> Nat] /\ to \in Holders
      /\ gas'[to] = gas[to] + amount /\ gas'[ThisMarket] = gas[ThisMarket] - amount
      /\ \A o \in Holders \ {ThisMarket, to} : gas'[o] = gas[o]
  <2>1. gas \in [Holders -> Nat] /\ to \in Holders /\ ThisMarket \in Holders /\ to # ThisMarket
    BY MarketAssumption DEF MarketTypeOK, Holders
  <2> QED
    BY <1>1, <2>1, TransferType
<1>4. /\ d \in Int /\ gas'[ThisMarket] = gas[ThisMarket] + d /\ gas'[to] = gas[to] - d
  BY <1>1, <1>3 DEF Holders
<1>5. /\ Backed(CurrentState)'
      /\ \A q \in Owners : WealthIn(pendingPayment, gas)'[q] = WealthIn(pendingPayment, gas)[q]
           + (IF q = payer THEN d ELSE 0) - (IF q = to THEN d ELSE 0)
  <2>1. DepositBecomes(l, payer, 0, to, d)
    BY <1>1, <1>2, <1>3, <1>4 DEF DepositBecomes
  <2> HIDE DEF d
  <2> QED
    BY <2>1, DepositMoves DEF Good
<1>6. ASSUME NEW q \in Owners
      PROVE  WealthIn(pendingPayment, gas)'[q] = WealthIn(pendingPayment, gas)[q]
              + (IF q = to THEN amount ELSE 0) - (IF q = payer THEN amount ELSE 0)
  <2>1. WealthIn(pendingPayment, gas)[q] \in Int
    BY WealthType
  <2> QED
    BY <1>1, <1>5, <2>1
<1>7. Counted(CurrentState)'
  BY CountMoves DEF Good
<1>8. Agree(CurrentState)' /\ Owned(CurrentState)'
  BY DEF Good, Agree, Owned, CurrentState
<1>9. \A k \in ListingIds, q \in Payers : pendingPayment'[k][q] \in {pendingPayment[k][q], 0}
  BY <1>1, <1>2
<1>10. Blank(CurrentState)'
  BY <1>9 DEF Good, Blank, CurrentState
<1>11. Priced(CurrentState)'
  BY <1>9 DEF Good, Priced, CurrentState
<1> QED
  BY <1>5, <1>6, <1>7, <1>8, <1>10, <1>11 DEF Good

(***************************************************************************)
(* Listing steps: no money moves.                                          *)
(***************************************************************************)
moneyVars == <<pendingPayment, pendingCount, gas>>

\* What depends on the deposits only stays.
LEMMA MoneyStays ==
  ASSUME UNCHANGED moneyVars
  PROVE  /\ Counted(CurrentState) => Counted(CurrentState)'
         /\ Backed(CurrentState) => Backed(CurrentState)'
         /\ SameWealth
BY DEF moneyVars, Counted, Backed, SameWealth, CurrentState

\* An escrow that ends takes its listing out of the active ones, and no other with it.
LEMMA Closed ==
  ASSUME TypeOK, MarketTypeOK, Good(CurrentState), NEW a \in Accounts, NEW l \in ListingIds,
         escrow[a].market = ThisMarket, escrow[a].listing = l,
         escrow' = [escrow EXCEPT ![a] = NoEscrow],
         \A k \in ListingIds \ {l} : listings'[k] = listings[k],
         listings'[l].status # StatusActive, listings'[l].price \in Prices,
         \A b \in Accounts \ {a} : backupOwner'[b] = backupOwner[b],
         UNCHANGED <<nextListingId, moneyVars>>
  PROVE  Good(CurrentState)' /\ SameWealth
<1>1. listings[l].status = StatusActive /\ listings[l].account = a
  BY DEF Good, Agree, CurrentState
<1>2. ThisMarket # Zero /\ NoEscrow.market = Zero
  BY MarketAssumption, ZeroAssumption DEF NoEscrow
<1>3. escrow'[a].market = Zero /\ \A b \in Accounts \ {a} : escrow'[b] = escrow[b]
  BY <1>2 DEF TypeOK
<1>4. \A k \in ListingIds \ {l} : ~(listings[k].status = StatusActive /\ listings[k].account = a)
  BY DEF Good, Agree, CurrentState
<1>5. Agree(CurrentState)'
  BY <1>1, <1>2, <1>3, <1>4 DEF Good, Agree, CurrentState
<1>6. Owned(CurrentState)'
  BY <1>4 DEF Good, Owned, CurrentState
<1>7. Blank(CurrentState)'
  <2>1. listings[l] # NoListing /\ listings'[l] # NoListing
    BY <1>1, MarketAssumption DEF NoListing, StatusActive, StatusNone
  <2> QED
    BY <2>1 DEF Good, Blank, CurrentState, moneyVars
<1>8. Priced(CurrentState)'
  BY DEF Good, Priced, CurrentState, moneyVars
<1> QED
  BY <1>5, <1>6, <1>7, <1>8, MoneyStays DEF Good

\* A new listing and its escrow come into being together.
LEMMA Created ==
  ASSUME TypeOK, MarketTypeOK, Good(CurrentState), NEW who \in Owners, NEW a \in Accounts,
         NEW price \in Amounts, CreateListing(a, who, price)
  PROVE  Good(CurrentState)' /\ SameWealth /\ SameSales
<1> DEFINE n == nextListingId
<1> USE DEF CreateListing, EnterMarketEscrow
<1>1. /\ n \in ListingIds /\ price \in Prices /\ who = backupOwner[a]
      /\ ~IsMarketEscrowActive(a)
  BY DEF ValidPrice, AssertBackupOwner, AssertNoMarketEscrow
<1>2. ThisMarket # Zero
  BY MarketAssumption, ZeroAssumption
<1>3. listings[n] = NoListing /\ \A p \in Payers : pendingPayment[n][p] = 0
  BY <1>1 DEF Good, Blank, CurrentState, ListingIds
<1>4. /\ listings'[n] = [account |-> a, seller |-> backupOwner[a], price |-> price,
                         status |-> StatusActive, buyer |-> Zero]
      /\ \A k \in ListingIds \ {n} : listings'[k] = listings[k]
  BY <1>1 DEF MarketTypeOK
<1>5. /\ escrow'[a].market = ThisMarket /\ escrow'[a].listing = n
      /\ \A b \in Accounts \ {a} : escrow'[b] = escrow[b]
  BY DEF TypeOK, MarketEscrow
<1>6. UNCHANGED <<backupOwner, moneyVars>> /\ nextListingId' = n + 1
  BY DEF moneyVars
<1> HIDE DEF n, CreateListing, EnterMarketEscrow
<1>7. \A k \in ListingIds : ~(listings[k].status = StatusActive /\ listings[k].account = a)
  <2>1. ~(escrow[a].market = ThisMarket /\ escrow[a].listing > 0)
    BY <1>1, <1>2 DEF IsMarketEscrowActive
  <2> QED
    BY <2>1 DEF Good, Agree, CurrentState, ListingIds
<1>8. listings[n].status # StatusActive
  BY <1>3 DEF NoListing, StatusNone, StatusActive
<1>9. Agree(CurrentState)'
  <2> SUFFICES ASSUME NEW b \in Accounts, NEW k \in ListingIds
               PROVE  (escrow'[b].market = ThisMarket /\ escrow'[b].listing = k)
                        <=> (listings'[k].status = StatusActive /\ listings'[k].account = b)
    BY DEF Agree, CurrentState
  <2>1. (escrow[b].market = ThisMarket /\ escrow[b].listing = k)
          <=> (listings[k].status = StatusActive /\ listings[k].account = b)
    BY DEF Good, Agree, CurrentState
  <2> QED
    BY <2>1, <1>4, <1>5, <1>7, <1>8
<1>10. Owned(CurrentState)'
  BY <1>1, <1>4, <1>6 DEF Good, Owned, CurrentState
<1>11. Blank(CurrentState)'
  <2>1. listings'[n] # NoListing
    BY <1>4 DEF NoListing, StatusNone, StatusActive
  <2>2. n \in Int /\ \A k \in ListingIds : k >= n + 1 => k >= n /\ k # n
    BY DEF MarketTypeOK, ListingIds, n
  <2>3. listings'[n].price \in Prices
    BY <1>1, <1>4
  <2> QED
    BY <2>1, <2>2, <2>3, <1>4, <1>6 DEF Good, Blank, CurrentState, n, moneyVars
<1>12. Priced(CurrentState)'
  BY <1>3, <1>4, <1>6 DEF Good, Priced, CurrentState, moneyVars
<1>13. SameSales
  BY <1>3, <1>4 DEF SameSales, Sold, NoListing, StatusNone, StatusActive, StatusSold
<1> QED
  BY <1>6, <1>9, <1>10, <1>11, <1>12, <1>13, MoneyStays DEF Good

\* A price moves only when nobody has paid it.
LEMMA Repriced ==
  ASSUME MarketTypeOK, Good(CurrentState), NEW who \in Owners, NEW l \in ListingIds,
         NEW newPrice \in Amounts, UpdateListingPrice(l, who, newPrice)
  PROVE  Good(CurrentState)' /\ SameWealth /\ SameSales
<1> USE DEF UpdateListingPrice
<1>1. \A p \in Payers : pendingPayment[l][p] = 0
  <2>1. Cardinality(PaidUp(pendingPayment[l])) = 0
    BY DEF Good, Counted, CurrentState, NoPaymentInFlight
  <2>2. IsFiniteSet(PaidUp(pendingPayment[l]))
    BY Finite, FS_Subset DEF PaidUp
  <2>3. PaidUp(pendingPayment[l]) = {}
    BY <2>1, <2>2, FS_EmptySet
  <2>4. \A p \in Payers : pendingPayment[l][p] \in Nat
    BY DepositType DEF Payers
  <2> QED
    BY <2>3, <2>4 DEF PaidUp
<1>2. /\ newPrice \in Prices /\ listings[l].status = StatusActive
      /\ UNCHANGED <<escrow, backupOwner, nextListingId, moneyVars>>
  BY DEF ValidPrice, IsActive, vars, moneyVars
<1>3. /\ listings'[l].account = listings[l].account /\ listings'[l].seller = listings[l].seller
      /\ listings'[l].status = listings[l].status /\ listings'[l].price = newPrice
      /\ \A k \in ListingIds \ {l} : listings'[k] = listings[k]
  BY DEF MarketTypeOK
<1> HIDE DEF UpdateListingPrice
<1>4. Agree(CurrentState)' /\ Owned(CurrentState)'
  BY <1>2, <1>3 DEF Good, Agree, Owned, CurrentState
<1>5. Blank(CurrentState)'
  <2>1. listings[l] # NoListing /\ listings'[l] # NoListing
    BY <1>2, <1>3 DEF NoListing, StatusActive, StatusNone
  <2> QED
    BY <2>1, <1>2, <1>3 DEF Good, Blank, CurrentState, moneyVars
<1>6. Priced(CurrentState)'
  BY <1>1, <1>2, <1>3 DEF Good, Priced, CurrentState, moneyVars
<1>7. SameSales
  BY <1>2, <1>3 DEF SameSales, Sold, StatusActive, StatusSold
<1> QED
  BY <1>2, <1>4, <1>5, <1>6, <1>7, MoneyStays DEF Good

\* The seller, or the owner through the core, calls a listing off.
LEMMA CalledOff ==
  ASSUME TypeOK, MarketTypeOK, Good(CurrentState), NEW a \in Accounts, NEW l \in ListingIds,
         escrow[a].market = ThisMarket, escrow[a].listing = l,
         ClearMarketEscrow(a), UNCHANGED backupOwner,
         listings' = [listings EXCEPT ![l].status = StatusCancelled],
         UNCHANGED <<nextListingId, moneyVars>>
  PROVE  Good(CurrentState)' /\ SameWealth /\ SameSales
<1>1. listings[l].status = StatusActive /\ listings[l].price \in Prices
  BY DEF Good, Agree, Owned, CurrentState
<1>2. /\ listings'[l].status = StatusCancelled /\ listings'[l].price = listings[l].price
      /\ \A k \in ListingIds \ {l} : listings'[k] = listings[k]
  BY DEF MarketTypeOK
<1>3. SameSales
  BY <1>1, <1>2 DEF SameSales, Sold, StatusActive, StatusSold, StatusCancelled
<1>4. escrow' = [escrow EXCEPT ![a] = NoEscrow]
  BY DEF ClearMarketEscrow
<1>5. listings'[l].status # StatusActive /\ listings'[l].price \in Prices
  BY <1>1, <1>2 DEF StatusActive, StatusCancelled
<1> QED
  BY <1>2, <1>3, <1>4, <1>5, Closed

\* An escrow that ends elsewhere, or is asked to, is none of this market's business.
LEMMA Elsewhere ==
  ASSUME TypeOK, Good(CurrentState), NEW a \in Accounts,
         \/ escrow[a].market # ThisMarket /\ ClearMarketEscrow(a)
         \/ escrow' = [escrow EXCEPT ![a].cancelAt = now],
         UNCHANGED <<backupOwner, listings, nextListingId, moneyVars>>
  PROVE  Good(CurrentState)' /\ SameWealth /\ SameSales
<1>1. \A b \in Accounts \ {a} : escrow'[b] = escrow[b]
  BY DEF TypeOK, ClearMarketEscrow
<1>2. \/ escrow'[a].market = escrow[a].market /\ escrow'[a].listing = escrow[a].listing
      \/ escrow[a].market # ThisMarket /\ escrow'[a].market # ThisMarket
  <2>1. ThisMarket # Zero
    BY MarketAssumption, ZeroAssumption
  <2> QED
    BY <2>1 DEF TypeOK, MarketEscrow, ClearMarketEscrow, NoEscrow
<1>3. Agree(CurrentState)'
  BY <1>1, <1>2 DEF Good, Agree, CurrentState
<1>4. Owned(CurrentState)' /\ Blank(CurrentState)' /\ Priced(CurrentState)'
  BY DEF Good, Owned, Blank, Priced, CurrentState, moneyVars
<1>5. SameSales
  BY DEF SameSales, Sold
<1> QED
  BY <1>3, <1>4, <1>5, MoneyStays DEF Good

\* Whatever an owner does between settlements or inside one, the books are as before.
LEMMA OwnerStepKeeps ==
  ASSUME TypeOK, MarketTypeOK, Good(CurrentState), NEW who \in Owners, WitnessedNext(who)
  PROVE  Good(CurrentState)' /\ SameWealth /\ SameSales /\ UNCHANGED backupOwner
<1>1. ASSUME NEW a \in Accounts, NEW price \in Amounts, CreateListing(a, who, price)
      PROVE  Good(CurrentState)' /\ SameWealth /\ SameSales /\ UNCHANGED backupOwner
  BY <1>1, Created DEF CreateListing, EnterMarketEscrow
<1>2. ASSUME NEW l \in ListingIds, NEW amount \in Amounts, UpdateListingPrice(l, who, amount)
      PROVE  Good(CurrentState)' /\ SameWealth /\ SameSales /\ UNCHANGED backupOwner
  BY <1>2, Repriced DEF UpdateListingPrice, vars
<1>3. ASSUME NEW l \in ListingIds, NEW amount \in Amounts, OnNEP17Payment(l, who, amount)
      PROVE  Good(CurrentState)' /\ SameWealth /\ SameSales /\ UNCHANGED backupOwner
  BY <1>3, PaidIn DEF OnNEP17Payment, vars, SameSales, Sold
<1>4. ASSUME NEW l \in ListingIds, CancelListing(l, who)
      PROVE  Good(CurrentState)' /\ SameWealth /\ SameSales /\ UNCHANGED backupOwner
  <2> DEFINE a == listings[l].account
  <2>1. a \in Accounts
    BY <1>4 DEF CancelListing, IsActive, Good, Owned, CurrentState
  <2>2. escrow[a].market = ThisMarket /\ escrow[a].listing = l
    BY <1>4 DEF CancelListing, CancelMarketEscrow, AssertEscrowMarket
  <2>3. ClearMarketEscrow(a) /\ UNCHANGED <<backupOwner, nextListingId, moneyVars>>
    BY <1>4 DEF CancelListing, CancelMarketEscrow, moneyVars
  <2>4. listings' = [listings EXCEPT ![l].status = StatusCancelled]
    BY <1>4 DEF CancelListing
  <2> HIDE DEF a
  <2> QED
    BY <2>1, <2>2, <2>3, <2>4, CalledOff
<1>5. ASSUME NEW l \in ListingIds, RefundPendingPayment(l, who)
      PROVE  Good(CurrentState)' /\ SameWealth /\ SameSales /\ UNCHANGED backupOwner
  <2>1. UNCHANGED <<escrow, backupOwner, nextListingId, listings>>
    BY <1>5 DEF RefundPendingPayment, vars
  <2>2. /\ Good(CurrentState)'
        /\ \A q \in Owners : WealthIn(pendingPayment, gas)'[q] = WealthIn(pendingPayment, gas)[q]
             + (IF q = who THEN pendingPayment[l][who] ELSE 0)
             - (IF q = who THEN pendingPayment[l][who] ELSE 0)
    BY <1>5, <2>1, PaidOut DEF RefundPendingPayment, Refundable
  <2>3. SameWealth
    BY <2>2, WealthType, DepositType DEF SameWealth
  <2> QED
    BY <2>1, <2>2, <2>3 DEF SameSales, Sold
<1>6. ASSUME NEW a \in Accounts, OwnerForceCancel(a, who)
      PROVE  Good(CurrentState)' /\ SameWealth /\ SameSales /\ UNCHANGED backupOwner
  <2>1. /\ ClearMarketEscrow(a) /\ UNCHANGED <<backupOwner, nextListingId, moneyVars>>
        /\ escrow[a].listing > 0
    BY <1>6 DEF OwnerForceCancel, ForceCancelMarketEscrow, IsMarketEscrowActive, moneyVars
  <2>2. CASE escrow[a].market = ThisMarket
    <3> DEFINE l == escrow[a].listing
    <3>1. l \in ListingIds
      BY <2>1, BoundAssumption DEF TypeOK, MarketEscrow, ListingIds
    <3>2. listings[l].status = StatusActive /\ listings[l].account = a
      BY <2>2, <3>1 DEF Good, Agree, CurrentState
    <3>3. listings' = [listings EXCEPT ![l].status = StatusCancelled]
      BY <1>6, <2>2, <3>2 DEF OwnerForceCancel, AbandonListing, IsActive
    <3> HIDE DEF l
    <3>4. escrow[a].listing = l
      BY DEF l
    <3> QED
      BY <2>1, <2>2, <3>1, <3>3, <3>4, CalledOff
  <2>3. CASE escrow[a].market # ThisMarket
    BY <1>6, <2>1, <2>3, Elsewhere DEF OwnerForceCancel
  <2> QED
    BY <2>2, <2>3
<1>7. ASSUME NEW a \in Accounts, InitiateMarketEscrowCancel(a, who), UNCHANGED marketVars
      PROVE  Good(CurrentState)' /\ SameWealth /\ SameSales /\ UNCHANGED backupOwner
  <2>1. /\ escrow' = [escrow EXCEPT ![a].cancelAt = now]
        /\ UNCHANGED <<backupOwner, listings, nextListingId, moneyVars>>
    BY <1>7 DEF InitiateMarketEscrowCancel, marketVars, moneyVars
  <2> QED
    BY <2>1, Elsewhere
<1> QED
  BY <1>1, <1>2, <1>3, <1>4, <1>5, <1>6, <1>7 DEF WitnessedNext

\* Registration, the market's admin and time touch neither books nor listings.
LEMMA RestKeeps ==
  ASSUME TypeOK, MarketTypeOK, Good(CurrentState),
         \/ \E who \in Owners : RegistrationNext(who) /\ UNCHANGED marketVars
         \/ \E allowed \in BOOLEAN : SetAllowedAA(allowed)
         \/ Tick /\ UNCHANGED marketVars
  PROVE  Good(CurrentState)' /\ SameWealth /\ SameSales
<1>1. UNCHANGED <<escrow, listings, nextListingId, moneyVars>>
  BY DEF RegistrationNext, RegisterAccount, RegisterAccounts, RegisterAll, SetAllowedAA, Tick,
         vars, marketVars, moneyVars
<1>2. \A a \in Accounts : Exists(a) => backupOwner'[a] = backupOwner[a]
  BY DEF RegistrationNext, RegisterAccount, RegisterAccounts, RegisterAll, SetAllowedAA, Tick, vars
<1>3. Owned(CurrentState)'
  BY <1>1, <1>2, ZeroAssumption DEF Good, Owned, CurrentState, Exists
<1>4. Agree(CurrentState)' /\ Blank(CurrentState)' /\ Priced(CurrentState)' /\ SameSales
  BY <1>1 DEF Good, Agree, Blank, Priced, CurrentState, moneyVars, SameSales, Sold
<1> QED
  BY <1>1, <1>3, <1>4, MoneyStays DEF Good

(***************************************************************************)
(* The books.  What was sold before a step is what is sold after it, or    *)
(* one listing more.                                                       *)
(***************************************************************************)
\* What a set of sales sums up to.
LEMMA SalesAgree ==
  ASSUME NEW ls \in SUBSET ListingIds, NEW f, NEW g, \A k \in ls : f[k] \in Int /\ g[k] = f[k]
  PROVE  /\ SumFunctionOnSet(f, ls) \in Int
         /\ SumFunctionOnSet(g, ls) = SumFunctionOnSet(f, ls)
BY Finite, FS_Subset, SumType, SumAgree

\* The same with one sale more.
LEMMA SalesAdd ==
  ASSUME NEW ls \in SUBSET ListingIds, NEW f, NEW g, NEW l,
         \A k \in ls : f[k] \in Int, \A k \in ls : g[k] = f[k], l \notin ls, g[l] \in Int
  PROVE  SumFunctionOnSet(g, ls \cup {l}) = SumFunctionOnSet(f, ls) + g[l]
<1>1. IsFiniteSet(ls)
  BY Finite, FS_Subset
<1> QED
  BY SMTT(30), <1>1, SumAdd

\* A step that moves nobody's wealth and sells nothing keeps the balance.
LEMMA BalanceStays ==
  ASSUME MarketTypeOK, Balanced(CurrentState), SameWealth, SameSales
  PROVE  Balanced(CurrentState)'
<1> SUFFICES ASSUME NEW p \in Owners
             PROVE  WealthIn(pendingPayment, gas)'[p] = InitialGas
               + SumFunctionOnSet(Price(CurrentState)', SoldBy(CurrentState, p)')
               - SumFunctionOnSet(Price(CurrentState)', SoldTo(CurrentState, p)')
  BY DEF Balanced, CurrentState
<1>1. /\ SoldBy(CurrentState, p) \in SUBSET ListingIds
      /\ SoldTo(CurrentState, p) \in SUBSET ListingIds
      /\ \A k \in ListingIds : Price(CurrentState)[k] \in Int
  <2>1. \A k \in ListingIds : listings[k].price \in Prices \cup {0}
    BY DEF MarketTypeOK
  <2>2. \A k \in ListingIds : listings[k].price \in Int
    BY <2>1, AmountsAreNat
  <2> QED
    BY <2>2 DEF SoldBy, SoldTo, Price, CurrentState
<1>2. /\ SoldBy(CurrentState, p)' = SoldBy(CurrentState, p)
      /\ SoldTo(CurrentState, p)' = SoldTo(CurrentState, p)
      /\ \A k \in SoldBy(CurrentState, p) \cup SoldTo(CurrentState, p) :
           Price(CurrentState)'[k] = Price(CurrentState)[k]
  BY DEF SameSales, Sold, SoldBy, SoldTo, Price, CurrentState
<1>3. /\ SumFunctionOnSet(Price(CurrentState)', SoldBy(CurrentState, p))
           = SumFunctionOnSet(Price(CurrentState), SoldBy(CurrentState, p))
      /\ SumFunctionOnSet(Price(CurrentState)', SoldTo(CurrentState, p))
           = SumFunctionOnSet(Price(CurrentState), SoldTo(CurrentState, p))
  BY <1>1, <1>2, SalesAgree
<1>4. WealthIn(pendingPayment, gas)[p] = InitialGas
        + SumFunctionOnSet(Price(CurrentState), SoldBy(CurrentState, p))
        - SumFunctionOnSet(Price(CurrentState), SoldTo(CurrentState, p))
  BY DEF Balanced, CurrentState
<1> QED
  BY <1>2, <1>3, <1>4 DEF SameWealth

\* What the last part of a settlement stands on: the listing it read is still the one in escrow,
\* by the owner it will take the account from.
LEMMA SettlementReads ==
  ASSUME MarketInv, Settling
  PROVE  /\ settling.listing \in ListingIds /\ settling.copy \in Listing
         /\ settling.payer \in Owners /\ settling.newBackupOwner \in Owners
         /\ settling.saved \in Snapshot
         /\ settling.copy = settling.saved.listings[settling.listing]
         /\ settling.copy.status = StatusActive
         /\ settling.copy.account \in Accounts /\ settling.copy.seller \in Owners
         /\ settling.copy.price \in Prices
         /\ settling.copy.seller = backupOwner[settling.copy.account]
<1>1. settling \in Settlement /\ Suspended /\ Owned(settling.saved)
  BY DEF MarketInv, SettlingOK, Good
<1>2. settling.listing \in ListingIds
  BY <1>1 DEF Settlement
<1> QED
  BY <1>1, <1>2 DEF Settlement, Payers, Suspended, Owned

\* The end of a settlement closes its escrow and records the sale.
LEMMA Settled ==
  ASSUME MarketInv, Settling, FinishSettleListing
  PROVE  /\ Good(CurrentState)' /\ SameWealth
         /\ listings'[settling.listing].status = StatusSold
         /\ listings'[settling.listing].buyer = settling.payer
         /\ listings'[settling.listing].seller = settling.copy.seller
         /\ listings'[settling.listing].price = settling.copy.price
         /\ \A k \in ListingIds \ {settling.listing} : listings'[k] = listings[k]
<1>1. PICK l \in ListingIds, c \in Listing, p \in Owners :
        l = settling.listing /\ c = settling.copy /\ p = settling.payer
  BY SettlementReads
<1>2. PICK z : z = SoldCopy(c, p)
  OBVIOUS
<1>3. /\ z \in Listing /\ z.status = StatusSold /\ z.buyer = p
      /\ z.seller = c.seller /\ z.price = c.price
  BY <1>2, SoldType
<1>4. listings' = [listings EXCEPT ![l] = z]
  BY <1>1, <1>2 DEF FinishSettleListing, SoldCopy
<1>5. listings'[l] = z /\ \A k \in ListingIds \ {l} : listings'[k] = listings[k]
  BY <1>1, <1>4 DEF MarketInv, MarketTypeOK
<1>6. c.account \in Accounts /\ c.price \in Prices
  BY <1>1, SettlementReads
<1>7. SettleMarketEscrow(c.account, ThisMarket, l, settling.newBackupOwner)
  BY <1>1 DEF FinishSettleListing
<1>8. /\ escrow[c.account].market = ThisMarket /\ escrow[c.account].listing = l
      /\ escrow' = [escrow EXCEPT ![c.account] = NoEscrow]
      /\ \A b \in Accounts \ {c.account} : backupOwner'[b] = backupOwner[b]
  BY <1>6, <1>7 DEF SettleMarketEscrow, AssertEscrowMarket, ClearMarketEscrow, MarketInv, TypeOK
<1>9. UNCHANGED <<nextListingId, moneyVars>>
  BY DEF FinishSettleListing, moneyVars
<1>10. listings'[l].status # StatusActive /\ listings'[l].price \in Prices
  BY <1>3, <1>5, <1>6 DEF StatusActive, StatusSold
<1>11. Good(CurrentState)' /\ SameWealth
  BY <1>5, <1>6, <1>8, <1>9, <1>10, Closed DEF MarketInv
<1> QED
  BY <1>1, <1>3, <1>5, <1>11

\* With the sale recorded the books balance again: what was in flight is the sale's price.
LEMMA SettledBalances ==
  ASSUME MarketInv, Settling, FinishSettleListing
  PROVE  Balanced(CurrentState)'
<1> DEFINE s == settling.saved
           l == settling.listing
           price == settling.copy.price
<1>1. /\ l \in ListingIds /\ price \in Nat /\ s \in Snapshot
      /\ s.listings[l].status = StatusActive
      /\ \A k \in ListingIds : s.listings[k].price \in Int
  <2>1. price \in Nat
    BY SettlementReads, AmountsAreNat
  <2>2. s.listings \in [ListingIds -> Listing]
    BY SettlementReads DEF Snapshot
  <2>3. \A k \in ListingIds : s.listings[k].price \in Prices \cup {0}
    BY <2>2 DEF Listing
  <2>4. \A k \in ListingIds : s.listings[k].price \in Int
    BY <2>3, AmountsAreNat
  <2> QED
    BY <2>1, <2>4, SettlementReads
<1>2. /\ listings'[l].status = StatusSold /\ listings'[l].buyer = settling.payer
      /\ listings'[l].seller = settling.copy.seller /\ listings'[l].price = price
      /\ \A k \in ListingIds \ {l} : listings'[k] = listings[k]
  BY Settled
<1>3. \A k \in ListingIds : /\ Sold(k) <=> s.listings[k].status = StatusSold
                            /\ Sold(k) => listings[k] = s.listings[k]
  BY DEF MarketInv, Suspended
<1> SUFFICES ASSUME NEW p \in Owners
             PROVE  WealthIn(pendingPayment, gas)'[p] = InitialGas
               + SumFunctionOnSet(Price(CurrentState)', SoldBy(CurrentState, p)')
               - SumFunctionOnSet(Price(CurrentState)', SoldTo(CurrentState, p)')
  BY DEF Balanced, CurrentState
<1> DEFINE f == Price(s)
           g == Price(CurrentState)'
           by == SoldBy(s, p)
           to == SoldTo(s, p)
<1>4. /\ by \in SUBSET ListingIds /\ to \in SUBSET ListingIds /\ l \notin by /\ l \notin to
      /\ \A k \in by \cup to : f[k] \in Int /\ g[k] = f[k]
      /\ g[l] = price
  <2>1. l \notin by /\ l \notin to
    BY <1>1 DEF SoldBy, SoldTo, StatusActive, StatusSold
  <2>2. g[l] = price
    BY <1>1, <1>2 DEF Price, CurrentState
  <2>3. by \in SUBSET ListingIds /\ to \in SUBSET ListingIds
    BY DEF SoldBy, SoldTo
  <2>4. ASSUME NEW k \in by \cup to PROVE f[k] \in Int /\ g[k] = f[k]
    <3>1. k \in ListingIds /\ k # l /\ s.listings[k].status = StatusSold
      BY <2>1, <2>3 DEF SoldBy, SoldTo
    <3>2. listings'[k] = s.listings[k]
      BY <1>2, <1>3, <3>1
    <3> QED
      BY <1>1, <3>1, <3>2 DEF Price, CurrentState
  <2> QED
    BY <2>1, <2>2, <2>3, <2>4
<1>5. /\ SoldBy(CurrentState, p)' = IF p = settling.copy.seller THEN by \cup {l} ELSE by
      /\ SoldTo(CurrentState, p)' = IF p = settling.payer THEN to \cup {l} ELSE to
  <2>1. \A k \in ListingIds \ {l} :
          /\ listings'[k].status = StatusSold <=> s.listings[k].status = StatusSold
          /\ listings'[k].status = StatusSold => listings'[k] = s.listings[k]
    BY <1>2, <1>3 DEF Sold
  <2>2. s.listings[l].status # StatusSold
    BY <1>1 DEF StatusActive, StatusSold
  <2> HIDE DEF s, l
  <2> QED
    BY <1>1, <1>2, <2>1, <2>2 DEF SoldBy, SoldTo, CurrentState
<1>6. WealthIn(pendingPayment, gas)'[p]
        = WealthIn(s.pendingPayment, s.gas)[p]
            + (IF p = settling.copy.seller THEN price ELSE 0)
            - (IF p = settling.payer THEN price ELSE 0)
  <2>1. WealthIn(pendingPayment, gas)'[p] = WealthIn(pendingPayment, gas)[p]
    BY Settled DEF SameWealth
  <2>2. WealthIn(pendingPayment, gas)[p] = WealthIn(s.pendingPayment, s.gas)[p] + InFlight(p)
    BY DEF MarketInv, Suspended
  <2>3. WealthIn(s.pendingPayment, s.gas)[p] \in Nat
    BY <1>1, WealthOfType DEF Snapshot
  <2> QED
    BY <1>1, <2>1, <2>2, <2>3 DEF InFlight
<1>7. WealthIn(s.pendingPayment, s.gas)[p]
        = InitialGas + SumFunctionOnSet(f, by) - SumFunctionOnSet(f, to)
  BY DEF MarketInv, Balanced
<1>8. /\ SumFunctionOnSet(f, by) \in Int /\ SumFunctionOnSet(f, to) \in Int
      /\ SumFunctionOnSet(g, by) = SumFunctionOnSet(f, by)
      /\ SumFunctionOnSet(g, to) = SumFunctionOnSet(f, to)
      /\ SumFunctionOnSet(g, by \cup {l}) = SumFunctionOnSet(f, by) + price
      /\ SumFunctionOnSet(g, to \cup {l}) = SumFunctionOnSet(f, to) + price
  <2> HIDE DEF f, g, by, to, l, price
  <2>1. g[l] \in Int
    BY <1>1, <1>4
  <2>2. /\ \A k \in by : f[k] \in Int /\ g[k] = f[k]
        /\ \A k \in to : f[k] \in Int /\ g[k] = f[k]
    BY <1>4
  <2>3. /\ SumFunctionOnSet(f, by) \in Int /\ SumFunctionOnSet(g, by) = SumFunctionOnSet(f, by)
        /\ SumFunctionOnSet(f, to) \in Int /\ SumFunctionOnSet(g, to) = SumFunctionOnSet(f, to)
    BY <1>4, <2>2, SalesAgree
  <2>6. /\ \A k \in by : f[k] \in Int
        /\ \A k \in by : g[k] = f[k]
        /\ \A k \in to : f[k] \in Int
        /\ \A k \in to : g[k] = f[k]
    BY <2>2
  <2>4. ASSUME NEW ls \in SUBSET ListingIds, \A k \in ls : f[k] \in Int,
               \A k \in ls : g[k] = f[k], l \notin ls
        PROVE  SumFunctionOnSet(g, ls \cup {l}) = SumFunctionOnSet(f, ls) + g[l]
    BY <2>1, <2>4, SalesAdd
  <2>5. /\ SumFunctionOnSet(g, by \cup {l}) = SumFunctionOnSet(f, by) + g[l]
        /\ SumFunctionOnSet(g, to \cup {l}) = SumFunctionOnSet(f, to) + g[l]
    BY <1>4, <2>6, <2>4
  <2> QED
    BY <1>4, <2>3, <2>4, <2>5
<1>9. InitialGas \in Nat
  BY MarketAssumption
<1> HIDE DEF f, g, by, to, l, price, s
<1>10. WealthIn(pendingPayment, gas)'[p] = InitialGas
         + SumFunctionOnSet(g, SoldBy(CurrentState, p)')
         - SumFunctionOnSet(g, SoldTo(CurrentState, p)')
  <2>1. /\ SumFunctionOnSet(g, SoldBy(CurrentState, p)')
             = SumFunctionOnSet(f, by) + (IF p = settling.copy.seller THEN price ELSE 0)
        /\ SumFunctionOnSet(g, SoldTo(CurrentState, p)')
             = SumFunctionOnSet(f, to) + (IF p = settling.payer THEN price ELSE 0)
    BY <1>5, <1>8
  <2>2. PICK given, taken, before, after :
          /\ given = (IF p = settling.copy.seller THEN price ELSE 0)
          /\ taken = (IF p = settling.payer THEN price ELSE 0)
          /\ before = SumFunctionOnSet(f, by) /\ after = SumFunctionOnSet(f, to)
    OBVIOUS
  <2>3. given \in Int /\ taken \in Int /\ before \in Int /\ after \in Int
    BY <1>1, <1>8, <2>2
  <2>4. WealthIn(pendingPayment, gas)'[p] = InitialGas + before - after + given - taken
    BY <1>6, <1>7, <2>2
  <2>5. InitialGas + before - after + given - taken = InitialGas + (before + given) - (after + taken)
    BY <1>9, <2>3
  <2> QED
    BY <2>1, <2>2, <2>4, <2>5
<1> QED
  BY <1>10 DEF g

(***************************************************************************)
(* The invariant holds at first and is kept.                               *)
(***************************************************************************)
LEMMA MarketInvInit == MarketInit => MarketInv
<1> SUFFICES ASSUME MarketInit PROVE MarketInv
  OBVIOUS
<1> USE MarketAssumption, ZeroAssumption
<1>1. TypeOK
  BY TypeInit DEF MarketInit
<1>2. MarketTypeOK
  <2>1. nextListingId \in 1..MaxListing + 1
    BY BoundAssumption DEF MarketInit
  <2> QED
    <3>1. NoListing \in Listing
      BY DEF NoListing, Listing, StatusNone
    <3>2. listings \in [ListingIds -> Listing] /\ \A l \in ListingIds : listings[l] = NoListing
      BY <3>1 DEF MarketInit
    <3>3. /\ pendingPayment \in [ListingIds -> [Payers -> Prices \cup {0}]]
          /\ pendingCount \in [ListingIds -> Nat] /\ gas \in [Holders -> Nat]
          /\ allowedAA \in BOOLEAN
      BY DEF MarketInit
    <3> QED
      BY <2>1, <3>2, <3>3 DEF MarketTypeOK, Listing
<1>3. ~Settling
  BY DEF MarketInit, Settling
<1>4. /\ \A l \in ListingIds : listings[l] = NoListing /\ pendingCount[l] = 0
      /\ \A l \in ListingIds, p \in Payers : pendingPayment[l][p] = 0
      /\ gas[ThisMarket] = 0 /\ \A p \in Owners : gas[p] = InitialGas
  BY DEF MarketInit, Holders
<1>5. NoListing.status # StatusActive /\ NoListing.status # StatusSold
  BY DEF NoListing, StatusNone, StatusActive, StatusSold
<1>6. Agree(CurrentState) /\ Owned(CurrentState)
  <2>1. \A a \in Accounts : escrow[a].market # ThisMarket
    BY DEF MarketInit, Init, NoEscrow
  <2> QED
    BY <1>4, <1>5, <2>1 DEF Agree, Owned, CurrentState
<1>7. Blank(CurrentState) /\ Priced(CurrentState)
  BY <1>4, <1>5 DEF Blank, Priced, CurrentState
<1>8. Counted(CurrentState)
  <2>1. ASSUME NEW l \in ListingIds PROVE Cardinality(PaidUp(pendingPayment[l])) = 0
    <3>1. PaidUp(pendingPayment[l]) = {}
      BY <1>4 DEF PaidUp
    <3> QED
      BY <3>1, FS_EmptySet
  <2> QED
    BY <1>4, <2>1 DEF Counted, CurrentState
<1>9. Backed(CurrentState)
  <2> DEFINE h == [k \in ListingIds |-> SumFunction(pendingPayment[k])]
  <2>1. ASSUME NEW k \in ListingIds PROVE SumFunction(pendingPayment[k]) = 0
    <3>1. DOMAIN pendingPayment[k] = Payers
      BY DEF MarketInit
    <3> QED
      BY <1>4, <3>1, Finite, SumZero DEF SumFunction
  <2>2. DOMAIN h = ListingIds /\ \A k \in ListingIds : h[k] = 0
    BY <2>1
  <2> HIDE DEF h
  <2>3. SumFunction(h) = 0
    BY <2>2, Finite, SumZero DEF SumFunction
  <2> QED
    BY <1>4, <2>3 DEF Backed, Owed, CurrentState, h
<1>10. Balanced(CurrentState)
  <2> SUFFICES ASSUME NEW p \in Owners
               PROVE  WealthIn(pendingPayment, gas)[p] = InitialGas
                 + SumFunctionOnSet(Price(CurrentState), SoldBy(CurrentState, p))
                 - SumFunctionOnSet(Price(CurrentState), SoldTo(CurrentState, p))
    BY DEF Balanced, CurrentState
  <2>1. SoldBy(CurrentState, p) = {} /\ SoldTo(CurrentState, p) = {}
    BY <1>4, <1>5 DEF SoldBy, SoldTo, CurrentState
  <2> DEFINE h == [k \in ListingIds |-> pendingPayment[k][p]]
  <2>2. DOMAIN h = ListingIds /\ \A k \in ListingIds : h[k] = 0
    BY <1>4 DEF Payers
  <2>3. WealthIn(pendingPayment, gas)[p] = gas[p] + SumFunction(h)
    BY DEF WealthIn
  <2> HIDE DEF h
  <2>4. SumFunction(h) = 0
    BY <2>2, Finite, SumZero DEF SumFunction
  <2> QED
    BY <1>4, <2>1, <2>3, <2>4, SumEmpty
<1> QED
  BY <1>1, <1>2, <1>3, <1>6, <1>7, <1>8, <1>9, <1>10 DEF MarketInv, SettlingOK, Good

\* A settlement begins from good books and takes the price from the payer to the seller.
LEMMA Begun ==
  ASSUME MarketInv, ~Settling, NEW l \in ListingIds, NEW payer \in Payers, NEW o \in Owners,
         BeginSettleListing(l, payer, o)
  PROVE  /\ Good(CurrentState)' /\ UNCHANGED backupOwner
         /\ settling'.saved = CurrentState /\ Settling'
         /\ Suspended'
<1> USE DEF BeginSettleListing
<1>1. /\ listings[l].status = StatusActive /\ listings[l].seller \in Owners
      /\ listings[l].price \in Prices /\ listings[l].price \in Nat
      /\ pendingPayment[l][payer] = listings[l].price
      /\ payer \in Owners
  <2>1. listings[l].status = StatusActive /\ pendingPayment[l][payer] = listings[l].price
    BY DEF IsActive, HasPaidPrice
  <2>2. listings[l].seller \in Owners /\ listings[l].price \in Prices
    BY <2>1 DEF MarketInv, Good, Owned, CurrentState
  <2> QED
    BY <2>1, <2>2, AmountsAreNat DEF Payers
<1>2. /\ Good(CurrentState)'
      /\ \A q \in Owners : WealthIn(pendingPayment, gas)'[q] = WealthIn(pendingPayment, gas)[q]
           + (IF q = listings[l].seller THEN pendingPayment[l][payer] ELSE 0)
           - (IF q = payer THEN pendingPayment[l][payer] ELSE 0)
  <2>1. pendingPayment[l][payer] > 0
    BY <1>1, MarketAssumption
  <2>2. UNCHANGED <<escrow, backupOwner, nextListingId, listings>>
    BY DEF vars
  <2>3. Transfer(ThisMarket, listings[l].seller, pendingPayment[l][payer])
    BY <1>1
  <2> QED
    BY <1>1, <2>1, <2>2, <2>3, PaidOut DEF MarketInv
<1>3. /\ settling'.listing = l /\ settling'.copy = listings[l] /\ settling'.payer = payer
      /\ settling'.saved = CurrentState /\ Settling'
  BY DEF Settling, Idle
<1>4. UNCHANGED <<backupOwner, listings>>
  BY DEF vars
<1>5. \A q \in Owners : WealthIn(pendingPayment, gas)'[q]
        = WealthIn(pendingPayment, gas)[q] + InFlight(q)'
  <2> SUFFICES ASSUME NEW q \in Owners
               PROVE  WealthIn(pendingPayment, gas)'[q]
                        = WealthIn(pendingPayment, gas)[q] + InFlight(q)'
    OBVIOUS
  <2>1. WealthIn(pendingPayment, gas)[q] \in Nat
    BY WealthType DEF MarketInv
  <2>2. InFlight(q)' = (IF q = listings[l].seller THEN listings[l].price ELSE 0)
                         - (IF q = payer THEN listings[l].price ELSE 0)
    BY <1>3 DEF InFlight
  <2> QED
    BY <1>1, <1>2, <2>1, <2>2
<1>6. Suspended'
  <2> HIDE DEF BeginSettleListing
  <2> QED
    BY <1>1, <1>3, <1>4, <1>5 DEF Suspended, Sold, CurrentState
<1> QED
  BY <1>2, <1>3, <1>4, <1>6

\* The invariant is inductive.
LEMMA MarketInvStep == MarketInv /\ [MarketNextStep]_allVars => MarketInv'
<1> SUFFICES ASSUME MarketInv, [MarketNextStep]_allVars PROVE MarketInv'
  OBVIOUS
<1>1. TypeOK' /\ MarketTypeOK' /\ SettlingOK'
  BY CoreTypeStep, MarketTypeStep, SettlingStep
<1>3. ASSUME Good(CurrentState)', SameWealth, SameSales, UNCHANGED settling,
             Settling => UNCHANGED backupOwner
      PROVE  MarketInv'
  <2>1. CASE ~Settling
    <3>1. Balanced(CurrentState)'
      BY <1>3, <2>1, BalanceStays DEF MarketInv
    <3>2. ~Settling'
      BY <1>3, <2>1 DEF Settling
    <3> QED
      BY <1>1, <1>3, <3>1, <3>2 DEF MarketInv
  <2>2. CASE Settling
    <3>1. Settling' /\ Balanced(settling.saved)'
      BY <1>3, <2>2 DEF MarketInv, Settling, Balanced, SoldBy, SoldTo, Price
    <3>2. Good(settling.saved)'
      BY <1>3, <2>2
         DEF MarketInv, Good, Agree, Owned, Blank, Counted, Priced, Backed
    <3>3. Suspended'
      BY <1>3, <2>2 DEF MarketInv, Suspended, SameWealth, SameSales, Sold, InFlight
    <3> QED
      BY <1>1, <1>3, <3>1, <3>2, <3>3 DEF MarketInv
  <2> QED
    BY <2>1, <2>2
<1>4. ASSUME NEW who \in Owners, WitnessedNext(who), UNCHANGED settling
      PROVE  MarketInv'
  BY <1>3, <1>4, OwnerStepKeeps DEF MarketInv
<1>5. ASSUME \/ \E who \in Owners : RegistrationNext(who) /\ UNCHANGED marketVars
             \/ \E allowed \in BOOLEAN : SetAllowedAA(allowed)
             \/ Tick /\ UNCHANGED marketVars,
             ~Settling, UNCHANGED settling
      PROVE  MarketInv'
  BY <1>3, <1>5, RestKeeps DEF MarketInv
<1>6. ASSUME ~Settling, NEW l \in ListingIds, NEW payer \in Payers, NEW o \in Owners,
             BeginSettleListing(l, payer, o)
      PROVE  MarketInv'
  <2>1. /\ Good(CurrentState)' /\ UNCHANGED backupOwner
        /\ settling'.saved = CurrentState /\ Settling' /\ Suspended'
    BY <1>6, Begun
  <2>2. Good(CurrentState) /\ Balanced(CurrentState)
    BY <1>6 DEF MarketInv
  <2>3. Good(settling.saved)'
    BY <2>1, <2>2 DEF Good, Agree, Owned, Blank, Counted, Priced, Backed
  <2>4. Balanced(settling.saved)'
    BY <2>1, <2>2 DEF Balanced, SoldBy, SoldTo, Price
  <2> QED
    BY <1>1, <2>1, <2>3, <2>4 DEF MarketInv
<1>7. ASSUME Settling, FinishSettleListing
      PROVE  MarketInv'
  <2>1. ~Settling'
    BY <1>7 DEF FinishSettleListing, Settling
  <2> QED
    BY <1>1, <1>7, <2>1, Settled, SettledBalances DEF MarketInv
<1>8. ASSUME Settling, RevertSettleListing
      PROVE  MarketInv'
  <2>1. ~Settling' /\ UNCHANGED backupOwner
    BY <1>8 DEF RevertSettleListing, Settling
  <2>2. CurrentState' = settling.saved
    <3>1. settling.saved \in Snapshot
      BY <1>8, SettlementReads
    <3> QED
      BY <1>8, <3>1 DEF RevertSettleListing, CurrentState, Snapshot
  <2>3. Good(settling.saved) /\ Balanced(settling.saved)
    BY <1>8 DEF MarketInv
  <2>4. Good(CurrentState)'
    BY <2>1, <2>2, <2>3 DEF Good, Agree, Owned, Blank, Counted, Priced, Backed
  <2>5. Balanced(CurrentState)'
    BY <2>2, <2>3 DEF Balanced, SoldBy, SoldTo, Price
  <2> QED
    BY <1>1, <2>1, <2>4, <2>5 DEF MarketInv
<1>9. ASSUME UNCHANGED allVars
      PROVE  MarketInv'
  BY <1>3, <1>9 DEF allVars, vars, marketVars, MarketInv, SameWealth, SameSales, Sold, Good, Agree, Owned,
     Blank, Counted, Priced, Backed, CurrentState
<1> QED
  BY MarketCases, <1>4, <1>5, <1>6, <1>7, <1>8, <1>9 DEF MarketInv

-----------------------------------------------------------------------------
(***************************************************************************)
(* What follows from the invariant, for every instance.                    *)
(***************************************************************************)
\* Every reachable state of market, core and balances has sound books, also inside a settlement.
THEOREM MarketSafety == MarketSpec => []MarketInv
BY MarketInvInit, MarketInvStep, PTL DEF MarketSpec

\* The market's variables keep their type.
THEOREM MarketTypeCorrect == MarketSpec => []MarketTypeOK
BY MarketSafety, PTL DEF MarketInv

\* What is for sale is what the core holds in escrow, and the seller's to sell: no callback,
\* cancellation or revert leaves a listing without its escrow or an escrow without its listing.
THEOREM ListingsHold == MarketSpec => []ListingsAreReal
<1>1. MarketInv => ListingsAreReal
  BY DEF MarketInv, Good, Agree, Owned, CurrentState, ListingsAreReal, EscrowMatchesListing,
         SellerIsOwner, IsActive
<1> QED
  BY <1>1, MarketSafety, PTL

\* The contract holds the deposits it owes, has counted them all, and each on an Active listing
\* is the listing's price.
THEOREM DepositsHold == MarketSpec => []DepositsAreKept
<1>1. MarketInv => Solvent
  BY DEF MarketInv, Good, Backed, CurrentState, Solvent, Deposits, Owed
<1>2. MarketInv => CountIsExact
  BY DEF MarketInv, Good, Counted, CurrentState, CountIsExact, PaidUp
<1>3. MarketInv => DepositIsPrice
  BY DEF MarketInv, Good, Priced, CurrentState, DepositIsPrice, IsActive
<1> QED
  BY <1>1, <1>2, <1>3, MarketSafety, PTL DEF DepositsAreKept

\* Between transactions an owner has what the recorded sales say, however many settlements were
\* begun, reentered, finished or reverted.
THEOREM BooksHold == MarketSpec => []BooksBalance
<1>1. MarketInv => BooksBalance
  <2> SUFFICES ASSUME MarketInv, settling = Idle, NEW p \in Owners
               PROVE  WealthIn(pendingPayment, gas)[p] = InitialGas
                        + SoldFor({l \in ListingIds : Sold(l) /\ listings[l].seller = p})
                        - SoldFor({l \in ListingIds : Sold(l) /\ listings[l].buyer = p})
    BY DEF BooksBalance
  <2>1. Balanced(CurrentState)
    BY DEF MarketInv, Settling
  <2>2. /\ SoldBy(CurrentState, p) = {l \in ListingIds : Sold(l) /\ listings[l].seller = p}
        /\ SoldTo(CurrentState, p) = {l \in ListingIds : Sold(l) /\ listings[l].buyer = p}
        /\ Price(CurrentState) = [l \in ListingIds |-> listings[l].price]
    BY DEF SoldBy, SoldTo, Sold, Price, CurrentState
  <2>3. \A ls : SoldFor(ls) = SumFunctionOnSet(Price(CurrentState), ls)
    BY <2>2 DEF SoldFor
  <2>4. WealthIn(pendingPayment, gas)[p] = InitialGas
          + SumFunctionOnSet(Price(CurrentState), SoldBy(CurrentState, p))
          - SumFunctionOnSet(Price(CurrentState), SoldTo(CurrentState, p))
    BY <2>1 DEF Balanced, CurrentState
  <2> QED
    BY <2>2, <2>3, <2>4
<1> QED
  BY <1>1, MarketSafety, PTL

(***************************************************************************)
(* The market implements AtomicSale.  Between transactions its wealth is   *)
(* what the variables say; inside a settlement it is what they said when   *)
(* the settlement began, so the sale happens in the settlement's last      *)
(* step and a revert is a stutter.                                         *)
(***************************************************************************)
wealthSeen == IF settling = Idle THEN WealthIn(pendingPayment, gas)
              ELSE WealthIn(settling.saved.pendingPayment, settling.saved.gas)

\* Nobody's wealth changed, so the function did not.
LEMMA SameWealthSeen ==
  ASSUME SameWealth
  PROVE  WealthIn(pendingPayment, gas)' = WealthIn(pendingPayment, gas)
BY DEF SameWealth, WealthIn

\* At first everybody has the initial balance and nobody an account.
LEMMA SaleInit == MarketInit => Sale!Init
<1> SUFFICES ASSUME MarketInit PROVE Sale!Init
  OBVIOUS
<1>1. ASSUME NEW p \in Owners PROVE WealthIn(pendingPayment, gas)[p] = InitialGas
  <2> DEFINE h == [k \in ListingIds |-> pendingPayment[k][p]]
  <2>1. DOMAIN h = ListingIds /\ \A k \in ListingIds : h[k] = 0
    BY DEF MarketInit, Payers
  <2>2. WealthIn(pendingPayment, gas)[p] = gas[p] + SumFunction(h)
    BY DEF WealthIn
  <2>3. gas[p] = InitialGas
    BY MarketAssumption DEF MarketInit, Holders
  <2> HIDE DEF h
  <2>4. SumFunction(h) = 0
    BY <2>1, Finite, SumZero DEF SumFunction
  <2> QED
    BY <2>2, <2>3, <2>4, MarketAssumption
<1>2. WealthIn(pendingPayment, gas) = [p \in Owners |-> InitialGas]
  BY <1>1 DEF WealthIn
<1>3. settling = Idle /\ backupOwner = [a \in Accounts |-> Zero]
  BY DEF MarketInit, Init
<1> QED
  BY <1>2, <1>3 DEF Sale!Init

\* The step that ends a settlement is the sale.
LEMMA SettleIsSale ==
  ASSUME MarketInv, Settling, FinishSettleListing
  PROVE  Sale!Sell(settling.copy.account, settling.payer, settling.newBackupOwner,
                   settling.copy.price)
<1> DEFINE a == settling.copy.account
           payer == settling.payer
           seller == settling.copy.seller
           price == settling.copy.price
           s == settling.saved
           before == WealthIn(s.pendingPayment, s.gas)
<1>1. /\ a \in Accounts /\ payer \in Owners /\ seller \in Owners /\ price \in Prices
      /\ seller = backupOwner[a] /\ s \in Snapshot
      /\ settling.listing \in ListingIds
      /\ s.pendingPayment[settling.listing][payer] = price
  BY SettlementReads DEF MarketInv, Suspended
<1>2. seller # Zero
  BY <1>1, ZeroAssumption
<1>3. wealthSeen = before
  BY DEF wealthSeen, Settling
<1>4. \A q \in Owners : before[q] \in Nat
  BY <1>1, WealthOfType DEF Snapshot
<1>5. before[payer] >= price /\ price \in Nat
  <2>1. price <= before[payer]
    BY <1>1, WealthOfType DEF Snapshot
  <2>2. price \in Nat
    BY <1>1, AmountsAreNat
  <2> QED
    BY <1>1, <1>4, <2>1, <2>2
<1>6. backupOwner' = [backupOwner EXCEPT ![a] = settling.newBackupOwner]
  BY DEF FinishSettleListing, SettleMarketEscrow
<1>7. ASSUME NEW q \in Owners
      PROVE  wealthSeen'[q] = before[q] + (IF q = seller THEN price ELSE 0)
                                        - (IF q = payer THEN price ELSE 0)
  <2>1. wealthSeen' = WealthIn(pendingPayment, gas)'
    BY DEF FinishSettleListing, wealthSeen
  <2>2. WealthIn(pendingPayment, gas)' = WealthIn(pendingPayment, gas)
    BY Settled, SameWealthSeen
  <2>3. WealthIn(pendingPayment, gas)[q] = before[q] + InFlight(q)
    BY DEF MarketInv, Suspended
  <2> QED
    BY <1>4, <1>5, <2>1, <2>2, <2>3 DEF InFlight
<1>8. before = [q \in Owners |-> before[q]] /\ wealthSeen' = [q \in Owners |-> wealthSeen'[q]]
  <2>1. wealthSeen' = WealthIn(pendingPayment, gas)'
    BY DEF FinishSettleListing, wealthSeen
  <2> QED
    BY <2>1 DEF WealthIn
<1> HIDE DEF a, payer, seller, price, s, before
<1>9. wealthSeen' = IF payer = seller THEN before
                    ELSE [before EXCEPT ![payer] = @ - price, ![seller] = @ + price]
  <2>1. CASE payer = seller
    <3>1. \A q \in Owners : wealthSeen'[q] = before[q]
      BY <1>4, <1>5, <1>7, <2>1
    <3> QED
      BY <1>8, <2>1, <3>1
  <2>2. CASE payer # seller
    <3>1. before \in [Owners -> Nat]
      BY <1>4, <1>8
    <3>2. PICK after : after = [before EXCEPT ![payer] = @ - price, ![seller] = @ + price]
      OBVIOUS
    <3>3. after = [q \in Owners |-> after[q]]
      BY <3>1, <3>2
    <3>4. ASSUME NEW q \in Owners PROVE after[q] = wealthSeen'[q]
      <4>1. after[q] = IF q = seller THEN before[q] + price
                       ELSE IF q = payer THEN before[q] - price ELSE before[q]
        BY <1>1, <2>2, <3>1, <3>2
      <4> QED
        BY <1>4, <1>5, <1>7, <2>2, <4>1
    <3>5. after = wealthSeen'
      BY <1>8, <3>3, <3>4
    <3> QED
      BY <2>2, <3>2, <3>5
  <2> QED
    BY <2>1, <2>2
<1>10. /\ backupOwner[a] # Zero /\ wealthSeen[payer] >= price
       /\ wealthSeen' = IF payer = backupOwner[a] THEN wealthSeen
                        ELSE [wealthSeen EXCEPT ![payer] = @ - price, ![backupOwner[a]] = @ + price]
  BY <1>1, <1>2, <1>3, <1>5, <1>9
<1> QED
  BY <1>6, <1>10 DEF Sale!Sell, wealthSeen, a, payer, price

\* Every step of the market is a registration, a sale or nothing to an outsider.
LEMMA SaleStep == MarketInv /\ [MarketNextStep]_allVars => [Sale!Next]_(Sale!saleVars)
<1> SUFFICES ASSUME MarketInv, [MarketNextStep]_allVars
             PROVE  Sale!Next \/ UNCHANGED <<backupOwner, wealthSeen>>
  BY DEF Sale!saleVars, wealthSeen
<1>1. ASSUME NEW who \in Owners, WitnessedNext(who), UNCHANGED settling
      PROVE  UNCHANGED <<backupOwner, wealthSeen>>
  BY <1>1, OwnerStepKeeps, SameWealthSeen DEF MarketInv, wealthSeen
<1>2. ASSUME \/ \E who \in Owners : RegistrationNext(who) /\ UNCHANGED marketVars
             \/ \E allowed \in BOOLEAN : SetAllowedAA(allowed)
             \/ Tick /\ UNCHANGED marketVars,
             ~Settling, UNCHANGED settling
      PROVE  Sale!Next \/ UNCHANGED <<backupOwner, wealthSeen>>
  <2>1. UNCHANGED wealthSeen
    BY <1>2, RestKeeps, SameWealthSeen DEF MarketInv, wealthSeen
  <2>2. CASE UNCHANGED backupOwner
    BY <2>1, <2>2
  <2>3. ASSUME NEW o \in Owners, NEW ids \in SUBSET Accounts, RegisterAll(ids, o)
        PROVE  Sale!Next
    <3>1. ids \in SUBSET {b \in Accounts : backupOwner[b] = Zero}
      BY <2>3 DEF RegisterAll, Exists
    <3>2. backupOwner' = [b \in Accounts |-> IF b \in ids THEN o ELSE backupOwner[b]]
      BY <2>3 DEF RegisterAll
    <3> QED
      BY <2>1, <3>1, <3>2 DEF Sale!Next, Sale!Register, wealthSeen
  <2> QED
    BY <1>2, <2>2, <2>3
       DEF RegistrationNext, RegisterAccount, RegisterAccounts, SetAllowedAA, Tick, vars
<1>3. ASSUME ~Settling, NEW l \in ListingIds, NEW payer \in Payers, NEW o \in Owners,
             BeginSettleListing(l, payer, o)
      PROVE  UNCHANGED <<backupOwner, wealthSeen>>
  BY <1>3, Begun DEF wealthSeen, Settling, CurrentState
<1>4. ASSUME Settling, FinishSettleListing
      PROVE  Sale!Next
  BY <1>4, SettleIsSale, SettlementReads DEF Sale!Next
<1>5. ASSUME Settling, RevertSettleListing
      PROVE  UNCHANGED <<backupOwner, wealthSeen>>
  BY <1>5 DEF RevertSettleListing, wealthSeen, Settling
<1>6. ASSUME UNCHANGED allVars
      PROVE  UNCHANGED <<backupOwner, wealthSeen>>
  BY <1>6 DEF allVars, vars, marketVars, wealthSeen
<1> QED
  BY MarketCases, <1>1, <1>2, <1>3, <1>4, <1>5, <1>6 DEF MarketInv

\* Seen from outside a transaction the market is AtomicSale: an account changes hands in one step
\* with its price, whatever the seller's contract does while it is being paid.
THEOREM MarketImplementsSale == MarketSpec => SaleSpec
<1>1. MarketInit => Sale!Init
  BY SaleInit
<1>2. MarketInv /\ [MarketNextStep]_allVars => [Sale!Next]_(Sale!saleVars)
  BY SaleStep
<1> QED
  BY <1>1, <1>2, MarketSafety, PTL DEF MarketSpec, SaleSpec, Sale!Spec
RefundCovered == \A l \in ListingIds, p \in Payers : pendingPayment[l][p] <= gas[ThisMarket]

\* A payer who asks for a refund, inside a settlement or not, is never refused for the market's want
\* of GAS: every deposit by itself is covered.
THEOREM RefundsCovered == MarketSpec => []RefundCovered
<1>1. ASSUME MarketInv, NEW l \in ListingIds, NEW p \in Payers
      PROVE  pendingPayment[l][p] <= gas[ThisMarket]
  <2>1. PICK owed : owed = [k \in ListingIds |-> SumFunction(pendingPayment[k])]
    OBVIOUS
  <2>2. gas[ThisMarket] = SumFunction(owed)
    BY <1>1, <2>1 DEF MarketInv, Good, Backed, CurrentState, Owed
  <2>3. /\ \A k \in ListingIds : /\ DOMAIN pendingPayment[k] = Payers
                                /\ \A q \in Payers : pendingPayment[k][q] \in Nat
        /\ IsFiniteSet(Payers) /\ IsFiniteSet(ListingIds)
    <3>1. \A k \in ListingIds : pendingPayment[k] \in [Payers -> Prices \cup {0}]
      BY <1>1 DEF MarketInv, MarketTypeOK
    <3>2. IsFiniteSet(Payers) /\ IsFiniteSet(ListingIds)
      BY Finite
    <3> QED
      BY <3>1, <3>2, AmountsAreNat
  <2>4. \A k \in ListingIds :
          /\ SumFunction(pendingPayment[k]) \in Nat
          /\ \A q \in Payers : pendingPayment[k][q] <= SumFunction(pendingPayment[k])
    BY <2>3, SumNat DEF SumFunction
  <2>5. DOMAIN owed = ListingIds /\ \A k \in ListingIds : owed[k] \in Nat
    BY <2>1, <2>4
  <2>6. owed[l] <= SumFunctionOnSet(owed, ListingIds) /\ SumFunctionOnSet(owed, ListingIds) \in Nat
    BY <2>3, <2>5, SumNat
  <2>7. pendingPayment[l][p] <= owed[l] /\ owed[l] \in Nat /\ pendingPayment[l][p] \in Nat
    BY <2>1, <2>3, <2>4, <2>5
  <2> QED
    BY <2>2, <2>5, <2>6, <2>7 DEF SumFunction
<1>2. MarketInv => RefundCovered
  BY <1>1 DEF RefundCovered
<1> QED
  BY <1>2, MarketSafety, PTL

(***************************************************************************)
(* The core's own safety, inside a settlement too.  A revert puts back the *)
(* escrows, and only them; the accounts that existed then are those that   *)
(* exist when it does.                                                     *)
(***************************************************************************)
EscrowsWhole(e) ==
  \A a \in Accounts :
    /\ e[a] = NoEscrow \/ (e[a].market # Zero /\ e[a].listing > 0)
    /\ ~Exists(a) => e[a] = NoEscrow
CoreInv == Inv /\ (Settling => EscrowsWhole(settling.saved.escrow))

\* The core's invariants say of the escrows just what a revert needs.
LEMMA InvKnowsEscrows == Inv => EscrowsWhole(escrow)
BY DEF Inv, NoStaleEscrowMarker, IsMarketEscrowActive, BlankUntilRegistered, CleanShell,
       EscrowsWhole

\* Going back to whole escrows, with all else as it is, keeps the core's invariants.
LEMMA RevertKeepsInv ==
  ASSUME Inv, Settling, RevertSettleListing, EscrowsWhole(settling.saved.escrow)
  PROVE  Inv'
<1>1. escrow' = settling.saved.escrow
  BY DEF RevertSettleListing
<1>2. /\ module' = module /\ backupOwner' = backupOwner /\ metadataUri' = metadataUri
      /\ escapeTriggeredAt' = escapeTriggeredAt /\ escapeLastInitiated' = escapeLastInitiated
      /\ pendingUpdate' = pendingUpdate /\ pendingCall' = pendingCall
      /\ nonce' = nonce /\ pluginConfig' = pluginConfig
  BY DEF RevertSettleListing, escapeVars, pendingVars
<1>3. (NoOrphanConfig /\ PendingNeedsModule /\ EscapeStamped)'
  BY <1>2 DEF Inv, NoOrphanConfig, PendingNeedsModule, EscapeStamped
<1>4. NoStaleEscrowMarker'
  BY <1>1 DEF EscrowsWhole, NoStaleEscrowMarker, IsMarketEscrowActive
<1>5. BlankUntilRegistered'
  BY <1>1, <1>2 DEF Inv, EscrowsWhole, BlankUntilRegistered, CleanShell, Exists
<1> QED
  BY <1>3, <1>4, <1>5 DEF Inv

\* While a settlement is suspended no account appears or changes hands.
LEMMA OwnersStand ==
  ASSUME Settling, [MarketNextStep]_allVars, Settling', SettlingOK
  PROVE  backupOwner' = backupOwner /\ settling' = settling
<1>1. ASSUME NEW who \in Owners, WitnessedNext(who)
      PROVE  backupOwner' = backupOwner
  BY <1>1 DEF WitnessedNext, CreateListing, EnterMarketEscrow, UpdateListingPrice, OnNEP17Payment,
     CancelListing, CancelMarketEscrow, RefundPendingPayment, OwnerForceCancel,
     ForceCancelMarketEscrow, InitiateMarketEscrowCancel, vars
<1> QED
  BY MarketCases, <1>1 DEF FinishSettleListing, RevertSettleListing, Settling, allVars, vars

\* Together they are kept by every step.
LEMMA CoreInvStep == MarketInv /\ CoreInv /\ [MarketNextStep]_allVars => CoreInv'
<1> SUFFICES ASSUME MarketInv, CoreInv, [MarketNextStep]_allVars PROVE CoreInv'
  OBVIOUS
<1>1. Inv'
  <2>1. CASE Settling /\ RevertSettleListing
    BY <2>1, RevertKeepsInv DEF CoreInv
  <2>2. CASE ~(Settling /\ RevertSettleListing)
    BY <2>2, CoreStep, InvStep DEF CoreInv, MarketInv
  <2> QED
    BY <2>1, <2>2
<1>2. ASSUME Settling' PROVE EscrowsWhole(settling.saved.escrow)'
  <2>1. CASE Settling
    BY <1>2, <2>1, OwnersStand DEF CoreInv, MarketInv, EscrowsWhole, Exists
  <2>2. CASE ~Settling
    <3>1. settling'.saved = CurrentState /\ backupOwner' = backupOwner
      BY <1>2, <2>2, MarketCases
         DEF MarketInv, Settling, BeginSettleListing, allVars, vars
    <3>2. EscrowsWhole(escrow)
      BY InvKnowsEscrows DEF CoreInv
    <3> QED
      BY <3>1, <3>2 DEF EscrowsWhole, Exists, CurrentState
  <2> QED
    BY <2>1, <2>2
<1> QED
  BY <1>1, <1>2 DEF CoreInv

\* The core's safety invariants hold beside the market: at every point of a settlement, whatever
\* the paid contract does, and after a revert has taken escrows of the core back.
THEOREM CoreStaysSafe == MarketSpec => []Inv
<1>1. MarketInit => CoreInv
  BY InvInit DEF MarketInit, CoreInv, Settling
<1>2. MarketInv /\ CoreInv /\ [MarketNextStep]_allVars => CoreInv'
  BY CoreInvStep
<1> QED
  BY <1>1, <1>2, MarketSafety, PTL DEF MarketSpec, CoreInv
=============================================================================

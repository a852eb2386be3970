SPECIFICATION FairMarketSpec
CONSTANTS
  o1 = o1
  Accounts = {a1}
  Owners = {o1, o2}
  ContractOwners = {o1}
  Verifiers = {}
  Hooks = {}
  NoClear = {}
  Markets = {mkt}
  ThisMarket = mkt
  Zero = Zero
  ModuleCalls = {}
  ClearingCalls = {}
  Channels = {}
  Preimage <- MCPreimage
  ConfigUpdateTimelock = 1
  EscapeCooldown = 1
  MinEscapeTimelock = 2
  MaxEscapeTimelock = 2
  OwnerCancelTimelock = 1
  MaxBatch = 2
  MaxTime = 2
  MaxListing = 2
  MaxSeq = 0
  Prices = {1, 2}
  InitialGas = 2
INVARIANTS MarketTypeOK ListingsAreReal DepositsAreKept BooksBalance
PROPERTIES SaleSpec EscrowIsReleased DepositIsRecoverable
CHECK_DEADLOCK FALSE

SPECIFICATION PaymasterSpec
CONSTANTS
  o1 = o1
  t1 = t1
  f1 = f1
  Accounts = {a1, a2}
  Owners = {o1}
  Verifiers = {}
  Hooks = {}
  NoClear = {}
  Markets = {}
  Zero = Zero
  ModuleCalls = {}
  ClearingCalls = {}
  Channels = {c1}
  Preimage <- MCPreimage
  ConfigUpdateTimelock = 0
  EscapeCooldown = 0
  MinEscapeTimelock = 0
  MaxEscapeTimelock = 0
  OwnerCancelTimelock = 0
  MaxBatch = 2
  MaxTime = 1
  MaxListing = 0
  MaxSeq = 1
  Parties = {s1, r1}
  ThisPaymaster = pm
  Calls <- MCCalls
  PolicyChoices <- MCPolicy
  OneDay = 2
  Amounts = {1}
  Fees = {1}
  InitialGas = 1
  MaxOps = 1
  MaxSponsored = 2
INVARIANT SponsorsBacked
SYMMETRY NestingSymmetry
CHECK_DEADLOCK FALSE

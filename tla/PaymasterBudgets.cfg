SPECIFICATION PaymasterSpec
CONSTANTS
  o1 = o1
  t1 = t1
  f1 = f1
  Accounts = {a1}
  Owners = {o1}
  Verifiers = {}
  Hooks = {}
  NoClear = {}
  Markets = {}
  Zero = Zero
  ModuleCalls = {}
  ClearingCalls = {}
  Channels = {c1}
  Preimage <- MCPreimage
  ConfigUpdateTimelock = 0
  EscapeCooldown = 0
  MinEscapeTimelock = 0
  MaxEscapeTimelock = 0
  OwnerCancelTimelock = 0
  MaxBatch = 2
  MaxTime = 4
  MaxListing = 0
  MaxSeq = 3
  Parties = {s1}
  ThisPaymaster = pm
  Calls <- MCCalls
  PolicyChoices <- MCPolicies
  OneDay = 2
  Amounts = {1, 3}
  Fees = {2}
  InitialGas = 2
  MaxOps = 2
  MaxSponsored = 1
INVARIANTS PolicyKeepsItsWord
CHECK_DEADLOCK FALSE

SPECIFICATION ExecutionSpec
CONSTANTS
  a1 = a1
  o1 = o1
  v1 = Zero
  h1 = Zero
  Accounts = {a1, a2}
  Owners = {o1}
  Verifiers = {}
  Hooks = {}
  NoClear = {}
  Markets = {}
  Targets = {t1}
  Core = Core
  Zero = Zero
  ModuleCalls = {}
  ClearingCalls = {}
  Channels = {c1}
  Preimage <- MCPreimage
  ConfigUpdateTimelock = 0
  EscapeCooldown = 2
  MinEscapeTimelock = 2
  MaxEscapeTimelock = 2
  OwnerCancelTimelock = 0
  MaxBatch = 2
  MaxTime = 2
  MaxListing = 0
  MaxSeq = 2
  MaxDepth = 2
INVARIANTS GlobalExecutionLock
CHECK_DEADLOCK FALSE

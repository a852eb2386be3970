SPECIFICATION ExecutionSpec
CONSTANTS
  a1 = a1
  o1 = o1
  v1 = v1
  h1 = h1
  Accounts = {a1, a2, a3}
  Owners = {o1}
  Verifiers = {v1}
  Hooks = {h1}
  NoClear = {}
  Markets = {m1}
  Targets = {t1}
  Core = Core
  Zero = Zero
  ModuleCalls = {}
  ClearingCalls = {}
  Channels = {c1}
  Preimage <- MCPreimage
  ConfigUpdateTimelock = 0
  EscapeCooldown = 2
  MinEscapeTimelock = 0
  MaxEscapeTimelock = 2
  OwnerCancelTimelock = 0
  MaxBatch = 2
  MaxTime = 2
  MaxListing = 1
  MaxSeq = 2
  MaxDepth = 2
INVARIANTS AuthorityFollowsOperation LockIsCallStack NonceStaysSpent
SYMMETRY MCSymmetry
CHECK_DEADLOCK FALSE
CONSTRAINT MCBound

SPECIFICATION Spec
CONSTANTS
  a1 = a1
  a2 = a2
  o1 = o1
  o2 = o2
  v1 = v1
  v2 = v2
  h1 = h1
  Accounts = {a1}
  Owners = {o1, o2}
  Verifiers = {v1}
  Hooks = {h1}
  NoClear = {h1}
  Markets = {m1}
  Zero = Zero
  ModuleCalls = {wipe}
  ClearingCalls = {wipe}
  Channels = {c1}
  Preimage <- MCPreimage
  ConfigUpdateTimelock = 1
  EscapeCooldown = 1
  MinEscapeTimelock = 2
  MaxEscapeTimelock = 2
  OwnerCancelTimelock = 2
  MaxBatch = 2
  MaxTime = 3
  MaxListing = 1
  MaxSeq = 1
INVARIANTS TypeOK NoOrphanConfig MarkersBelong BlankUntilRegistered
PROPERTIES EscrowFreezesUntilCleanSale OperationEndsEscape OwnerChangesOnlyBySale NoUnannouncedChange StagingIsHonest
CHECK_DEADLOCK FALSE

SPECIFICATION FairSpec
CONSTANTS
  m1 = m1
  m2 = m2
  f1 = f1
  f2 = f2
  Accounts = {a1}
  Owners = {o1, o2}
  Zero = Zero
  Oracles = {m1, m2}
  Factors = {f1, f2}
  ActionNullifiers = {n1, n2}
  RecoveryChoices <- MCChoices
  Amounts = {1}
  MaxTime = 3
  MaxNonce = 1
  MaxRequests = 1
  MaxCredit = 1
INVARIANTS TypeOK AttemptIsExact CreditsAreBacked EveryTicketCountsOnce
PROPERTIES RecoveryKeepsPromise AuthorityIsEarned ReadyRecoveryEnds
CHECK_DEADLOCK FALSE

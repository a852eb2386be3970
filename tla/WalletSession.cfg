SPECIFICATION FairSpec
CONSTANTS
  Nobody = Nobody
  Accounts = {n1, n2, n3}
  MaxConnects = 2
  MaxLoads = 1
PROPERTIES SessionIsVouchedFor PendingIsSettled
CHECK_DEADLOCK FALSE

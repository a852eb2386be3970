SPECIFICATION Spec
CONSTANTS
  Zero = Zero
  n1 = n1
  Browsers = {b1, b2}
  Mutations <- MCMutations
  DirectCalls <- MCDirectCalls
  Patches <- MCPatches
  Events = {e1}
  Signatures <- MCSignatures
  UpstashChoices = {TRUE, FALSE}
  ActivityLimit = 1
  ReceiptLimit = 2
  Requests = {q1, q2}
  MaxCounter = 2
  MaxLinks = 1
INVARIANTS  SuccessIsTrue
PROPERTIES DraftIsLog CountedIsSigned SignaturesStand
CONSTRAINT MCBound
SYMMETRY MCSymmetry
CHECK_DEADLOCK FALSE

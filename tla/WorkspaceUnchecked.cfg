SPECIFICATION WorkspaceSpec
CONSTANTS
  Zero = Zero
  Invocations = {1, 2}
  ConfigChoices <- MCNoStore
  Fees <- MCFees
  Ceilings = {2}
  Calls = {c1, c2}
  MaxSent = 1
  MaxExpiries = 0
  Operations = {op1}
  Signers = {evm}
  Surfaces = {"home"}
  MaxSubmissions = 2
PROPERTIES SubmittedWasChecked
CHECK_DEADLOCK FALSE

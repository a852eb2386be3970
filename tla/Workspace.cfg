SPECIFICATION WorkspaceSpec
CONSTANTS
  Zero = Zero
  Invocations = {1, 2}
  ConfigChoices <- MCConfigs
  Fees <- MCFees
  Ceilings = {2}
  Calls = {c1, c2}
  MaxSent = 1
  MaxExpiries = 1
  Operations = {op1}
  Signers = {evm}
  Surfaces = {"home", "view"}
  MaxSubmissions = 2
INVARIANTS WorkspaceTypeOK LocksCountWorkers AnswersAreTrue SpendIsApproved
PROPERTIES PatientSubmitsChecked
SYMMETRY MCSymmetry
CHECK_DEADLOCK FALSE
CONSTRAINT MCBound

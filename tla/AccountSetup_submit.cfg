INIT SetupInit
NEXT SetupNext
CONSTANTS
  MaxSetupCalls = 2
  SetupKeys = {"demo"}
INVARIANT SubmitPossible
CHECK_DEADLOCK FALSE

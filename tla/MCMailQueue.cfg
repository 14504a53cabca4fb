SPECIFICATION QueueSpec
CONSTANTS
  Accounts = {a1}
  Idents = {i1}
  Limit = 1
  MaxSends = 2
  MaxTexts = 2
  MaxIds = 1
  MaxOps = 2
  MaxGens = 2
  MaxDoubts = 1
  MaxCrashes = 1
  MaxRetries = 1
INVARIANTS ContentKept  DuplicatesNeedDoubt
PROPERTIES   FlightsEnd
CHECK_DEADLOCK FALSE

INIT RecordInit
NEXT RecordNext
CONSTANTS
  Uids = {1, 2}
  MaxFields = 5
  MaxCalls = 2
INVARIANT FormShowsRecord
CHECK_DEADLOCK FALSE

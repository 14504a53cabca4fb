SPECIFICATION StoreSpec
CONSTANTS
  Updates = {u1, u2, u3}
  FewUpdates = {u1, u2}
  NoUpdate = NoUpdate
  CopyKeepsMtime = FALSE
  MaxFaults = 2
  ManyFaults = 4
  MaxRots = 1
INVARIANTS TypeOK AckedSurvive AckedStayVisible  ShownOutlives
PROPERTIES OperationsSettle
CHECK_DEADLOCK FALSE

SPECIFICATION PimSpec
CONSTANTS
  Procs = {p1, p2}
  Updates = {a, b}
  ReadsFail = FALSE
  MaxFaults = 4
  MaxInterrupted = 2
INVARIANTS RecoveryCopiesKeep
CHECK_DEADLOCK FALSE

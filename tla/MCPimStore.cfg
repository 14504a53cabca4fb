SPECIFICATION PimSpec
CONSTANTS
  Procs = {p1, p2}
  Updates = {a, b, c}
  ReadsFail = FALSE
  MaxFaults = 6
  MaxInterrupted = 1
SYMMETRY ProcessSymmetry
INVARIANTS PromisesKept GenerationsAdvance
PROPERTIES Implements
CHECK_DEADLOCK FALSE

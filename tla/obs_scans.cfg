SPECIFICATION Spec
CONSTANTS
  Procs = {p1}
  NScans = 2
  Faults = {}
  MaxFaults = 0
  MaxRaces = 1
  Millisecond = TRUE
INVARIANTS ModelFollowsDigitiser
CHECK_DEADLOCK FALSE

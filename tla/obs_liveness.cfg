SPECIFICATION FairSpec
CONSTANTS
  Procs = {p1}
  NScans = 1
  Faults = {"ErrorMsg", "DigError", "OperatorReset", "Unavailable", "RequestLost"}
  MaxFaults = 1
  MaxRaces = 0
  Millisecond = FALSE
PROPERTIES ComesToRest
CHECK_DEADLOCK FALSE

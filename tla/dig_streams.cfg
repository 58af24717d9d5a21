SPECIFICATION StreamsSpec
CONSTANTS
  Procs = {p1, p2}
  Obs = {"A", "B"}
  ObsOf <- MCObsOf
  MaxControls = 2
  MaxOpen = 2
  Conns = {1, 2}
  NoConn = NoConn
  Processors = {q1, q2}
  High = 2
  Low = 1
  MaxDials = 2
  MaxQueue = 2
INVARIANTS OrderlyAcquisition
PROPERTIES SdrLossReported FoundInTheEnd
CHECK_DEADLOCK FALSE

SPECIFICATION ApplicationSpec
CONSTANTS
  Sockets = {1, 2, 3, 4, 5}
  None = None
  MaxBreaks = 3
  Workers = {w1, w2}
  MaxResyncs = 1
  MaxFaults = 1
  Procs = {p1, p2, p3}
  NoProc = NoProc
  MaxEvents = 3
  MaxExclusive = 2
INVARIANTS OneSocket StopLeavesNothing SoleProcessor NoLostWakeup
PROPERTIES EventsInTurns WorkingIsKept Reconnects HeatStops LoneCallerGranted
CHECK_DEADLOCK FALSE

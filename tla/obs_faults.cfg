SPECIFICATION FaultsSpec
CONSTANTS
  Procs = {p1}
  NScans = 1
  Faults = {"ErrorMsg", "DigError", "OperatorReset", "Unavailable", "Disconnected", "RequestLost"}
  MaxFaults = 1
  MaxRaces = 1
  Millisecond = FALSE
  AimLists <- ExampleAims
  MaxMishaps = 1
  Sheets <- ExampleSheets
  Workers = {w1, w2}
  MaxConfigs = 2
  MaxNow = 4
INVARIANTS WaitingIsWatched TargetIsSeen ScheduleIsKept
PROPERTIES LifecycleSpec
CHECK_DEADLOCK FALSE

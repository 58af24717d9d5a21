SPECIFICATION Spec
CONSTANTS
  NumProcs = 2
  MaxAlt = 1
  MaxAz = 1
  FailedAt = 2
  Errors = {"XBase"}
  ModeCommands = {"STANDBY_FP", "CONFIG", "MAINTENANCE", "SHUTDOWN"}
  CapabilityCommands = {"STANDBY"}
  TargetCommands = {"track", "drift"}
  MaxCommands = 3
  MaxFaults = 2
  MaxChanges = 2
INVARIANTS MountAgrees
PROPERTIES InhibitedStays AlarmShelters
CHECK_DEADLOCK FALSE

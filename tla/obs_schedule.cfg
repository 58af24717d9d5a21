SPECIFICATION ScheduleSpec
CONSTANTS
  Sheets <- ExampleSheets
  Workers = {w1}
  MaxConfigs = 1
  MaxNow = 4
INVARIANTS NextIsTimed
CHECK_DEADLOCK FALSE

SPECIFICATION PartsSpec
CONSTANTS
  Callers = {c1, c2}
  Capacity = 3
  Block = 2
  Chunks = {2, 4}
  MaxSamples = 6
  MaxCalls = 4
  Targets = 2
  Bands = 2
  Iterations = 2
  MaxNumber = 3
  MaxReports = 1
  MaxTroubles = 1
  Rate = 40
  MaxDuration = 4
  Sources <- ExampleSources
  MaxTargets = 2
  Echoes <- ExampleEchoes
  Base = 2
  MaxBlock = 2
  Payloads <- ExamplePayloads
  MaxSent = 3
  Half = 4
  Pulse = 2
  Mounts <- ExampleMounts
  Length = 4
  Digits <- DigitPositions
  MaxBytes = 7
  Backups = 2
  MaxTraces = 4
  MaxAccidents = 1
  Period = 2
  Timeout = 2
  Retention = 4
  GustCount = 2
  MaxTime = 6
  MaxChanges = 3
  Classes = {"DishList", "DishModel", "TargetModel", "ObsModel", "OETModel", "LaunchModel", "GSheetConfig"}
  Unlisted = {"GSheetConfig"}
  Verbatim = {"LaunchModel"}
  Schema <- ExampleSchema
  Depth = 4
  Models <- ExampleModels
  MaxSaves = 2
  Diggers = {g1, g2}
  NoDigger = NoDigger
  Configurations <- ExampleSteps
  Width = 5
  Passband <- Pass
  Window = 3
  Threshold = 5
  Lengths <- ScanLengths
  RawRows <- ExampleRows
  LoadRows <- ExampleLoads
  Arriving <- ExampleArriving
  MaxAdvices = 1
  Plan <- ExamplePlan
  Seconds = 2
  Gaps <- ExampleGaps
  MaxToggles = 2
  Orders <- ExampleOrders
  RecordTime = 3
  TestTime = 1
  Rates = {4, 5}
  Longest = 3
  ScanTime = 2
  MaxFailures = 2
SYMMETRY Symmetry
INVARIANTS RadioIsReliable CurrentIsOpen PlanCovers MessagesArrive GoesWhereAsked ResponseFound AnsweredInKind DangerIsSeen ModelSurvives ScansKeepApart ProductsAreTrue RecordedAndImported
PROPERTIES EveryReportCounts TracesKept
CHECK_DEADLOCK FALSE

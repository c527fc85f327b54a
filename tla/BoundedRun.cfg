SPECIFICATION RunSpec
CONSTANTS
  Interval = 2
  MaxTimeStep = 6
  HorizonSteps = 6
  CheckpointStep = 3
  Waypoints = 2
  HandoffIndex = 1
  DegenerateLegs <- NoLegs
  Commands = {"idle", "burn"}
  Idle = "idle"
  SampleInterval = 3
  GoalChoices = {"LandingOnPad", "WaypointHandoff", "WaypointSequence", "TimedCheckpoint"}
  LimitChoices <- MCLimits
  CommandOf <- MCCommandOf
INVARIANTS
  TypeOK
  ActionLogIsFlight
  ClockAndLimits
  StopTruth
  RecordsAgree
  HostRecordIsActionLog
PROPERTIES
  MissionTruth
  ImplementsClock

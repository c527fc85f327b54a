SPECIFICATION Spec
CONSTANTS
  Interval = 2
  MaxTimeStep = 5
  HorizonSteps = 5
  CheckpointStep = 3
  Waypoints = 1
  HandoffIndex = 0
  DegenerateLegs <- NoLegs
  Commands = {"idle", "burn"}
  Idle = "idle"
  SampleInterval = 3
  GoalChoices = {"WaypointSequence"}
  LimitChoices <- MCLimits
INVARIANTS
  FaithfulReplay
  AcceptedLogIsFlown

SPECIFICATION CallersSpec
CONSTANTS
  Interval = 3
  MaxTimeStep = 5
  HorizonSteps = 5
  CheckpointStep = 4
  Waypoints = 2
  HandoffIndex = 0
  DegenerateLegs <- NoLegs
  Commands = {"idle", "burn"}
  Idle = "idle"
  SampleInterval = 2
  GoalChoices = {"LandingOnPad", "WaypointHandoff", "WaypointSequence", "TimedCheckpoint"}
  LimitChoices <- MCLimits
  RawCommands <- MCRaw
  Clamped <- MCClamped
  Modes = {"Captured"}
  ProgramScenario <- MCProgramScenario
  OrdinaryScenario <- MCOrdinaryScenario
  LandingScenario <- MCLandingScenario
  CandidateScenario <- MCCandidateScenario
  Never = Never
INVARIANTS
  EpisodeHorizonEndsMission
  PreparedProgramIsFlown
  OrdinaryReplayIsTheLog
  LandingIsOne
  CandidatePlansInOrder
PROPERTIES
  EpisodeIsBoundedRun
  CalledEpisodeEnds
  OrdinaryIsBoundedRun
  LandingClosesOnce
  CandidateStops

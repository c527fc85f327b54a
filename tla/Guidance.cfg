SPECIFICATION GuidanceSpec
CONSTANTS
  Routes <- OneRoute
  Degenerate = {}
  GateTicks = 1
  MaxReplans = 0
  MaxSteps = 4
  Lenient = {0, 1}
  AskedScenario <- MCAskedScenario
  TerminalScenario <- MCTerminalScenario
INVARIANTS
  ActiveLegKept
  RouteAgreesWithCore
PROPERTIES
  PlanReplacedPatiently
  TransferPhaseLegal
  TerminalHeldToTheEnd
CHECK_DEADLOCK FALSE

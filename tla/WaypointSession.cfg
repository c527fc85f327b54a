SPECIFICATION PlannerSpec
CONSTANTS
  Deadlines = {0, 16}
  MaxCorrections = 2
  MinPowered = 2
  Continuation = 2
  SearchScenario <- MCSearchScenario
INVARIANTS
  RecordsTellFlight
  ClaimsEarned
  NeverStranded
  RecordedFlightReplays
  ReceiptSealsTheBundle
  ClearingIsTheBest
  ClearingSearchIsOnRecord
PROPERTIES
  FinishOnlyOverturns
  SessionEndsOrDies

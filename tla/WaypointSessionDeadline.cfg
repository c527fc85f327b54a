SPECIFICATION FairSpec
CONSTANTS
  Deadlines = {0, 16}
  MaxCorrections = 2
  MinPowered = 2
  Continuation = 2
PROPERTY DeadlineStands

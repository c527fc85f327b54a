SPECIFICATION Spec
SYMMETRY Symmetry
CONSTANTS
  p1 = p1
  p2 = p2
  r1 = r1
  r2 = r2
  Procs = {p1}
  Runs = {r1, r2}
  Codes = {1, 2}
  Initial = 1
  Digest <- DigestOf
  Touched <- TouchedIn
  MaxCommits = 1
  MaxAttempts = 2
  Reuses = {TRUE, FALSE}
  Compares = {"none"}
  WithOutput = TRUE
  Parallels = {FALSE}
  Promotes = FALSE
  Crashes = {"run-pack"}
INVARIANTS
  CompleteIsReused

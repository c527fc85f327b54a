SPECIFICATION Spec
SYMMETRY Symmetry
CONSTANTS
  m1 = m1
  m2 = m2
  Runs = {r1, r2}
  Outputs = {o1, o2}
  Missions <- TwoMissions
  Schedule <- OneOfTwo
  Refusals = {"Unsupported"}
  MaxDrift = 1
INVARIANTS
  ExposureIsNoMutation

---------------------------- MODULE Plant_proofs ----------------------------
(***************************************************************************)
(* Lemmas about the flight core, for every scenario: what one transition    *)
(* keeps of a state, and the control clock a flight is flown on.            *)
(***************************************************************************)
EXTENDS Plant, TLAPS

----------------------------------------------------------------------------
(* One transition of the flight core.                                       *)

\* A waypoint is judged only when it is one of the route's.
LEMMA JudgedWaypointIsOnRoute ==
  ASSUME NEW g, NEW s, JudgedWaypoint(g, s) # NoIndex
  PROVE  /\ JudgedWaypoint(g, s) \in Indices
         /\ g = "WaypointHandoff" \/ JudgedWaypoint(g, s) = s.passed
BY DEF JudgedWaypoint

\* Judging a waypoint leaves the clock and the held command alone and stays
\* within the state's type: at most the waypoint due next is counted as passed.
LEMMA WaypointProgressKeepsType ==
  ASSUME NEW g, NEW s \in SimStates, NEW o,
         NEW i \in Indices, g = "WaypointHandoff" \/ i = s.passed
  PROVE  /\ WaypointProgress(g, s, i, o) \in SimStates
         /\ WaypointProgress(g, s, i, o).step = s.step
         /\ WaypointProgress(g, s, i, o).held = s.held
<1> DEFINE Kept(t) == t \in SimStates /\ t.step = s.step /\ t.held = s.held
           open == [s EXCEPT !.window = IF o.capture THEN i ELSE @]
           closed == [s EXCEPT !.window = NoIndex]
           failed == [closed EXCEPT !.failedAt = i]
           next == [closed EXCEPT !.passed = @ + 1]
<1>1. Kept(open)
  BY DEF SimStates
<1>2. Kept(closed) /\ closed.passed = s.passed
  BY DEF SimStates, NoIndex
<1>3. Kept(failed)
  BY <1>2 DEF SimStates
<1>4. ASSUME g # "WaypointHandoff" PROVE Kept(next)
  <2>1. s.passed \in 0..(Waypoints - 1)
    BY <1>4 DEF Indices
  <2>2. s.passed + 1 \in 0..Waypoints
    BY <2>1, PlantAssumption
  <2> QED BY <1>2, <2>2 DEF SimStates
<1>5. ASSUME NEW t, Kept(t) PROVE Kept(Satisfy(t)) /\ Kept(Fail(t))
  BY <1>5 DEF Satisfy, Fail, SimStates, EndReasons, MissionOutcomes
<1> HIDE DEF open, closed, failed, next
<1>6. Kept(WaypointProgress(g, s, i, o))
  <2> HIDE DEF Kept
  <2> QED BY <1>1, <1>2, <1>3, <1>4, <1>5
      DEF WaypointProgress, open, closed, failed, next
<1> QED BY <1>6

\* What the mission does with a contact-free step leaves the clock and the held
\* command alone and stays within the state's type.
LEMMA ProgressKeepsType ==
  ASSUME NEW g \in Goals, NEW s \in SimStates, NEW o \in Outcomes
  PROVE  /\ ApplyProgress(g, s, o) \in SimStates
         /\ ApplyProgress(g, s, o).step = s.step
         /\ ApplyProgress(g, s, o).held = s.held
<1> DEFINE i == JudgedWaypoint(g, s)
<1>1. CASE g = "TimedCheckpoint"
  BY <1>1 DEF ApplyProgress, Satisfy, Fail, SimStates, EndReasons, MissionOutcomes
<1>2. CASE g # "TimedCheckpoint" /\ i = NoIndex
  BY <1>2 DEF ApplyProgress
<1>3. CASE g # "TimedCheckpoint" /\ i # NoIndex
  <2>1. i \in Indices /\ (g = "WaypointHandoff" \/ i = s.passed)
    BY <1>3, JudgedWaypointIsOnRoute
  <2>2. /\ WaypointProgress(g, s, i, o) \in SimStates
        /\ WaypointProgress(g, s, i, o).step = s.step
        /\ WaypointProgress(g, s, i, o).held = s.held
    BY <2>1, WaypointProgressKeepsType
  <2> QED BY <1>3, <2>2 DEF ApplyProgress
<1> QED BY <1>1, <1>2, <1>3

\* A transition takes one physics step, under the held command.
LEMMA StepSimKeepsType ==
  ASSUME NEW g \in Goals, NEW s \in SimStates, NEW o \in Outcomes
  PROVE  /\ StepSim(g, s, o) \in SimStates
         /\ StepSim(g, s, o).step = s.step + 1
         /\ StepSim(g, s, o).held = s.held
<1> DEFINE moved == PhysicsStep(s)
           landed == ApplyContact(g, moved, o.contact)
           advanced == ApplyProgress(g, moved, o)
<1>1. moved \in SimStates /\ moved.step = s.step + 1 /\ moved.held = s.held
  BY DEF PhysicsStep, SimStates
<1>2. landed \in SimStates /\ landed.step = moved.step /\ landed.held = moved.held
  BY <1>1 DEF ApplyContact, TouchdownVerdict, SimStates, EndReasons, MissionOutcomes,
     PhysicalOutcomes
<1>3. advanced \in SimStates /\ advanced.step = moved.step /\ advanced.held = moved.held
  BY <1>1, ProgressKeepsType
<1>4. /\ ApplyMaxTime(advanced) \in SimStates
      /\ ApplyMaxTime(advanced).step = moved.step
      /\ ApplyMaxTime(advanced).held = moved.held
  <2>1. ASSUME NEW t \in SimStates
        PROVE  /\ ApplyMaxTime(t) \in SimStates
               /\ ApplyMaxTime(t).step = t.step /\ ApplyMaxTime(t).held = t.held
    <3>1. /\ "MaxTimeReached" \in EndReasons /\ "FailedTimeout" \in MissionOutcomes
          /\ "TimedOut" \in PhysicalOutcomes
      BY DEF EndReasons, MissionOutcomes, PhysicalOutcomes
    <3> QED BY <3>1 DEF ApplyMaxTime, SimStates
  <2> HIDE DEF moved, advanced
  <2> QED BY <1>3, <2>1
<1> QED BY <1>1, <1>2, <1>3, <1>4 DEF StepSim

----------------------------------------------------------------------------
(* The control clock.                                                       *)

\* Multiples of the interval are in the order of their factors.
LEMMA MultiplesOrdered ==
  ASSUME NEW n \in Nat \ {0}, NEW a \in Int, NEW b \in Int, a * n < b * n
  PROVE  a < b
<1>1. SUFFICES ASSUME b <= a PROVE FALSE
  OBVIOUS
<1>2. PICK c \in Nat : a = b + c
  <2>1. a - b \in Nat /\ a = b + (a - b)
    BY <1>1
  <2> QED BY <2>1
<1>3. a * n = b * n + c * n /\ c * n \in Nat
  BY <1>2, Z3
<1>4. a * n \in Int /\ b * n \in Int
  BY Z3
<1> QED BY <1>3, <1>4

\* A multiple of the interval is a control boundary ...
LEMMA MultipleIsBoundary ==
  ASSUME NEW q \in Nat
  PROVE  ControlBoundary(q * Interval)
<1>1. Interval \in Nat \ {0}
  BY PlantAssumption
<1>2. ASSUME NEW n \in Nat \ {0} PROVE (q * n) % n = 0
  BY <1>2, Z3
<1> QED BY <1>1, <1>2 DEF ControlBoundary

\* ... and every control boundary is a multiple of the interval.
LEMMA BoundaryIsMultiple ==
  ASSUME NEW k \in Nat, ControlBoundary(k)
  PROVE  \E d \in Nat : k = d * Interval
<1>1. Interval \in Nat \ {0}
  BY PlantAssumption
<1>2. ASSUME NEW n \in Nat \ {0}, k % n = 0 PROVE k = (k \div n) * n /\ k \div n \in Nat
  BY <1>2, Z3
<1>3. k = (k \div Interval) * Interval /\ k \div Interval \in Nat
  BY <1>1, <1>2 DEF ControlBoundary
<1> QED BY <1>3

\* Within one interval the boundary test finds the interval's end, no step
\* before it.
LEMMA BoundaryEndsInterval ==
  ASSUME NEW q \in Nat, NEW k \in Nat,
         k \in ((q - 1) * Interval)..(q * Interval - 1)
  PROVE  /\ ControlBoundary(k + 1) => k + 1 = q * Interval
         /\ ~ControlBoundary(k + 1) => k + 1 \in ((q - 1) * Interval)..(q * Interval - 1)
<1>1. Interval \in Nat \ {0}
  BY PlantAssumption
<1>2. (q - 1) * Interval \in Int /\ q * Interval \in Int
  BY <1>1, Z3
<1>3. (q - 1) * Interval <= k /\ k + 1 <= q * Interval
  BY <1>2
<1>4. ASSUME ControlBoundary(k + 1) PROVE k + 1 = q * Interval
  <2>1. PICK d \in Nat : k + 1 = d * Interval
    BY <1>4, BoundaryIsMultiple
  <2>2. (q - 1) * Interval < d * Interval
    BY <1>2, <1>3, <2>1
  <2>3. q - 1 < d
    BY <1>1, <2>2, MultiplesOrdered
  <2>4. ASSUME q < d PROVE FALSE
    <3>1. q * Interval < d * Interval
      <4>1. ASSUME NEW n \in Nat \ {0}, d - q \in Nat \ {0}
            PROVE  d * n = q * n + (d - q) * n /\ (d - q) * n > 0
        BY <4>1, Z3
      <4>2. d - q \in Nat \ {0}
        BY <2>4
      <4>3. d * Interval = q * Interval + (d - q) * Interval /\ (d - q) * Interval > 0
        BY <1>1, <4>1, <4>2
      <4>4. (d - q) * Interval \in Int
        BY <1>1, Z3
      <4> QED BY <1>2, <4>3, <4>4
    <3> QED BY <1>2, <1>3, <2>1, <3>1
  <2>5. d = q
    BY <2>3, <2>4
  <2> QED BY <2>1, <2>5
<1>5. ASSUME ~ControlBoundary(k + 1) PROVE k + 1 # q * Interval
  BY <1>5, MultipleIsBoundary
<1> QED BY <1>2, <1>3, <1>4, <1>5

\* The next multiple of the interval is one interval further.
LEMMA NextMultiple ==
  ASSUME NEW q \in Nat
  PROVE  /\ q * Interval \in Nat
         /\ (q + 1) * Interval = q * Interval + Interval
         /\ (q + 1 - 1) * Interval = q * Interval
<1>1. ASSUME NEW n \in Nat PROVE q * n \in Nat /\ (q + 1) * n = q * n + n
  BY <1>1, Z3
<1>2. q + 1 - 1 = q
  OBVIOUS
<1> QED BY <1>1, <1>2, PlantAssumption
=============================================================================

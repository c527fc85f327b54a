------------------------------- MODULE Plant -------------------------------
(***************************************************************************)
(* One discrete transition of the flight core (pd-core/src/sim.rs and      *)
(* pd-core/src/eval.rs): integrate, classify contact, let the mission      *)
(* judge the contact, let the mission judge progress, apply the scenario's *)
(* time limit.  Every mission the core knows is here.                      *)
(*                                                                         *)
(* The rigid body is abstracted to what the mission can see of it after    *)
(* the integration: an Outcome.  Time is counted in physics steps.         *)
(***************************************************************************)
EXTENDS Integers, Sequences

CONSTANTS
  Interval,        \* physics steps between two controller updates
  MaxTimeStep,     \* first step whose f64 time k/hz is >= max_time_s
  HorizonSteps,    \* ceil(max_time_s * hz), the product taken in f64
  CheckpointStep,  \* first step at or past end_time_s of a timed checkpoint
  Waypoints,       \* waypoints on the mission's transfer route
  HandoffIndex,    \* the waypoint a WaypointHandoff mission is judged at
  DegenerateLegs,  \* waypoints whose inbound or outbound leg has no direction
  Commands,        \* admissible (finite, canonical) commands
  Idle             \* Command::idle()

\* max_time_s * hz is one rounding away from the comparison k/hz >= max_time_s
\* (4.15 s at 60 Hz rounds up to 250 steps, yet step 249 is already too late),
\* hence the two limits are related but not equal.
ASSUME PlantAssumption ==
  /\ Interval \in Nat \ {0}
  /\ MaxTimeStep \in Nat \ {0}
  /\ HorizonSteps \in Nat
  /\ HorizonSteps \in (MaxTimeStep - 1)..(MaxTimeStep + 1)
  /\ CheckpointStep \in 0..MaxTimeStep
  /\ Waypoints \in Nat \ {0}
  /\ HandoffIndex \in 0..(Waypoints - 1)
  /\ DegenerateLegs \subseteq 0..(Waypoints - 1)
  /\ Idle \in Commands

Goals == {"LandingOnPad", "WaypointHandoff", "WaypointSequence", "TimedCheckpoint"}
Contacts == {"None", "OnTarget", "OffTarget", "Crash"}
EndReasons == {"Running", "CheckpointSatisfied", "CheckpointFailed",
               "TouchdownOnTarget", "TouchdownOffTarget", "Crash", "MaxTimeReached"}
MissionOutcomes == {"InProgress", "Success", "FailedCheckpoint",
                    "FailedOffTarget", "FailedCrash", "FailedTimeout"}
PhysicalOutcomes == {"Flying", "LandedOnTarget", "LandedOffTarget", "Crashed", "TimedOut"}
EventKinds == {"ControllerUpdated", "WaypointHandoffSatisfied", "WaypointHandoffFailed",
               "CheckpointSatisfied", "CheckpointFailed", "TouchdownOnTarget",
               "TouchdownOffTarget", "Crash", "MaxTimeReached", "MissionEnded"}

NoIndex == -1
Indices == 0..(Waypoints - 1)

\* What one integration step exposes: the contact class; whether the craft is
\* within the capture radius; whether it is past the waypoint plane; whether it
\* is within the lateral envelope; whether the goal's kinematic envelope holds.
\* Within the capture radius the lateral test is passed by definition, and a
\* craft in contact is never asked for progress.
Outcomes ==
  {o \in [contact : Contacts, capture : BOOLEAN, deadline : BOOLEAN,
          spatial : BOOLEAN, envelope : BOOLEAN] :
     /\ o.capture => o.spatial
     /\ o.contact # "None" => ~(o.capture \/ o.deadline \/ o.spatial \/ o.envelope)}

SimStates ==
  [step : Nat, held : Commands, end : EndReasons, mission : MissionOutcomes,
   physical : PhysicalOutcomes, passed : 0..Waypoints,
   failedAt : Indices \cup {NoIndex}, window : Indices \cup {NoIndex}]

NewSim ==
  [step |-> 0, held |-> Idle, end |-> "Running", mission |-> "InProgress",
   physical |-> "Flying", passed |-> 0, failedAt |-> NoIndex, window |-> NoIndex]

Terminal(s) == s.end # "Running"

\* Fault: every other boundary is missed.
ControlBoundaryEveryOther(k) == k % (2 * Interval) = 0

ControlBoundary(k) == k % Interval = 0

----------------------------------------------------------------------------
(* Contact.  Every goal ends at any contact; only the mission verdict       *)
(* depends on the goal.                                                     *)

TouchdownVerdict(goal, onLandingGoal) ==
  IF goal = "LandingOnPad" THEN onLandingGoal ELSE "FailedCheckpoint"

ApplyContact(goal, s, c) ==
  CASE c = "OnTarget" ->
         [s EXCEPT !.end = "TouchdownOnTarget", !.physical = "LandedOnTarget",
                   !.mission = TouchdownVerdict(goal, "Success")]
    [] c = "OffTarget" ->
         [s EXCEPT !.end = "TouchdownOffTarget", !.physical = "LandedOffTarget",
                   !.mission = TouchdownVerdict(goal, "FailedOffTarget")]
    [] c = "Crash" ->
         [s EXCEPT !.end = "Crash", !.physical = "Crashed", !.mission = "FailedCrash"]
    [] OTHER -> s

----------------------------------------------------------------------------
(* Progress: what a contact-free step does to the mission.                  *)

Satisfy(s) == [s EXCEPT !.mission = "Success", !.end = "CheckpointSatisfied"]
Fail(s) == [s EXCEPT !.mission = "FailedCheckpoint", !.end = "CheckpointFailed"]

\* The waypoint the mission is judged at, NoIndex when none can be evaluated.
JudgedWaypoint(goal, s) ==
  LET i == IF goal = "WaypointHandoff" THEN HandoffIndex ELSE s.passed
  IN  IF /\ goal \in {"WaypointHandoff", "WaypointSequence"}
         /\ ControlBoundary(s.step)
         /\ i \in Indices \ DegenerateLegs
      THEN i ELSE NoIndex

\* The window stays open once entered, until the handoff is resolved.
WindowOpen(s, i, o) == o.capture \/ s.window = i
ContractPass(s, i, o) ==
  (o.capture \/ o.deadline \/ WindowOpen(s, i, o)) /\ o.spatial /\ o.envelope
Resolved(s, i, o) == ContractPass(s, i, o) \/ o.deadline

\* Fault: the failed waypoint is numbered from one.
WaypointProgressFromOne(goal, s, i, o) ==
  LET closed == [s EXCEPT !.window = NoIndex]
  IN  IF ~Resolved(s, i, o) THEN [s EXCEPT !.window = IF o.capture THEN i ELSE @]
      ELSE IF ContractPass(s, i, o) THEN Satisfy(closed)
      ELSE Fail([closed EXCEPT !.failedAt = i + 1])

\* Fault: a passed waypoint leaves its capture window latched.
WaypointProgressLatched(goal, s, i, o) ==
  LET next == [s EXCEPT !.passed = @ + 1, !.window = i]
  IN  IF ~ContractPass(s, i, o) THEN [s EXCEPT !.window = IF o.capture THEN i ELSE @]
      ELSE IF goal = "WaypointHandoff" \/ next.passed = Waypoints THEN Satisfy(next)
      ELSE next

WaypointProgress(goal, s, i, o) ==
  LET open   == [s EXCEPT !.window = IF o.capture THEN i ELSE @]
      closed == [s EXCEPT !.window = NoIndex]
      next   == [closed EXCEPT !.passed = @ + 1]
  IN  IF ~Resolved(s, i, o) THEN open
      ELSE IF goal = "WaypointHandoff"
           THEN (IF ContractPass(s, i, o) THEN Satisfy(closed) ELSE Fail(closed))
      ELSE IF ~ContractPass(s, i, o) THEN Fail([closed EXCEPT !.failedAt = i])
      ELSE IF next.passed = Waypoints THEN Satisfy(next)
      ELSE next

ApplyProgress(goal, s, o) ==
  IF goal = "TimedCheckpoint"
  THEN IF s.step < CheckpointStep THEN s
       ELSE IF o.envelope THEN Satisfy(s) ELSE Fail(s)
  ELSE IF JudgedWaypoint(goal, s) = NoIndex THEN s
       ELSE WaypointProgress(goal, s, JudgedWaypoint(goal, s), o)

ApplyMaxTime(s) ==
  [s EXCEPT !.end = "MaxTimeReached", !.mission = "FailedTimeout", !.physical = "TimedOut"]

----------------------------------------------------------------------------
(* The whole transition, and the event kinds it reports.                    *)

PhysicsStep(s) == [s EXCEPT !.step = @ + 1]

\* Contact first, progress second, the time limit last: the first that ends
\* the mission is the only one that does.
StepSim(goal, s, o) ==
  LET moved    == PhysicsStep(s)
      landed   == ApplyContact(goal, moved, o.contact)
      advanced == ApplyProgress(goal, moved, o)
  IN  IF Terminal(landed) THEN landed
      ELSE IF Terminal(advanced) THEN advanced
      ELSE IF moved.step >= MaxTimeStep THEN ApplyMaxTime(advanced)
      ELSE advanced

ProgressEvents(goal, before, after) ==
  (IF after.passed > before.passed THEN <<"WaypointHandoffSatisfied">> ELSE <<>>)
  \o (IF after.failedAt # before.failedAt THEN <<"WaypointHandoffFailed">> ELSE <<>>)
  \o (IF Terminal(after) THEN <<after.end, "MissionEnded">> ELSE <<>>)

\* A terminating contact or the time limit reports its own events only: what
\* progress reported on the time-limit step is not in the report.
StepEvents(goal, s, o) ==
  LET moved    == PhysicsStep(s)
      landed   == ApplyContact(goal, moved, o.contact)
      advanced == ApplyProgress(goal, moved, o)
  IN  IF Terminal(landed) THEN <<landed.end, "MissionEnded">>
      ELSE IF ~Terminal(advanced) /\ moved.step >= MaxTimeStep
           THEN <<"MaxTimeReached", "MissionEnded">>
      ELSE ProgressEvents(goal, s, advanced)

=============================================================================

---------------------------- MODULE RouteFlight ----------------------------
(***************************************************************************)
(* The transfer controller flying a waypoint route under the core that       *)
(* judges it.  Each assesses every handoff with assess_handoff, latches its  *)
(* own capture window and counts its own waypoints: the controller at every  *)
(* update, the first one at the start of the flight, the core at every         *)
(* control boundary after a step, before the controller.  Steps between the   *)
(* boundaries do not touch either; they are left out.                        *)
(*                                                                         *)
(* The two compute what they assess apart.  Of one waypoint they get the      *)
(* same numbers but for a craft at rest, whose heading error is a right       *)
(* angle for the core and a straight one for the controller.                 *)
(***************************************************************************)
EXTENDS TransferGuidance

CONSTANTS
  MaxSteps,   \* bound: control boundaries of a flight
  Lenient     \* waypoints that let a craft at rest pass by the core's heading error only

ASSUME RouteAssumption ==
  /\ MaxSteps \in Nat \ {0} /\ Lenient \subseteq Nat
  /\ Routes = {Max(Routes)} /\ Max(Routes) > 0

VARIABLES
  sim,      \* the core's state of the flight
  started,  \* has the controller given its first command?
  apart     \* history: "start", the first command already saw a capture radius or a plane
            \* passed, of which the core is not asked; "rest", the craft was judged at rest at
            \* a lenient waypoint; "no", neither

flight == <<vars, sim, started, apart>>

TheRoute == Max(Routes)
Core == INSTANCE Plant WITH
  Interval <- 1, MaxTimeStep <- MaxSteps, HorizonSteps <- MaxSteps, CheckpointStep <- MaxSteps,
  Waypoints <- TheRoute, HandoffIndex <- 0, DegenerateLegs <- Degenerate \cap 0..(TheRoute - 1),
  Commands <- {"any"}, Idle <- "any"

NotSeen == [capture |-> FALSE, deadline |-> FALSE, spatial |-> FALSE, envelope |-> FALSE]
Outcome(o, contact) ==
  [contact |-> contact, capture |-> o.capture, deadline |-> o.deadline,
   spatial |-> o.spatial, envelope |-> o.envelope]

\* What the core makes of a state of which the controller makes o; of another waypoint, anything.
CoreSightings(o, rest) ==
  IF index # sim.passed THEN Sightings
  ELSE {IF rest THEN [o EXCEPT !.envelope = TRUE] ELSE o}

\* run_simulation: the first command, from the spawn state, before any judgement.
Takeoff ==
  /\ ~started /\ started' = TRUE
  /\ \E o \in Sightings :
       /\ Update(o)
       /\ apart' = IF o.capture \/ o.deadline THEN "start" ELSE "no"
  /\ UNCHANGED sim

\* A step to the next boundary: the core judges, then the controller is asked.
Fly ==
  /\ started /\ ~Core!Terminal(sim)
  /\ \E o \in Sightings, rest \in BOOLEAN :
       /\ rest => index = sim.passed /\ index \in Lenient /\ ~o.envelope
       /\ sim' \in {Core!StepSim("WaypointSequence", sim, Outcome(seen, "None")) :
                    seen \in CoreSightings(o, rest)}
       /\ apart' = IF apart = "no" /\ rest THEN "rest" ELSE apart
       /\ IF Core!Terminal(sim') THEN UNCHANGED vars ELSE Update(o)
  /\ UNCHANGED started

Touch ==
  /\ started /\ ~Core!Terminal(sim)
  /\ \E c \in Core!Contacts \ {"None"} :
       sim' = Core!StepSim("WaypointSequence", sim, Outcome(NotSeen, c))
  /\ UNCHANGED <<vars, started, apart>>

FlightInit == Init /\ sim = Core!NewSim /\ started = FALSE /\ apart = "no"
FlightNext == Takeoff \/ Fly \/ Touch
FlightSpec == FlightInit /\ [][FlightNext]_flight

(* Two events, and no other, can part the controller from the core: a start     *)
(* inside a capture radius or past a plane, and rest at a waypoint whose        *)
(* envelope the core finds met and the controller does not.  Without them, as  *)
(* long as the flight runs, they fly and judge the same waypoint with the same *)
(* window.  And rest parts them in one direction only: the controller falls    *)
(* behind, it never has a waypoint behind it, or a window open, that the core   *)
(* has not (TransferWaypointSpec::assess_handoff, waypoint_update_context,     *)
(* evaluate_waypoint_sequence_progress, waypoint_leg_stats_from_axes).        *)
CoreAgrees ==
  ~Core!Terminal(sim) =>
    /\ apart = "no" => index = sim.passed /\ window = sim.window
    /\ apart # "start" =>
         /\ index <= sim.passed
         /\ index = sim.passed /\ window # NoLeg => sim.window = window
=============================================================================

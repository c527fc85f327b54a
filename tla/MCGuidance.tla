----------------------------- MODULE MCGuidance -----------------------------
(***************************************************************************)
(* The controllers of pd-control in three small settings, one at a time:    *)
(* the transfer controller asked at any boundary, the same controller       *)
(* flying a route before the core's judge, and the terminal controller.     *)
(* The variables of the others are unused.                                  *)
(***************************************************************************)
EXTENDS RouteFlight

CONSTANTS AskedScenario, TerminalScenario

VARIABLES
  setting,
  policy, coordinated, now, state, shown, past   \* TerminalGuidance

terminalVars == <<policy, coordinated, now, state, shown, past>>
allVars == <<setting, flight, terminalVars>>

\* One route of three waypoints.
OneRoute == {3}

\* No route, a direct one, one of two waypoints, and one whose third leg has no direction.
MCAskedScenario ==
  [routes |-> {NoRoute, 0, 2, 3}, degenerate |-> {2}, gateTicks |-> 2, maxReplans |-> 1]
Asked == INSTANCE TransferGuidance WITH
  Routes <- AskedScenario.routes, Degenerate <- AskedScenario.degenerate,
  GateTicks <- AskedScenario.gateTicks, MaxReplans <- AskedScenario.maxReplans

\* A short and a long candidate under every policy.
MCTerminalScenario ==
  [policies |-> {"plain", "retained", "countdown"}, coordinated |-> BOOLEAN, gateTicks |-> 2,
   burns |-> {1, 3}, longBurn |-> 3, maxTime |-> 6]
Terminals == INSTANCE TerminalGuidance WITH
  Policies <- TerminalScenario.policies, Coordinated <- TerminalScenario.coordinated,
  GateTicks <- TerminalScenario.gateTicks, Burns <- TerminalScenario.burns,
  LongBurn <- TerminalScenario.longBurn, MaxTime <- TerminalScenario.maxTime

ASSUME AskedAssumption ==
  /\ AskedScenario.routes \subseteq Nat \cup {NoRoute}
  /\ AskedScenario.degenerate \subseteq Nat
  /\ AskedScenario.gateTicks \in Nat \ {0} /\ AskedScenario.maxReplans \in Nat
ASSUME TerminalsAssumption == Terminals!TerminalAssumption

NoFlight == sim = "unused" /\ started = "unused" /\ apart = "unused"
NoTransfer ==
  /\ legs = "unused" /\ early = "unused" /\ index = "unused" /\ phase = "unused"
  /\ anchor = "unused" /\ ticks = "unused" /\ window = "unused" /\ guide = "unused"
  /\ capture = "unused" /\ markers = "unused"
NoTerminal ==
  /\ policy = "unused" /\ coordinated = "unused" /\ now = "unused" /\ state = "unused"
  /\ shown = "unused" /\ past = "unused"

GuidanceInit ==
  \/ setting = "transfer" /\ Asked!Init /\ NoFlight /\ NoTerminal
  \/ setting = "route" /\ FlightInit /\ NoTerminal
  \/ setting = "terminal" /\ Terminals!Init /\ NoFlight /\ NoTransfer

GuidanceNext ==
  /\ UNCHANGED setting
  /\ \/ setting = "transfer" /\ Asked!Next /\ UNCHANGED <<sim, started, apart, terminalVars>>
     \/ setting = "route" /\ FlightNext /\ UNCHANGED terminalVars
     \/ setting = "terminal" /\ Terminals!Next /\ UNCHANGED flight

GuidanceSpec == GuidanceInit /\ [][GuidanceNext]_allVars

----------------------------------------------------------------------------
(* The promises of TransferGuidance, RouteFlight and TerminalGuidance, each  *)
(* in its setting.                                                          *)

\* An active leg is flown under its own powered guidance, from its own records, and told once it
\* is over; a handoff to a leg without a direction loses that handoff's marker and leaves nothing
\* of the leg before (waypoint_update_context, docs/transfer_suite.md).
ActiveLegKept == setting = "transfer" => Asked!LegKept

\* One bad prediction never costs a leg its plan: a plan is given up for its contract only after
\* failing at two updates in a row, and by a reachable search only if it never once passed.
PlanReplacedPatiently == [][setting = "transfer" => Asked!PatientReplacement]_allVars

\* A craft that coasts or lands never relights its transfer burn but through a takeoff or a
\* handoff, and a completed route keeps terminal ownership (choose_phase).
TransferPhaseLegal == [][setting = "transfer" => Asked!PhaseLegal]_allVars

\* The controller and the core part over the route only at a start inside a capture radius or
\* past a plane, or at rest at a waypoint the core alone finds met; and the latter leaves the
\* controller behind, never ahead (waypoint_update_context, evaluate_waypoint_sequence_progress).
RouteAgreesWithCore == setting = "route" => CoreAgrees

\* The latest safe brake is released only after as many updates in a row as the hysteresis asks
\* for were nominal with margin beyond the buffer (select_guidance_mode).  A plan ends once, with
\* one marker; a countdown runs to its arrival time or ends, it is never extended; only the
\* retained kind is ever replaced (compute_command_state).
TerminalHeldToTheEnd ==
  /\ [](setting = "terminal" => Terminals!PlanEndsOnce)
  /\ [][setting = "terminal" => Terminals!PlanRunsDown /\ Terminals!BrakeHeld]_allVars
=============================================================================

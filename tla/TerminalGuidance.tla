-------------------------- MODULE TerminalGuidance --------------------------
(***************************************************************************)
(* The terminal controller (TerminalPdgController of pd-control): at every    *)
(* update it chooses between the latest safe brake and the nominal solution,  *)
(* keeps, replaces or releases a plan with an absolute arrival time, and lets *)
(* the touchdown rules overrule the guidance near the pad.  The transfer      *)
(* controller calls it in its terminal phase only: between two updates any    *)
(* time may pass.  The f64 candidates are records of what is asked of them.   *)
(***************************************************************************)
EXTENDS Integers, FiniteSetsExt

CONSTANTS
  Policies,    \* "plain", "retained" (waypoint routes) or "countdown" (ballistic landings)
  Coordinated, \* values of ballistic_terminal_coordination_enabled
  GateTicks,   \* terminal_gate_hysteresis_ticks
  Burns,       \* candidate burn times, in update periods
  LongBurn,    \* terminal_gate_burn_time_max_s
  MaxTime      \* bound: update periods of a flight

TerminalAssumption ==
  /\ Policies \subseteq {"plain", "retained", "countdown"} /\ Coordinated \subseteq BOOLEAN
  /\ GateTicks \in Nat \ {0} /\ MaxTime \in Nat
  /\ Burns \subseteq Nat \ {0} /\ LongBurn \in Burns

VARIABLES
  policy, coordinated,
  now,       \* sim_time_s at the last controller tick
  state,     \* the controller's state
  shown,     \* what the last update reported: command, plan, release
  past       \* history: what the properties compare with

vars == <<policy, coordinated, now, state, shown, past>>

NoTime == -1
Modes == {"none", "LatestSafe", "NominalReady", "NominalPending"}
NewState ==
  [mode |-> "none", ready |-> 0, release |-> 0, settle |-> FALSE, admitted |-> FALSE,
   completed |-> FALSE, plan |-> NoTime, replans |-> 0]
NotShown == [command |-> "none", arrival |-> NoTime, reason |-> "none"]
\* calm: updates in a row that were nominal with margin to spare; releases reported.
NoPast == [calm |-> 0, releases |-> 0]

Init ==
  /\ policy \in Policies /\ coordinated \in Coordinated
  /\ now = 0 /\ state = NewState /\ shown = NotShown /\ past = NoPast

(***************************************************************************)
(* What one update asks of its candidates.                                  *)
(***************************************************************************)
\* margin: latest_safe_margin_s is spent, within the release buffer, beyond it.
Views ==
  [margin : {"spent", "tight", "wide"}, nominal : BOOLEAN, fallback : BOOLEAN,
   burn : Burns, descending : BOOLEAN, centred : BOOLEAN, braking : BOOLEAN,
   fits : BOOLEAN, fresh : BOOLEAN]

\* Near the pad: inside the settle region and slow sideways; settled, or its attitude
\* not yet safe; gliding; sinking or drifting too fast; the braking guard; on descent.
Grounds ==
  [region : BOOLEAN, slow : BOOLEAN, settled : BOOLEAN, upright : BOOLEAN, glide : BOOLEAN,
   rescue : BOOLEAN, guard : BOOLEAN, descent : BOOLEAN]

Ticks(n, more) == IF more THEN Min({n + 1, GateTicks}) ELSE 0

(***************************************************************************)
(* select_guidance_mode                                                     *)
(***************************************************************************)
IsReady(s, v) == v.nominal /\ Ticks(s.ready, TRUE) = GateTicks

\* Fault: an update within the release buffer does not start the count again.
ReleaseTicksKept(s, v) ==
  IF s.mode = "LatestSafe" /\ IsReady(s, v) /\ v.margin # "spent"
  THEN (IF v.margin = "wide" THEN s.release + 1 ELSE s.release) ELSE 0

\* Updates in a row that would release the latest safe brake.
ReleaseTicks(s, v) ==
  IF s.mode = "LatestSafe" /\ IsReady(s, v) /\ v.margin = "wide" THEN s.release + 1 ELSE 0

SelectMode(s, v) ==
  LET n == ReleaseTicks(s, v)
      mode == IF v.margin = "spent" \/ (s.mode = "LatestSafe" /\ n < GateTicks)
              THEN "LatestSafe"
              ELSE IF IsReady(s, v) THEN "NominalReady" ELSE "NominalPending"
  IN  [s EXCEPT !.mode = mode, !.release = IF n = GateTicks THEN 0 ELSE n,
                !.ready = Ticks(@, v.nominal)]

(***************************************************************************)
(* The plan: admission, release, maintenance, countdown.                     *)
(***************************************************************************)
Admit(s, v) ==
  IF policy # "retained" \/ s.admitted \/ s.completed THEN s
  ELSE IF v.burn = LongBurn THEN [s EXCEPT !.admitted = TRUE]
  ELSE IF v.descending THEN [s EXCEPT !.completed = TRUE] ELSE s

Active(s) == policy = "retained" /\ s.admitted /\ ~s.completed

\* Captured over the pad at the braking boundary, or out of braking height.
ReleaseReason(s, v) ==
  IF ~Active(s) \/ ~v.descending THEN "none"
  ELSE IF v.centred /\ v.margin = "spent" THEN "captured_braking_boundary"
  ELSE IF v.braking THEN "vertical_braking_margin" ELSE "none"

\* Fault: a plan is dropped without being over for good.
EndPlanOnly(s) == [s EXCEPT !.plan = NoTime]

EndPlan(s) == [s EXCEPT !.completed = TRUE, !.plan = NoTime]

\* maintain_guidance_plan: made when there is none, replaced when its time has come
\* or when only the fresh candidate fits.
Maintain(s, t, burn, fits, fresh) ==
  IF s.plan # NoTime /\ s.plan > t /\ (fits \/ ~fresh) THEN s
  ELSE [s EXCEPT !.plan = t + burn, !.replans = IF s.plan = NoTime THEN @ ELSE @ + 1]

CountdownReason(s, t, v) ==
  IF s.plan = NoTime THEN "none"
  ELSE IF s.plan <= t THEN "ballistic_countdown_expired"
  ELSE IF ~v.fits THEN "ballistic_countdown_infeasible" ELSE "none"

\* The first duration fallback under the latest safe brake starts the countdown.
StartCountdown(s, t, v) ==
  IF ~s.admitted /\ ~s.completed /\ s.mode = "LatestSafe" /\ v.fallback
  THEN Maintain([s EXCEPT !.admitted = TRUE], t, v.burn, TRUE, FALSE) ELSE s

Calm(s, v) == IF IsReady(s, v) /\ v.margin = "wide" THEN Min({past.calm + 1, GateTicks}) ELSE 0

\* compute_command_state: the state after it, the plan it flies, the release it reports.
CommandState(s, t, v) ==
  LET moded == SelectMode(s, v)
      admitted == Admit(moded, v)
      released == ReleaseReason(admitted, v)
      kept == IF released # "none" THEN EndPlan(admitted)
              ELSE IF Active(admitted) THEN Maintain(admitted, t, v.burn, v.fits, v.fresh)
              ELSE admitted
      counting == IF policy = "countdown" THEN StartCountdown(kept, t, v) ELSE kept
      over == IF policy = "countdown" THEN CountdownReason(counting, t, v) ELSE "none"
      ended == IF over = "none" THEN counting ELSE EndPlan(counting)
  IN  [state |-> ended, arrival |-> ended.plan, calm |-> Calm(s, v),
       reason |-> IF over = "none" THEN released ELSE over]

(***************************************************************************)
(* Near the pad: touchdown_cut_command and settled_descent_command.          *)
(***************************************************************************)
Command(settling, g) ==
  IF \/ coordinated /\ g.region /\ g.slow
     \/ settling /\ g.region
     \/ g.settled
     \/ g.region /\ ~g.upright
  THEN "settle"
  ELSE IF g.glide THEN "glide"
  ELSE IF coordinated /\ ~g.rescue /\ g.guard THEN "coordinated_braking"
  ELSE IF g.rescue \/ g.guard THEN "rescue"
  ELSE IF g.descent THEN "settled_descent" ELSE "guidance"

(***************************************************************************)
(* The operations.                                                          *)
(***************************************************************************)
Update ==
  /\ now < MaxTime /\ now' = now + 1
  /\ \E command \in {Command(state.settle, g) : g \in Grounds},
        done \in {CommandState(state, now', v) : v \in Views} :
       /\ state' = [done.state EXCEPT !.settle = command = "settle"]
       /\ shown' = [command |-> command, arrival |-> done.arrival, reason |-> done.reason]
       /\ past' = [calm |-> done.calm,
                   releases |-> past.releases + IF done.reason = "none" THEN 0 ELSE 1]
  /\ UNCHANGED <<policy, coordinated>>

\* The transfer controller is in another phase.
Skip ==
  /\ now < MaxTime /\ now' = now + 1
  /\ UNCHANGED <<policy, coordinated, state, shown, past>>

Reset ==
  /\ state' = NewState /\ shown' = NotShown /\ past' = NoPast
  /\ UNCHANGED <<policy, coordinated, now>>

Next == Update \/ Skip \/ Reset

Spec == Init /\ [][Next]_vars

(***************************************************************************)
(* Properties.                                                              *)
(***************************************************************************)
(* The latest safe brake is released only after as many updates in a row as    *)
(* the hysteresis asks for were nominal with margin beyond the buffer: one     *)
(* good prediction never ends the emergency brake (select_guidance_mode).     *)
BrakeHeld ==
  state.mode = "LatestSafe" /\ state'.mode \notin {"LatestSafe", "none"} => past'.calm = GateTicks

(* A plan ends once: after its release, with one marker, or after the descent  *)
(* began without one, the guidance recedes until the next reset and no plan    *)
(* comes back (docs/transfer_suite.md: "releases permanently",               *)
(* with_ballistic_landing_countdown: "release once").                        *)
PlanEndsOnce ==
  /\ past.releases <= 1
  /\ past.releases = 1 => state.completed
  /\ state.completed => state.plan = NoTime

(* The plan shown has time left and only the retained kind is ever replaced:   *)
(* a countdown runs to its arrival time or ends, it is never extended         *)
(* (maintain_guidance_plan, compute_command_state).                          *)
PlanRunsDown ==
  /\ past' # past \/ shown' # shown => shown'.arrival = NoTime \/ shown'.arrival > now'
  /\ state.plan # NoTime /\ state'.plan # NoTime /\ state'.plan # state.plan =>
       policy = "retained" /\ state'.replans = state.replans + 1
  /\ state.completed => state'.completed \/ state' = NewState
=============================================================================

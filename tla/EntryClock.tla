------------------------------ MODULE EntryClock ------------------------------
(***************************************************************************)
(* The clock rules of the planner (pd-plan, waypoint_v2.rs and              *)
(* local_clearing.rs): at which control boundaries a correction may be      *)
(* entered, how many commands a segment owns, and which schedules of a       *)
(* correction are valid.  Steps are physics steps, a command lasts two.      *)
(***************************************************************************)
EXTENDS Integers

\* A quarter clock rounds down to a control boundary: n eighths of d, in pairs, divided before
\* it is multiplied so that no intermediate is larger than d.
Eighths(d, n) == (d \div 8) * n + ((d % 8) * n) \div 8
Quarter(from, conflict, n) == from + 2 * Eighths(conflict - from, n)

\* later_intervention_boundaries: the live origin and three quarters of the way on.
LaterRefused(current, conflict) == current = 0 \/ current % 2 # 0 \/ conflict <= current
LaterTicks(current, conflict) ==
  {t \in {Quarter(current, conflict, n) : n \in 0..3} : t < conflict}

\* fallback_intervention_boundaries: the same from within one local horizon of the conflict,
\* without the ticks the primary search has tested.
FallbackRefused(current, conflict) == current % 2 # 0 \/ conflict <= current
FallbackStart(current, conflict, horizon) ==
  LET back == IF conflict > horizon THEN ((conflict - horizon) \div 2) * 2 ELSE 0
  IN  IF back > current THEN back ELSE current
FallbackTicks(current, conflict, horizon, tested) ==
  LaterTicks(FallbackStart(current, conflict, horizon), conflict) \ tested

\* initial_intervention_boundaries: 3/4, 5/8, 1/2 and 3/8 of the way from the launch hold to the
\* nominal's handoff, rounded down to a pair; a short bridge gives one tick several times.
InitialRefused(launch, handoff) == handoff <= launch \/ handoff % 2 # 0
InitialTick(launch, handoff, n) == launch + 2 * (((handoff - launch) * n) \div 16)
InitialTicks(launch, handoff) ==
  <<InitialTick(launch, handoff, 6), InitialTick(launch, handoff, 5),
    InitialTick(launch, handoff, 4), InitialTick(launch, handoff, 3)>>

\* command_count: the commands of [start, end); an odd end still consumes its last pair.
CommandCount(start, end) == (end - start + 1) \div 2

\* LocalClearingScheduleV1::validate: a powered phase, a coast of at least one command, and the
\* continuation that guards the handoff, all before the deadline; one update for each pair.
ValidSchedule(s, powered, maxCoast, continuation) ==
  /\ s.entry > 0 /\ s.entry % 2 = 0
  /\ s.poweredEnd = s.entry + powered
  /\ s.handoff > s.poweredEnd /\ s.handoff <= s.poweredEnd + maxCoast /\ s.handoff % 2 = 0
  /\ s.end = s.handoff + continuation /\ s.end <= s.deadline
  /\ s.updates = (s.end - s.entry) \div 2

\* What search_row makes of its k-th coast boundary; the updates are those of the trace before
\* the end of the continuation.
RowSchedule(entry, powered, continuation, deadline, k) ==
  LET handoff == entry + powered + 2 * k
      end == handoff + continuation
  IN  [entry |-> entry, poweredEnd |-> entry + powered, handoff |-> handoff, end |-> end,
       deadline |-> deadline, updates |-> CommandCount(entry, end)]
=============================================================================

----------------------------- MODULE BoundedRun -----------------------------
(***************************************************************************)
(* run_simulation_bounded (pd-core/src/sim.rs): one flight under two finite *)
(* limits, with a controller that may fail and a guard that may veto any   *)
(* boundary.  Whatever ends it, the artifact it returns is the valid       *)
(* prefix of the flight.                                                   *)
(*                                                                         *)
(* The controller and the guard are the caller's: each call's answer is a  *)
(* parameter of the action that makes the call.                            *)
(***************************************************************************)
EXTENDS Plant

CONSTANTS
  SampleInterval,   \* physics steps between trace samples, 0 for no trace
  GoalChoices,      \* the mission goals considered
  LimitChoices      \* the limits a caller may ask for

VARIABLES
  goal,        \* ctx.mission.goal
  limits,      \* BoundedRunLimitsV1: [coverage, hardEnd]
  phase,       \* where the function is: "initial", "command", "transition", "done"
  sim,         \* SimulationState
  updates,     \* controller_update_index
  actions,     \* the action log
  events,      \* the event log
  samples,     \* physics steps of the sampled trace
  contact,     \* incoming_contact: [class, step], class "None" when absent
  stop,        \* BoundedRunStopCauseV1, "None" until the run ends
  failure      \* BoundedRunFailureV1: [stage, disposition, step]

vars == <<goal, limits, phase, sim, updates, actions, events, samples, contact, stop, failure>>
ctx == <<goal, limits>>

Verdicts == {"Ok", "SafetyRejected", "ExecutionInvalid"}
Dispositions == Verdicts \ {"Ok"}
Stages == {"InitialGuard", "CommandSelection", "PreTransitionGuard",
           "PhysicsTransition", "PostTransitionGuard", "ReplayInput"}
StopCauses == {"MissionTerminal", "CoverageExhausted", "HardDeadlineReached",
               "ScenarioHorizonReached", "SafetyRejected", "ExecutionInvalid"}
NoFailure == [stage |-> "None", disposition |-> "Ok", step |-> 0]
NoContact == [class |-> "None", step |-> 0]

\* validate_bounded_limits: coverage ends on the control clock, and the hard
\* end is within the scenario.
ValidLimits(l) == ControlBoundary(l.coverage) /\ l.hardEnd <= HorizonSteps

ASSUME RunAssumption ==
  /\ SampleInterval \in Nat
  /\ GoalChoices \subseteq Goals
  /\ LimitChoices \subseteq [coverage : Nat, hardEnd : Nat]

----------------------------------------------------------------------------
(* Helpers of the run.                                                      *)

\* Fault: the limits are exceeded before they are noticed.
BoundedStopLate(s) ==
  IF s.step > limits.hardEnd THEN "HardDeadlineReached"
  ELSE IF s.step > limits.coverage THEN "CoverageExhausted"
  ELSE "None"

\* Fault: the coverage is asked for first.
BoundedStopCoverageFirst(s) ==
  IF s.step >= limits.coverage THEN "CoverageExhausted"
  ELSE IF s.step >= limits.hardEnd THEN "HardDeadlineReached"
  ELSE "None"

\* The hard end takes precedence over the end of the command coverage.
BoundedStop(s) ==
  IF s.step >= limits.hardEnd THEN "HardDeadlineReached"
  ELSE IF s.step >= limits.coverage THEN "CoverageExhausted"
  ELSE "None"

TerminalStop(s) ==
  IF s.end = "MaxTimeReached" THEN "ScenarioHorizonReached" ELSE "MissionTerminal"

\* One sample per step, at multiples of the sample interval and at the end.
Sampled(log, s) ==
  IF /\ SampleInterval # 0
     /\ s.step % SampleInterval = 0 \/ Terminal(s)
     /\ log = <<>> \/ log[Len(log)] # s.step
  THEN Append(log, s.step) ELSE log

Stamped(kinds, k) == [i \in 1..Len(kinds) |-> [kind |-> kinds[i], step |-> k]]

Finish(cause) == phase' = "done" /\ stop' = cause /\ UNCHANGED failure

Reject(stage, disposition, k) ==
  /\ phase' = "done"
  /\ stop' = disposition
  /\ failure' = [stage |-> stage, disposition |-> disposition, step |-> k]

----------------------------------------------------------------------------
Init ==
  /\ goal \in GoalChoices
  /\ limits \in LimitChoices /\ ValidLimits(limits)
  /\ phase = "initial"
  /\ sim = NewSim
  /\ updates = 0
  /\ actions = <<>>
  /\ events = <<>>
  /\ samples = Sampled(<<>>, NewSim)
  /\ contact = NoContact
  /\ stop = "None"
  /\ failure = NoFailure

\* guard.initial, then the limits, before any command is asked for.
InitialGuard(verdict) ==
  /\ phase = "initial"
  /\ IF verdict # "Ok" THEN Reject("InitialGuard", verdict, sim.step)
     ELSE IF BoundedStop(sim) # "None" THEN Finish(BoundedStop(sim))
     ELSE phase' = "command" /\ UNCHANGED <<stop, failure>>
  /\ UNCHANGED <<ctx, sim, updates, actions, events, samples, contact>>

\* issue_bounded_controller_update with a command that is admitted.
IssueUpdate(command) ==
  /\ phase = "command"
  /\ phase' = "transition"
  /\ sim' = [sim EXCEPT !.held = command]
  /\ actions' = Append(actions, [step |-> sim.step, index |-> updates, command |-> command])
  /\ events' = events \o Stamped(<<"ControllerUpdated">>, sim.step)
  /\ updates' = updates + 1
  /\ UNCHANGED <<ctx, samples, contact, stop, failure>>

\* Fault: the update is counted before its command is validated.
RefuseUpdateCounted(stage) ==
  /\ phase = "command"
  /\ Reject(stage, "ExecutionInvalid", sim.step)
  /\ updates' = updates + 1
  /\ UNCHANGED <<ctx, sim, actions, events, samples, contact>>

\* ... and with an answer that is not (an error, a nonfinite command, one out
\* of the canonical ranges): nothing is recorded, nothing is held.
RefuseUpdate(stage) ==
  /\ phase = "command"
  /\ Reject(stage, "ExecutionInvalid", sim.step)
  /\ UNCHANGED <<ctx, sim, updates, actions, events, samples, contact>>

\* guard.before_transition vetoes the next step.
RejectTransition(verdict) ==
  /\ phase = "transition"
  /\ Reject("PreTransitionGuard", verdict, sim.step)
  /\ UNCHANGED <<ctx, sim, updates, actions, events, samples, contact>>

\* Fault: the contact report is kept before the numbers are looked at.
LoseTransitionReported ==
  /\ phase = "transition"
  /\ Reject("PhysicsTransition", "ExecutionInvalid", sim.step + 1)
  /\ \E c \in Contacts \ {"None"} : contact' = [class |-> c, step |-> sim.step + 1]
  /\ UNCHANGED <<ctx, sim, updates, actions, events, samples>>

\* The step produced a nonfinite number: it never happened, except that the
\* failure names the step it would have reached.
LoseTransition ==
  /\ phase = "transition"
  /\ Reject("PhysicsTransition", "ExecutionInvalid", sim.step + 1)
  /\ UNCHANGED <<ctx, sim, updates, actions, events, samples, contact>>

\* A finite step o, then guard.after_transition, then the reasons to stop in
\* the order the code asks for them, then the next boundary.
Transition(o, verdict) ==
  LET next == StepSim(goal, sim, o)
  IN  /\ phase = "transition"
      /\ sim' = next
      /\ events' = events \o Stamped(StepEvents(goal, sim, o), next.step)
      /\ samples' = Sampled(samples, next)
      /\ contact' = IF o.contact = "None" THEN contact
                    ELSE [class |-> o.contact, step |-> next.step]
      /\ IF verdict # "Ok" THEN Reject("PostTransitionGuard", verdict, next.step)
         ELSE IF Terminal(next) THEN Finish(TerminalStop(next))
         ELSE IF BoundedStop(next) # "None" THEN Finish(BoundedStop(next))
         ELSE /\ phase' = IF ControlBoundary(next.step) THEN "command" ELSE "transition"
              /\ UNCHANGED <<stop, failure>>
      /\ UNCHANGED <<ctx, updates, actions>>

\* The run has returned: nothing changes any more.
Returned == phase = "done" /\ UNCHANGED vars

Next ==
  \/ \E v \in Verdicts : InitialGuard(v)
  \/ \E c \in Commands : IssueUpdate(c)
  \/ RefuseUpdate("CommandSelection")
  \/ \E v \in Dispositions : RejectTransition(v)
  \/ LoseTransition
  \/ \E o \in Outcomes, v \in Verdicts : Transition(o, v)
  \/ Returned

Spec == Init /\ [][Next]_vars

----------------------------------------------------------------------------
(* What a run promises.                                                     *)

\* Every variable stays in its type (the types of sim.rs and bounded_run.rs).
TypeOK ==
  /\ goal \in Goals
  /\ limits \in [coverage : Nat, hardEnd : Nat]
  /\ phase \in {"initial", "command", "transition", "done"}
  /\ sim \in SimStates
  /\ updates \in Nat
  /\ actions \in Seq([step : Nat, index : Nat, command : Commands])
  /\ events \in Seq([kind : EventKinds, step : Nat])
  /\ samples \in Seq(Nat)
  /\ contact \in [class : Contacts, step : Nat]
  /\ stop \in StopCauses \cup {"None"}
  /\ failure \in [stage : Stages \cup {"None"}, disposition : Verdicts, step : Nat]

\* The action log is the flight: entry i was recorded at the i-th control
\* boundary, every step flown was flown under a logged command, and the command
\* now held is the last one logged.  A saved log can be replayed only because
\* of this, and a refused command or a lost step must not disturb it
\* (issue_bounded_controller_update, the rollback in run_simulation_bounded).
ActionLogIsFlight ==
  /\ Len(actions) = updates
  /\ \A i \in 1..updates :
       actions[i].step = (i - 1) * Interval /\ actions[i].index = i - 1
  /\ sim.step <= updates * Interval
  /\ sim.held = IF updates = 0 THEN Idle ELSE actions[updates].command

\* The phase tells where the run stands on the control clock: the control
\* boundary is the one test (is_multiple_of) that keeps "ask for a command" in
\* step with the commands already logged, and no phase but "done" is reached
\* with a reason to stop pending.
PhaseClock ==
  /\ phase = "initial" => sim = NewSim /\ updates = 0
  /\ phase = "command" => sim.step = updates * Interval
  /\ phase = "transition" =>
       sim.step \in ((updates - 1) * Interval)..(updates * Interval - 1)
  /\ phase \in {"command", "transition"} => ~Terminal(sim) /\ BoundedStop(sim) = "None"

\* No step is flown, and no command selected, beyond either limit; a command
\* is not even asked for on the boundary at which a limit ends the run.
WithinLimits ==
  /\ sim.step <= limits.hardEnd /\ sim.step <= limits.coverage
  /\ \A i \in 1..Len(actions) :
       actions[i].step < limits.hardEnd /\ actions[i].step < limits.coverage

\* Together: whatever ends a run, it asked for commands on the control clock only and used no
\* step and no command the caller's two limits forbid.
ClockAndLimits == PhaseClock /\ WithinLimits

\* The stop cause is the first reason that holds, in the order contact, mission,
\* time limit, hard end, coverage; a failure outranks them all.  Hence
\* "a contact on a tied hard and coverage boundary wins before the driver's stop".
StopTruth ==
  /\ (stop # "None") <=> (phase = "done")
  /\ (failure # NoFailure) <=> (stop \in Dispositions)
  /\ failure # NoFailure => stop = failure.disposition
  /\ stop = "MissionTerminal" => Terminal(sim) /\ sim.end # "MaxTimeReached"
  /\ stop = "ScenarioHorizonReached" => sim.end = "MaxTimeReached"
  /\ stop = "HardDeadlineReached" => ~Terminal(sim) /\ sim.step = limits.hardEnd
  /\ stop = "CoverageExhausted" =>
       ~Terminal(sim) /\ sim.step = limits.coverage /\ sim.step < limits.hardEnd
  /\ Terminal(sim) => phase = "done"

\* The contact evidence, the terminal state and the event log tell one story:
\* the flight ended in a contact iff the contact of that very step was kept, and
\* the log closes with MissionEnded exactly when the flight is over, whatever
\* was rolled back or vetoed in between.
EvidenceAgrees ==
  /\ (contact # NoContact) <=>
       (sim.physical \in {"LandedOnTarget", "LandedOffTarget", "Crashed"})
  /\ contact # NoContact =>
       /\ contact.step = sim.step
       /\ (contact.class = "OnTarget") <=> (sim.physical = "LandedOnTarget")
       /\ (contact.class = "Crash") <=> (sim.physical = "Crashed")
  /\ \A i \in 1..Len(events) :
       (events[i].kind = "MissionEnded") <=> (Terminal(sim) /\ i = Len(events))
  /\ Terminal(sim) =>
       /\ events[Len(events)] = [kind |-> "MissionEnded", step |-> sim.step]
       /\ events[Len(events) - 1] = [kind |-> sim.end, step |-> sim.step]

\* The sampled trace has every multiple of the sample interval flown so far,
\* in order and once, and the terminal step even when it is off that clock.
TraceComplete ==
  SampleInterval # 0 =>
    /\ \A i \in 1..(Len(samples) - 1) : samples[i] < samples[i + 1]
    /\ {samples[i] : i \in 1..Len(samples)} =
         {k \in 0..sim.step : k % SampleInterval = 0 \/ (Terminal(sim) /\ k = sim.step)}

\* Together: the artifact's three kinds of evidence and its outcome agree, whatever was rolled
\* back, vetoed or refused on the way.
RecordsAgree == EvidenceAgrees /\ TraceComplete

\* A waypoint sequence is passed in order and judged at the first failure: the
\* latched capture window is never that of another waypoint, the failed index
\* is the next one due, and success means all were passed.
SequenceInOrder ==
  goal = "WaypointSequence" =>
    /\ sim.window \in {NoIndex, sim.passed}
    /\ sim.failedAt # NoIndex => sim.failedAt = sim.passed
    /\ (sim.failedAt # NoIndex) <=> (sim.end = "CheckpointFailed")
    /\ (sim.passed = Waypoints) <=> (sim.mission = "Success")

\* A landing is not a mission: touching the pad ends every flight, but only a
\* landing mission succeeds by it, and a route or checkpoint mission that
\* succeeded did so in the air.
LandingIsNotMission ==
  /\ goal = "LandingOnPad" =>
       (sim.mission = "Success" <=> sim.physical = "LandedOnTarget")
  /\ goal # "LandingOnPad" =>
       /\ sim.mission = "Success" => sim.physical = "Flying"
       /\ sim.physical \in {"LandedOnTarget", "LandedOffTarget"} => sim.mission = "FailedCheckpoint"

\* A handoff is only ever resolved on the controller's clock, one per boundary,
\* and what was resolved is never taken back
\* ("waypoint handoff waits for the controller observation boundary").
HandoffOnClock ==
  [][/\ sim'.passed \in {sim.passed, sim.passed + 1}
     /\ (sim'.passed # sim.passed \/ sim'.failedAt # sim.failedAt) =>
          ControlBoundary(sim'.step) /\ sim'.step = sim.step + 1
     /\ sim.failedAt # NoIndex => sim' = sim]_vars

\* Together: the mission's verdict is the one the flight earned, step by step, at control
\* boundaries and in the air.
MissionTruth == [](SequenceInOrder /\ LandingIsNotMission) /\ HandoffOnClock

\* The docs' statement about the event log (docs/architecture.md:878): every
\* handoff the mission counted as passed has its event.
HandoffsLogged ==
  sim.passed = Len(SelectSeq(events, LAMBDA e : e.kind = "WaypointHandoffSatisfied"))

\* The control clock the run implements: see ControlClock.
Clock == INSTANCE ControlClock WITH
  step <- sim.step, left <- updates * Interval - sim.step, over <- phase = "done"
ImplementsClock == Clock!Spec
=============================================================================

------------------------------ MODULE Episode ------------------------------
(***************************************************************************)
(* The incremental episode of pd-run (pd-run/src/episode.rs) and the agent  *)
(* loop that drives it (run_agent_with_capture_mode, pd-run/src/agent.rs).  *)
(* One step_frame call holds a command for one control interval with a      *)
(* counted loop; nothing here asks whether a step is a control boundary.    *)
(* The episode is meant to be the unguarded bounded run taken apart, and    *)
(* EpisodeIsBoundedRun (MCCallers) says that it is.                         *)
(***************************************************************************)
EXTENDS Plant

CONSTANTS
  SampleInterval, GoalChoices, LimitChoices,   \* as in BoundedRun
  RawCommands,     \* finite commands an agent may answer
  Clamped,         \* AgentFrame::clamped on them; what is still out of the
                   \* canonical ranges afterwards is not in Commands
  Modes            \* capture modes considered

ASSUME EpisodeAssumption == Modes \subseteq {"Summary", "Captured"}

VARIABLES
  goal, limits, mode,
  place,      \* the caller's place: "created", "between" two calls, "inside"
              \* step_frame, "taken" once finish has consumed the episode
  left,       \* iterations left of step_frame's loop
  sim, stop, failure, contact, updates,
  actions, events, samples, agentUpdates     \* Recording, empty in summary mode

vars == <<goal, limits, mode, place, left, sim, stop, failure, contact, updates,
          actions, events, samples, agentUpdates>>
recording == <<actions, events, samples, agentUpdates>>
ctx == <<goal, limits, mode>>

\* The bounded run seen from the episode.  A stop the constructor has already
\* found is not the run's until the caller has seen the agent's reset succeed.
Bounded == INSTANCE BoundedRun WITH
  phase <- IF place = "created" THEN "initial"
           ELSE IF stop # "None" THEN "done"
           ELSE IF place = "inside" THEN "transition" ELSE "command",
  stop <- IF place = "created" THEN "None" ELSE stop

Capturing == mode = "Captured"
Keep(log, longer) == IF Capturing THEN longer ELSE log

\* Fault: the coverage is rounded down to the control clock.
ScenarioHorizonLimitsRoundedDown ==
  [coverage |-> (HorizonSteps \div Interval) * Interval, hardEnd |-> HorizonSteps]

\* scenario_horizon_limits: the declared horizon, its coverage rounded up to
\* the control clock (and so possibly beyond the horizon).
ScenarioHorizonLimits ==
  [coverage |-> ((HorizonSteps + Interval - 1) \div Interval) * Interval,
   hardEnd |-> HorizonSteps]

Refused(stage, k) ==
  /\ stop' = "ExecutionInvalid"
  /\ failure' = [stage |-> stage, disposition |-> "ExecutionInvalid", step |-> k]

----------------------------------------------------------------------------
\* from_context: the limits are consulted at once.
Init ==
  /\ goal \in GoalChoices
  /\ limits \in LimitChoices /\ Bounded!ValidLimits(limits)
  /\ mode \in Modes
  /\ place = "created"
  /\ left = 0
  /\ sim = NewSim
  /\ stop = Bounded!BoundedStop(NewSim)
  /\ failure = Bounded!NoFailure
  /\ contact = Bounded!NoContact
  /\ updates = 0
  /\ actions = <<>> /\ events = <<>> /\ agentUpdates = <<>>
  /\ samples = Keep(<<>>, Bounded!Sampled(<<>>, NewSim))

\* The agent's own reset succeeded, or there is none.
ResetAccepted ==
  /\ place = "created"
  /\ place' = "between"
  /\ UNCHANGED <<ctx, left, sim, stop, failure, contact, updates, recording>>

\* reset_failed: also replaces a stop the constructor had found.
ResetFailed ==
  /\ place = "created"
  /\ place' = "between"
  /\ Refused("InitialGuard", 0)
  /\ UNCHANGED <<ctx, left, sim, contact, updates, recording>>

\* A held and recorded command, to be flown for n steps.
HoldFor(raw, n) ==
  /\ place = "between" /\ stop = "None" /\ Clamped[raw] \in Commands
  /\ place' = "inside" /\ left' = n
  /\ sim' = [sim EXCEPT !.held = Clamped[raw]]
  /\ updates' = updates + 1
  /\ LET entry == [step |-> sim.step, index |-> updates, command |-> Clamped[raw]]
     IN  /\ actions' = Keep(actions, Append(actions, entry))
         /\ agentUpdates' = Keep(agentUpdates, Append(agentUpdates, entry))
  /\ events' = Keep(events, events \o Bounded!Stamped(<<"ControllerUpdated">>, sim.step))
  /\ UNCHANGED <<ctx, stop, failure, contact, samples>>

\* Fault: the loop runs once less.
StepFrameShort(raw) == HoldFor(raw, Interval - 1)

\* step_frame on a completed episode is an error and changes nothing; a command
\* that clamps to a canonical one is held and recorded, and the loop starts.
StepFrame(raw) == HoldFor(raw, Interval)

\* A nonfinite or still noncanonical command, telemetry that cannot be
\* recorded, or an agent error (decision_failed): nothing is recorded.
RefuseFrame ==
  /\ place = "between" /\ stop = "None"
  /\ Refused("CommandSelection", sim.step)
  /\ UNCHANGED <<ctx, place, left, sim, contact, updates, recording>>

\* Fault: the frame is rolled back and retried.
LoseStepRetried ==
  /\ place = "inside"
  /\ place' = "between" /\ left' = 0
  /\ updates' = updates - 1
  /\ actions' = Keep(actions, SubSeq(actions, 1, updates - 1))
  /\ agentUpdates' = Keep(agentUpdates, SubSeq(agentUpdates, 1, updates - 1))
  /\ events' = Keep(events, SubSeq(events, 1, Len(events) - 1))
  /\ UNCHANGED <<ctx, sim, stop, failure, contact, samples>>

\* One iteration of the loop whose step turned nonfinite.
LoseStep ==
  /\ place = "inside"
  /\ Refused("PhysicsTransition", sim.step + 1)
  /\ place' = "between" /\ left' = 0
  /\ UNCHANGED <<ctx, sim, contact, updates, recording>>

\* One iteration of the loop: the step, its evidence, and whether to break.
Advance(o) ==
  LET next  == StepSim(goal, sim, o)
      cause == IF Terminal(next) THEN Bounded!TerminalStop(next) ELSE Bounded!BoundedStop(next)
  IN  /\ place = "inside"
      /\ sim' = next
      /\ events' = Keep(events, events \o Bounded!Stamped(StepEvents(goal, sim, o), next.step))
      /\ contact' = IF o.contact = "None" THEN contact
                    ELSE [class |-> o.contact, step |-> next.step]
      /\ samples' = Keep(samples, Bounded!Sampled(samples, next))
      /\ stop' = cause
      /\ IF cause # "None" \/ left = 1
         THEN place' = "between" /\ left' = 0
         ELSE left' = left - 1 /\ UNCHANGED place
      /\ UNCHANGED <<ctx, failure, updates, actions, agentUpdates>>

\* finish consumes the episode; it is an error, and the episode is gone, when
\* it is called in progress.  The agent loop calls it only after the stop.
Finish ==
  /\ place = "between" /\ stop # "None"
  /\ place' = "taken"
  /\ UNCHANGED <<ctx, left, sim, stop, failure, contact, updates, recording>>

Returned == place = "taken" /\ UNCHANGED vars

Next ==
  \/ ResetAccepted
  \/ ResetFailed
  \/ \E raw \in RawCommands : StepFrame(raw)
  \/ RefuseFrame
  \/ LoseStep
  \/ \E o \in Outcomes : Advance(o)
  \/ Finish
  \/ Returned

Spec == Init /\ [][Next]_vars

\* One thread runs the loop: it keeps calling until the episode stops, and
\* every call of the agent returns.
FairSpec == Spec /\ WF_vars(Next)

----------------------------------------------------------------------------
(* What an episode promises.                                                *)

\* An episode given exactly the scenario's horizon is never cut short by the
\* driver: without a failure it ends in a terminal state of the mission.
HorizonEndsMission ==
  /\ limits = ScenarioHorizonLimits /\ MaxTimeStep <= HorizonSteps
  /\ place = "taken" /\ failure = Bounded!NoFailure
  => Terminal(sim) /\ stop \in {"MissionTerminal", "ScenarioHorizonReached"}

\* Whatever the mode, the goal and the limits, and whatever the agent answers,
\* the loop comes to its end: no refusal, loss or limit leaves it asking the
\* agent again for a frame it cannot fly.
EpisodeEnds == <>(place = "taken")
=============================================================================

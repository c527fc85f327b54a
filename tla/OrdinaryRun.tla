---------------------------- MODULE OrdinaryRun ----------------------------
(***************************************************************************)
(* run_simulation and replay_simulation (pd-core/src/sim.rs): the loop      *)
(* without limits, guards or contact reports, and its replay of the saved   *)
(* log, intact or damaged on the way.  The flight of the one must be the    *)
(* bounded run to the scenario's horizon; the other returns an artifact or  *)
(* an error, never a prefix.                                                *)
(***************************************************************************)
EXTENDS Plant

CONSTANTS
  SampleInterval, GoalChoices,   \* as in BoundedRun
  RawCommands,                   \* finite commands a controller may answer
  Clamped                        \* Command::clamped on them

VARIABLES
  goal,
  pass,      \* which function runs: "record", then "replay"
  phase,     \* "entered", "update", "step", "returned", "failed"
  sim, updates, actions, events, samples,
  world,     \* what each flown step of the record exposed, in order
  saved,     \* the record's artifact, kept by its caller
  log        \* the log handed to the replay: entries of the action log, with
             \* "onTime" false when the time is off by more than the tolerance

vars == <<goal, pass, phase, sim, updates, actions, events, samples, world, saved, log>>
flight == <<sim, updates, actions, events, samples>>

\* scenario_horizon_limits: the bounded run this flight should be.
Horizon == [coverage |-> ((HorizonSteps + Interval - 1) \div Interval) * Interval,
            hardEnd |-> HorizonSteps]

Artifact == [sim |-> sim, updates |-> updates, actions |-> actions,
             events |-> events, samples |-> samples]
record == IF pass = "record" THEN Artifact ELSE saved

ContactClass(s) ==
  CASE s.physical = "LandedOnTarget"  -> "OnTarget"
    [] s.physical = "LandedOffTarget" -> "OffTarget"
    [] s.physical = "Crashed"         -> "Crash"
    [] OTHER -> "None"

Bounded == INSTANCE BoundedRun WITH
  LimitChoices <- {Horizon}, limits <- Horizon,
  phase <- IF pass = "replay" \/ phase = "returned" THEN "done"
           ELSE CASE phase = "entered" -> "initial"
                  [] phase = "update"  -> "command"
                  [] OTHER             -> "transition",
  sim <- record.sim, updates <- record.updates, actions <- record.actions,
  events <- record.events, samples <- record.samples,
  contact <- IF ContactClass(record.sim) = "None" THEN [class |-> "None", step |-> 0]
             ELSE [class |-> ContactClass(record.sim), step |-> record.sim.step],
  stop <- IF pass = "record" /\ phase # "returned" THEN "None"
          ELSE IF record.sim.end = "MaxTimeReached" THEN "ScenarioHorizonReached"
          ELSE "MissionTerminal",
  failure <- [stage |-> "None", disposition |-> "Ok", step |-> 0]

NewArtifact == [sim |-> NewSim, updates |-> 0, actions |-> <<>>, events |-> <<>>,
                samples |-> Bounded!Sampled(<<>>, NewSim)]

----------------------------------------------------------------------------
Init ==
  /\ goal \in GoalChoices
  /\ pass = "record" /\ phase = "entered"
  /\ sim = NewSim /\ updates = 0 /\ actions = <<>> /\ events = <<>>
  /\ samples = NewArtifact.samples
  /\ world = <<>>
  /\ saved = NewArtifact
  /\ log = <<>>

\* The first update is due whatever the state says.
Enter ==
  /\ phase = "entered" /\ pass = "record"
  /\ phase' = "update"
  /\ UNCHANGED <<goal, pass, flight, world, saved, log>>

\* Hold a command and put it on record, with its event.
Issue(command, index) ==
  /\ sim' = [sim EXCEPT !.held = command]
  /\ actions' = Append(actions, [step |-> sim.step, index |-> index, command |-> command])
  /\ events' = events \o Bounded!Stamped(<<"ControllerUpdated">>, sim.step)
  /\ updates' = updates + 1
  /\ phase' = "step"
  /\ UNCHANGED samples

\* issue_controller_update: the answer is clamped and otherwise believed.
Update(raw) ==
  /\ pass = "record" /\ phase = "update"
  /\ Issue(Clamped[raw], updates)
  /\ UNCHANGED <<goal, pass, world, saved, log>>

\* Fault: an update is due on the boundary the flight ended at.
AfterStepUnbroken(s) ==
  IF ControlBoundary(s.step) THEN "update" ELSE IF Terminal(s) THEN "returned" ELSE "step"

\* What the loop does after a step to s.
AfterStep(s) ==
  IF Terminal(s) THEN "returned" ELSE IF ControlBoundary(s.step) THEN "update" ELSE "step"

Fly(o) ==
  LET next == StepSim(goal, sim, o)
  IN  /\ sim' = next
      /\ events' = events \o Bounded!Stamped(StepEvents(goal, sim, o), next.step)
      /\ samples' = Bounded!Sampled(samples, next)
      /\ phase' = AfterStep(next)
      /\ UNCHANGED <<updates, actions>>

\* One outcome for each thing that can happen to the flight.
Effect(o) == <<StepSim(goal, sim, o), StepEvents(goal, sim, o)>>
Distinct == {CHOOSE o \in Outcomes : Effect(o) = e : e \in {Effect(o) : o \in Outcomes}}

Step ==
  /\ pass = "record" /\ phase = "step"
  /\ \E o \in Distinct : Fly(o) /\ world' = Append(world, o)
  /\ UNCHANGED <<goal, pass, saved, log>>

----------------------------------------------------------------------------
(* The replay.                                                              *)

SavedLog(l) == [i \in 1..Len(l) |-> [step |-> l[i].step, index |-> l[i].index,
                                     command |-> l[i].command, onTime |-> TRUE]]
Extra(l) == [step |-> Len(l) * Interval, index |-> Len(l), command |-> Idle, onTime |-> TRUE]
Altered(l, i) ==
  {[l EXCEPT ![i].command = raw] : raw \in RawCommands}
  \cup {[l EXCEPT ![i].step = @ + 1], [l EXCEPT ![i].index = @ + 1], [l EXCEPT ![i].onTime = FALSE]}
PresentedLogs(l) ==
  {SubSeq(l, 1, n) : n \in 0..Len(l)} \cup {Append(l, Extra(l))}
  \cup UNION {Altered(l, i) : i \in 1..Len(l)}

\* The saved log reaches replay_simulation, which refuses an empty one and
\* starts over otherwise.
Present ==
  /\ pass = "record" /\ phase = "returned"
  /\ pass' = "replay"
  /\ saved' = Artifact
  /\ log' \in PresentedLogs(SavedLog(actions))
  /\ phase' = IF log' = <<>> THEN "failed" ELSE "update"
  /\ sim' = NewSim /\ updates' = 0 /\ actions' = <<>> /\ events' = <<>>
  /\ samples' = NewArtifact.samples
  /\ UNCHANGED <<goal, world>>

Expected(i) ==
  i <= Len(log) /\ log[i].step = sim.step /\ log[i].index = i - 1 /\ log[i].onTime

\* consume_replay_action: the entry due now, its command clamped but not
\* otherwise looked at, or an error that discards the replay.
ConsumeAction ==
  /\ pass = "replay" /\ phase = "update"
  /\ IF Expected(updates + 1)
     THEN Issue(Clamped[log[updates + 1].command], log[updates + 1].index)
     ELSE phase' = "failed" /\ UNCHANGED flight
  /\ UNCHANGED <<goal, pass, world, saved, log>>

\* As long as its commands are the record's, the replay sees the record's world.
ReplayOutcomes ==
  IF /\ actions = SubSeq(saved.actions, 1, updates) /\ sim.step < Len(world)
  THEN {world[sim.step + 1]} ELSE Distinct

\* Fault: entries left over are ignored.
ReplayStepLenient ==
  /\ pass = "replay" /\ phase = "step"
  /\ \E o \in ReplayOutcomes : Fly(o)
  /\ UNCHANGED <<goal, pass, world, saved, log>>

\* A step of the replay; entries left over at the end are an error.
ReplayStep ==
  /\ pass = "replay" /\ phase = "step"
  /\ \E o \in ReplayOutcomes :
       LET next == StepSim(goal, sim, o)
       IN  IF Terminal(next) /\ updates # Len(log)
           THEN phase' = "failed" /\ UNCHANGED flight
           ELSE Fly(o)
  /\ UNCHANGED <<goal, pass, world, saved, log>>

Over == pass = "replay" /\ phase \in {"returned", "failed"} /\ UNCHANGED vars

Next ==
  \/ Enter
  \/ \E raw \in RawCommands : Update(raw)
  \/ Step
  \/ Present
  \/ ConsumeAction
  \/ ReplayStep
  \/ Over

Spec == Init /\ [][Next]_vars

----------------------------------------------------------------------------
(* What the ordinary run and its replay promise.                            *)

\* The intact log replays to the same artifact; and a replay that returns has flown every entry
\* it was given, in order, at its boundary, with the command brought into range.
ReturnedReplayIsTheLog ==
  pass = "replay" =>
    /\ log = SavedLog(saved.actions) =>
         phase # "failed" /\ (phase = "returned" => Artifact = saved)
    /\ phase = "returned" =>
         actions = [i \in 1..Len(log) |-> [step |-> (i - 1) * Interval, index |-> i - 1,
                                           command |-> Clamped[log[i].command]]]
=============================================================================

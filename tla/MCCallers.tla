----------------------------- MODULE MCCallers -----------------------------
(***************************************************************************)
(* The callers of the core, each on a small scenario of its own: an agent   *)
(* or a prepared program in an episode, the ordinary run with its replay, a *)
(* landing maneuver, and the planner's ballistic candidate.  A process is    *)
(* one of them; they share the names of the core's variables, and a variable *)
(* a caller has no use for is unused.                                       *)
(***************************************************************************)
EXTENDS Episode

CONSTANTS
  ProgramScenario, OrdinaryScenario, LandingScenario, CandidateScenario,
  Never                                   \* BallisticFlight

VARIABLES
  caller,
  program, next,                          \* PreparedProgram
  pass, phase, world, log, saved,         \* OrdinaryRun
  accepted, activation, owner, nextTick, commandUpdates, backendUpdates, resets, nativeEnd,
  step, stopped, answer,                  \* Maneuver
  experiment, neutral, now, engineOff, ended, target, correction, nextRefresh, nextRevision,
  handoffRevisions, landing, sourceCleared, coastStarted, recoveryStarted, pendingCoast,
  declinedAt, coast, due, verdict         \* BallisticFlight

episodeVars == <<goal, limits, mode, left, sim, stop, failure, contact, updates, actions, events,
                 samples, agentUpdates>>
programVars == <<program, next>>
loopVars == <<pass, phase, world, log, saved>>
landingVars == <<accepted, activation, owner, nextTick, commandUpdates, backendUpdates, resets,
                 nativeEnd, step, stopped, answer>>
candidateVars == <<experiment, neutral, now, engineOff, ended, target, correction, nextRefresh,
                   nextRevision, handoffRevisions, landing, sourceCleared, coastStarted,
                   recoveryStarted, pendingCoast, declinedAt, coast, due, verdict>>
allVars == <<caller, vars, programVars, loopVars, landingVars, candidateVars>>

NoLegs == {}
LastLeg == {1}
\* Odd and even hard ends, coverage short of, equal to and beyond the horizon.
MCLimits == [coverage : {0, 3, 6}, hardEnd : {0, 2, 5}]
\* "hard" asks for more throttle than there is; "spin" is no canonical attitude.
MCRaw == {"idle", "burn", "hard", "spin"}
MCClamped == [r \in MCRaw |-> IF r = "hard" THEN "burn" ELSE r]

\* The horizon one step beyond the time limit, a last leg without a direction,
\* and agents that keep no record.
Wider == INSTANCE Episode WITH
  HorizonSteps <- 6, DegenerateLegs <- LastLeg,
  LimitChoices <- [coverage : {0, 3, 6}, hardEnd : {0, 2, 6}],
  Modes <- {"Summary", "Captured"}

\* Programs on the control clock, one with an entry off it, and programs with
\* more or fewer entries than their coverage asks for.
ProgramLimits == [coverage : {0, 2, 4, 6, 8}, hardEnd : {0, 3, 6}]
Entries(n) == [1..n -> Commands]
OnClock(cs) == [i \in DOMAIN cs |-> [step |-> 2 * (i - 1), command |-> cs[i]]]
OffClock == <<[step |-> 0, command |-> "burn"], [step |-> 3, command |-> "idle"]>>
MCPrograms ==
  {[limits |-> l, updates |-> u] :
     l \in ProgramLimits,
     u \in {OnClock(cs) : cs \in UNION {Entries(n) : n \in 0..4}} \cup {OffClock}}
MCProgramScenario ==
  [interval |-> 2, timeLimit |-> 6, horizon |-> 6, checkpoint |-> 3, waypoints |-> 1,
   sampleInterval |-> 0, goals |-> {"LandingOnPad", "WaypointSequence"},
   limits |-> ProgramLimits, programs |-> MCPrograms]
Prepared == INSTANCE PreparedProgram WITH
  Interval <- ProgramScenario.interval, MaxTimeStep <- ProgramScenario.timeLimit,
  HorizonSteps <- ProgramScenario.horizon, CheckpointStep <- ProgramScenario.checkpoint,
  Waypoints <- ProgramScenario.waypoints, SampleInterval <- ProgramScenario.sampleInterval,
  GoalChoices <- ProgramScenario.goals, LimitChoices <- ProgramScenario.limits,
  RawCommands <- Commands, Clamped <- [c \in Commands |-> c],
  Programs <- ProgramScenario.programs

\* The horizon one step beyond the time limit.
MCOrdinaryScenario ==
  [interval |-> 2, timeLimit |-> 4, horizon |-> 5, checkpoint |-> 3, handoffIndex |-> 1,
   sampleInterval |-> 3, rawCommands |-> {"idle", "burn", "hard"}]
Ordinary == INSTANCE OrdinaryRun WITH
  Interval <- OrdinaryScenario.interval, MaxTimeStep <- OrdinaryScenario.timeLimit,
  HorizonSteps <- OrdinaryScenario.horizon, CheckpointStep <- OrdinaryScenario.checkpoint,
  HandoffIndex <- OrdinaryScenario.handoffIndex,
  SampleInterval <- OrdinaryScenario.sampleInterval, RawCommands <- OrdinaryScenario.rawCommands

MCLandingScenario == [interval |-> 2, horizon |-> 7, ids |-> {"r1", "r2"}]
Landing == INSTANCE Maneuver WITH
  Interval <- LandingScenario.interval, Horizon <- LandingScenario.horizon,
  Ids <- LandingScenario.ids

\* A few of the experiments, by what each may do.
MCExperiments ==
  {{}, {"recovery"}, {"recovery", "early", "piecewise", "coastTerminal"},
   {"recovery", "early", "coastTerminal", "finite"}}
MCCandidateScenario ==
  [deadline |-> 6, refresh |-> 2, maxRecovery |-> 2, maxProposals |-> 2, cap |-> 2,
   experiments |-> MCExperiments]
Ballistic == INSTANCE BallisticFlight WITH
  Deadline <- CandidateScenario.deadline, Refresh <- CandidateScenario.refresh,
  MaxRecovery <- CandidateScenario.maxRecovery, MaxProposals <- CandidateScenario.maxProposals,
  Cap <- CandidateScenario.cap, Experiments <- CandidateScenario.experiments

\* What the other scenarios are assumed to be, as the episode's is by Plant.
ASSUME ProgramAssumption ==
  /\ ProgramScenario.interval \in Nat \ {0} /\ ProgramScenario.timeLimit \in Nat
  /\ \A p \in ProgramScenario.programs :
       /\ p.limits.coverage \in Nat /\ p.limits.hardEnd \in Nat
       /\ p.updates \in Seq([step : Nat, command : Commands])
ASSUME OrdinaryAssumption ==
  /\ OrdinaryScenario.interval \in Nat \ {0}
  /\ OrdinaryScenario.timeLimit \in Nat \ {0} /\ OrdinaryScenario.horizon \in Nat
  /\ OrdinaryScenario.horizon \in (OrdinaryScenario.timeLimit - 1)..(OrdinaryScenario.timeLimit + 1)
  /\ \A raw \in OrdinaryScenario.rawCommands :
       Clamped[raw] \in Commands /\ Clamped[Clamped[raw]] = Clamped[raw]
ASSUME LandingAssumption == Landing!ManeuverAssumption
ASSUME CandidateAssumption == Ballistic!BallisticAssumption

\* What a caller has no use for.
NoEpisode ==
  /\ limits = "unused" /\ stop = "unused" /\ failure = "unused" /\ contact = "unused"
  /\ left = "unused" /\ mode = "unused" /\ agentUpdates = "unused"
NoFlight ==
  /\ goal = "unused" /\ sim = "unused" /\ updates = "unused" /\ actions = "unused"
  /\ events = "unused" /\ samples = "unused"
NoProgram == program = "unused" /\ next = "unused"
NoLoop ==
  /\ pass = "unused" /\ phase = "unused" /\ world = "unused" /\ log = "unused"
  /\ saved = "unused"
NoLanding ==
  /\ accepted = "unused" /\ activation = "unused" /\ owner = "unused" /\ nextTick = "unused"
  /\ commandUpdates = "unused" /\ backendUpdates = "unused" /\ resets = "unused"
  /\ nativeEnd = Landing!NoStep /\ step = 0 /\ stopped = "unused" /\ answer = "unused"
NoCandidate ==
  /\ experiment = "unused" /\ neutral = "unused" /\ now = "unused" /\ engineOff = "unused"
  /\ ended = "unused" /\ target = "unused" /\ correction = "unused" /\ nextRefresh = "unused"
  /\ nextRevision = "unused" /\ handoffRevisions = "unused" /\ landing = "unused"
  /\ sourceCleared = "unused" /\ coastStarted = "unused" /\ recoveryStarted = "unused"
  /\ pendingCoast = "unused" /\ declinedAt = "unused" /\ coast = "unused" /\ due = "unused"
  /\ verdict = "unused"

CallersInit ==
  \/ caller = "episode"  /\ Init /\ NoProgram /\ NoLoop /\ NoLanding /\ NoCandidate
  \/ caller = "wider"    /\ Wider!Init /\ NoProgram /\ NoLoop /\ NoLanding /\ NoCandidate
  \/ caller = "program"  /\ Prepared!PreparedInit /\ NoLoop /\ NoLanding /\ NoCandidate
  \/ /\ caller = "ordinary" /\ Ordinary!Init
     /\ NoEpisode /\ place = "unused" /\ NoProgram /\ NoLanding /\ NoCandidate
  \/ /\ caller = "landing" /\ Landing!Init
     /\ NoEpisode /\ NoFlight /\ NoProgram /\ NoLoop /\ NoCandidate
  \/ /\ caller = "candidate" /\ Ballistic!BallisticInit
     /\ NoEpisode /\ NoFlight /\ NoProgram /\ NoLoop /\ NoLanding

LandingStep(A) ==
  caller = "landing" /\ A /\ UNCHANGED <<caller, episodeVars, programVars, loopVars, candidateVars>>

CallersNext ==
  \/ /\ caller = "episode" /\ Next
     /\ UNCHANGED <<caller, programVars, loopVars, landingVars, candidateVars>>
  \/ /\ caller = "wider" /\ Wider!Next
     /\ UNCHANGED <<caller, programVars, loopVars, landingVars, candidateVars>>
  \/ /\ caller = "program" /\ Prepared!PreparedNext
     /\ UNCHANGED <<caller, loopVars, landingVars, candidateVars>>
  \/ /\ caller = "ordinary" /\ Ordinary!Next
     /\ UNCHANGED <<caller, limits, mode, place, left, stop, failure, contact, agentUpdates,
                    programVars, landingVars, candidateVars>>
  \/ /\ caller = "candidate" /\ Ballistic!BallisticNext
     /\ UNCHANGED <<caller, episodeVars, programVars, loopVars, landingVars>>
  \/ LandingStep(Landing!Next)

\* The fairness of Episode.FairSpec and of Maneuver.FairSpec: one thread, whose
\* calls return; a client need not submit anything.
CallersSpec ==
  /\ CallersInit /\ [][CallersNext]_allVars
  /\ WF_allVars(caller # "landing" /\ CallersNext)
  /\ WF_allVars(LandingStep(Landing!Frame))
  /\ WF_allVars(LandingStep(\E n \in 0..LandingScenario.interval : Landing!Fly(n)))
  /\ WF_allVars(LandingStep(Landing!NativeEnd))

----------------------------------------------------------------------------
(* The promises of Episode, PreparedProgram, OrdinaryRun, Maneuver and the    *)
(* candidate, each of its own caller.                                       *)

\* The episode, driven call by call with its counted loop, is the bounded run under the guard
\* that allows everything: same records, same order of reasons to stop, same failures, and
\* final once stopped (Episode::step_frame, finish against run_simulation_bounded_inner).
EpisodeIsBoundedRun ==
  /\ caller = "episode" => Bounded!Init
  /\ [][caller = "episode" => [Bounded!Next]_(Bounded!vars)]_allVars

\* An episode given exactly the scenario's horizon is never cut short by the driver: without a
\* failure it ends in a terminal state of the mission.
EpisodeHorizonEndsMission == caller = "episode" => HorizonEndsMission

\* Whatever the mode, the goal and the limits, and whatever the agent answers, the loop comes to
\* its end: no refusal, loss or limit leaves it asking the agent for a frame it cannot fly.
CalledEpisodeEnds == caller \in {"episode", "wider", "program"} => EpisodeEnds

\* A program that passed the validation is flown as written: no command selection ever fails,
\* and what was flown is its beginning, or all of it when the coverage ran out.
PreparedProgramIsFlown == caller = "program" => Prepared!ProgramIsFlown

\* The two loops of the core are one: the ordinary run is the bounded run to the scenario's
\* horizon, record for record, also when f64 rounding puts the horizon a step beyond the time
\* limit (run_simulation, scenario_horizon_limits).
OrdinaryIsBoundedRun ==
  /\ caller = "ordinary" => Ordinary!Bounded!Init
  /\ [][caller = "ordinary" => [Ordinary!Bounded!Next]_(Ordinary!Bounded!vars)]_allVars

\* An ordinary replay that returns has flown every entry it was given, in order, and the intact
\* log gives the same artifact (replay_simulation).
OrdinaryReplayIsTheLog == caller = "ordinary" => Ordinary!ReturnedReplayIsTheLog

\* One landing, on its own clock: whatever is submitted again, refused or named for another
\* boundary, an active landing keeps its request, its activation and its one backend, and has
\* been updated at every boundary since and at no other (maneuver_execution_design.md).
LandingIsOne == caller = "landing" => Landing!OneLanding

\* However its episode stops, in the middle of an interval, on a refused command or a failed
\* decision, the landing's facade admits the true end and is closed: "close once".
LandingClosesOnce == caller = "landing" => Landing!ClosesOnce

\* The candidate's plan is for the goal it was made for, a landing has one owner, and the two
\* ensures in its loop hold where they stand; its handoffs are of goals issued one after the
\* other, and no more than the correction cap, although the replan of an early destination does
\* not ask for it (ballistic_feedback.rs, execute).
CandidatePlansInOrder == caller = "candidate" => Ballistic!PlanOfTheGoal /\ Ballistic!HandoffsAdvance

\* Its loop ends: a plan that is declined again and again at one state of the plant, without a
\* pair being flown, would not.
CandidateStops == caller = "candidate" => Ballistic!FlightStops
=============================================================================

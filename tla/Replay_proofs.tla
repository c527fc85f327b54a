---------------------------- MODULE Replay_proofs ----------------------------
(***************************************************************************)
(* Theorems about record and replay, for every scenario, log, guard and     *)
(* pair of limits.                                                          *)
(***************************************************************************)
EXTENDS Replay, Plant_proofs, SequenceTheorems, TLAPS

----------------------------------------------------------------------------
(* The invariant of the two runs and of the log between them.               *)

Entries == [step : Nat, index : Nat, command : Commands]
SavedEntries == [step : Nat, index : Nat, command : Commands, sound : BOOLEAN]

\* What is recorded, and the world it was recorded in.
RecordTypes ==
  /\ goal \in Goals /\ sim \in SimStates /\ updates \in Nat
  /\ actions \in Seq(Entries) /\ Len(actions) = updates
  /\ world \in Seq(Outcomes \cup {Lost})
  /\ phase # "done" => failure = Record!NoFailure /\ stop = "None" /\ Len(world) = sim.step
  /\ log # NoLog => phase = "done"

\* Where on the control clock the replay stands.
ReplayClock ==
  /\ rphase = "initial" => rsim = NewSim /\ rupdates = 0
  /\ rphase = "command" => rsim.step = rupdates * Interval
  /\ rphase = "transition" =>
       rsim.step \in ((rupdates - 1) * Interval)..(rupdates * Interval - 1)
ReplayTypes ==
  /\ rsim \in SimStates /\ rupdates \in Nat /\ ractions \in Seq(Entries)
  /\ log # NoLog => log \in Seq(SavedEntries)
  /\ log = NoLog => rphase = "initial" /\ ~settled
  /\ rphase # "done" => rfailure = Rerun!NoFailure /\ ~settled

\* The entries used are the entries flown, one by one.
LogFollowed ==
  /\ used = rupdates
  /\ log # NoLog => rupdates <= Len(log)
  /\ \A i \in 1..rupdates :
       /\ log[i].sound
       /\ ractions[i] = [step |-> log[i].step, index |-> log[i].index, command |-> log[i].command]

\* A replay that is not invalid left no entry over.
NothingLeft ==
  /\ rfailure.disposition = "ExecutionInvalid" => rstop = "ExecutionInvalid"
  /\ settled /\ rstop # "ExecutionInvalid" => used = Len(log)

LogInv ==
  /\ RecordTypes /\ ReplayTypes /\ ReplayClock /\ Rerun!ActionLogIsFlight
  /\ LogFollowed /\ NothingLeft

----------------------------------------------------------------------------
(* The two runs fly the same plant, and read it the same way.               *)

\* The plant of the record.
LEMMA SameRecordPlant ==
  /\ Record!NewSim = NewSim /\ Record!Outcomes = Outcomes
  /\ \A s : Record!Terminal(s) <=> Terminal(s)
  /\ \A k : Record!ControlBoundary(k) <=> ControlBoundary(k)
  /\ \A g, s, o : Record!StepSim(g, s, o) = StepSim(g, s, o)
  /\ \A g, s, o : Record!StepEvents(g, s, o) = StepEvents(g, s, o)
<1>1. /\ Record!NewSim = NewSim /\ Record!Outcomes = Outcomes
      /\ \A s : Record!Terminal(s) <=> Terminal(s)
      /\ \A k : Record!ControlBoundary(k) <=> ControlBoundary(k)
  BY DEF Record!NewSim, NewSim, Record!NoIndex, NoIndex,
     Record!Outcomes, Outcomes, Record!Contacts, Contacts,
     Record!Terminal, Terminal, Record!ControlBoundary,
     ControlBoundary
<1>2. \A s : /\ Record!Satisfy(s) = Satisfy(s)
             /\ Record!Fail(s) = Fail(s)
  BY DEF Record!Satisfy, Satisfy, Record!Fail, Fail
<1>3. \A s : /\ Record!PhysicsStep(s) = PhysicsStep(s)
             /\ Record!ApplyMaxTime(s) = ApplyMaxTime(s)
  BY DEF Record!PhysicsStep, PhysicsStep, Record!ApplyMaxTime,
     ApplyMaxTime
<1>4. \A g, s, c : Record!ApplyContact(g, s, c) = ApplyContact(g, s, c)
  BY DEF Record!ApplyContact, ApplyContact, Record!TouchdownVerdict,
     TouchdownVerdict
<1>5. \A s, i, o : /\ Record!ContractPass(s, i, o) <=> ContractPass(s, i, o)
                   /\ Record!Resolved(s, i, o) <=> Resolved(s, i, o)
  BY DEF Record!ContractPass, ContractPass, Record!Resolved,
     Resolved, Record!WindowOpen, WindowOpen
<1>6. \A g, s : Record!JudgedWaypoint(g, s) = JudgedWaypoint(g, s)
  BY <1>1 DEF Record!JudgedWaypoint, JudgedWaypoint, Record!Indices,
     Indices, Record!NoIndex, NoIndex
<1>7. \A g, s, i, o :
        Record!WaypointProgress(g, s, i, o) = WaypointProgress(g, s, i, o)
  BY <1>2, <1>5 DEF Record!WaypointProgress, WaypointProgress,
     Record!NoIndex, NoIndex
<1>8. \A g, s, o : Record!ApplyProgress(g, s, o) = ApplyProgress(g, s, o)
  BY <1>2, <1>6, <1>7 DEF Record!ApplyProgress, ApplyProgress,
     Record!NoIndex, NoIndex
<1>9. \A g, s, o : Record!StepSim(g, s, o) = StepSim(g, s, o)
  BY <1>1, <1>3, <1>4, <1>8 DEF Record!StepSim, StepSim
<1>10. \A g, s, t : Record!ProgressEvents(g, s, t) = ProgressEvents(g, s, t)
  BY <1>1 DEF Record!ProgressEvents, ProgressEvents
<1>11. \A g, s, o : Record!StepEvents(g, s, o) = StepEvents(g, s, o)
  BY <1>1, <1>3, <1>4, <1>8, <1>10 DEF Record!StepEvents, StepEvents
<1> QED BY <1>1, <1>9, <1>11

\* The plant of the replay.
LEMMA SameRerunPlant ==
  /\ Rerun!NewSim = NewSim /\ Rerun!Outcomes = Outcomes
  /\ \A s : Rerun!Terminal(s) <=> Terminal(s)
  /\ \A k : Rerun!ControlBoundary(k) <=> ControlBoundary(k)
  /\ \A g, s, o : Rerun!StepSim(g, s, o) = StepSim(g, s, o)
  /\ \A g, s, o : Rerun!StepEvents(g, s, o) = StepEvents(g, s, o)
<1>1. /\ Rerun!NewSim = NewSim /\ Rerun!Outcomes = Outcomes
      /\ \A s : Rerun!Terminal(s) <=> Terminal(s)
      /\ \A k : Rerun!ControlBoundary(k) <=> ControlBoundary(k)
  BY DEF Rerun!NewSim, NewSim, Rerun!NoIndex, NoIndex,
     Rerun!Outcomes, Outcomes, Rerun!Contacts, Contacts,
     Rerun!Terminal, Terminal, Rerun!ControlBoundary,
     ControlBoundary
<1>2. \A s : /\ Rerun!Satisfy(s) = Satisfy(s)
             /\ Rerun!Fail(s) = Fail(s)
  BY DEF Rerun!Satisfy, Satisfy, Rerun!Fail, Fail
<1>3. \A s : /\ Rerun!PhysicsStep(s) = PhysicsStep(s)
             /\ Rerun!ApplyMaxTime(s) = ApplyMaxTime(s)
  BY DEF Rerun!PhysicsStep, PhysicsStep, Rerun!ApplyMaxTime,
     ApplyMaxTime
<1>4. \A g, s, c : Rerun!ApplyContact(g, s, c) = ApplyContact(g, s, c)
  BY DEF Rerun!ApplyContact, ApplyContact, Rerun!TouchdownVerdict,
     TouchdownVerdict
<1>5. \A s, i, o : /\ Rerun!ContractPass(s, i, o) <=> ContractPass(s, i, o)
                   /\ Rerun!Resolved(s, i, o) <=> Resolved(s, i, o)
  BY DEF Rerun!ContractPass, ContractPass, Rerun!Resolved,
     Resolved, Rerun!WindowOpen, WindowOpen
<1>6. \A g, s : Rerun!JudgedWaypoint(g, s) = JudgedWaypoint(g, s)
  BY <1>1 DEF Rerun!JudgedWaypoint, JudgedWaypoint, Rerun!Indices,
     Indices, Rerun!NoIndex, NoIndex
<1>7. \A g, s, i, o :
        Rerun!WaypointProgress(g, s, i, o) = WaypointProgress(g, s, i, o)
  BY <1>2, <1>5 DEF Rerun!WaypointProgress, WaypointProgress,
     Rerun!NoIndex, NoIndex
<1>8. \A g, s, o : Rerun!ApplyProgress(g, s, o) = ApplyProgress(g, s, o)
  BY <1>2, <1>6, <1>7 DEF Rerun!ApplyProgress, ApplyProgress,
     Rerun!NoIndex, NoIndex
<1>9. \A g, s, o : Rerun!StepSim(g, s, o) = StepSim(g, s, o)
  BY <1>1, <1>3, <1>4, <1>8 DEF Rerun!StepSim, StepSim
<1>10. \A g, s, t : Rerun!ProgressEvents(g, s, t) = ProgressEvents(g, s, t)
  BY <1>1 DEF Rerun!ProgressEvents, ProgressEvents
<1>11. \A g, s, o : Rerun!StepEvents(g, s, o) = StepEvents(g, s, o)
  BY <1>1, <1>3, <1>4, <1>8, <1>10 DEF Rerun!StepEvents, StepEvents
<1> QED BY <1>1, <1>9, <1>11

----------------------------------------------------------------------------
(* The record.                                                              *)

\* An outcome of the plant is a number at every step: it is not the lost one.
LEMMA OutcomesAreNotLost == Lost \notin Outcomes
BY DEF Lost, Outcomes, Contacts

\* What the mission can tell apart are outcomes.
LEMMA DistinctOutcomes == ASSUME NEW s PROVE Distinct(s) \subseteq Outcomes
<1> SUFFICES ASSUME NEW e \in {Effect(s, o) : o \in Outcomes}
             PROVE  (CHOOSE o \in Outcomes : Effect(s, o) = e) \in Outcomes
  BY DEF Distinct
<1>1. \E o \in Outcomes : Effect(s, o) = e
  OBVIOUS
<1> QED BY <1>1

\* Sequences one longer.
LEMMA OneMore ==
  ASSUME NEW S, NEW q \in Seq(S), NEW x \in S
  PROVE  /\ Append(q, x) \in Seq(S) /\ Len(Append(q, x)) = Len(q) + 1
         /\ \A i \in 1..Len(q) : Append(q, x)[i] = q[i]
         /\ Append(q, x)[Len(q) + 1] = x
OBVIOUS

\* Everything starts in its type.
LEMMA InitLogInv == Init => LogInv
<1> SUFFICES ASSUME Init PROVE LogInv
  OBVIOUS
<1>0. /\ goal \in GoalChoices /\ phase = "initial" /\ sim = NewSim /\ updates = 0
      /\ actions = <<>> /\ stop = "None" /\ failure = Record!NoFailure
  BY SameRecordPlant DEF Init, Record!Init
<1>1. /\ world = <<>> /\ log = NoLog /\ used = 0 /\ rphase = "initial" /\ rsim = NewSim
      /\ rupdates = 0 /\ ractions = <<>> /\ rstop = stop /\ rfailure = failure /\ settled = FALSE
  BY DEF Init
<1>2. NewSim \in SimStates /\ NewSim.step = 0 /\ NewSim.held = Idle
  BY PlantAssumption DEF NewSim, SimStates, EndReasons, MissionOutcomes, PhysicalOutcomes, NoIndex
<1>3. goal \in Goals
  BY <1>0, ReplayAssumption
<1>4. ASSUME NEW S PROVE <<>> \in Seq(S) /\ Len(<<>>) = 0
  OBVIOUS
<1>5. RecordTypes
  BY <1>0, <1>1, <1>2, <1>3, <1>4 DEF RecordTypes
<1>6. 0 * Interval = 0
  BY PlantAssumption, Z3
<1>7. ReplayTypes /\ ReplayClock
  BY <1>0, <1>1, <1>2, <1>4 DEF ReplayTypes, ReplayClock, Rerun!NoFailure, Record!NoFailure
<1>8. Rerun!ActionLogIsFlight
  BY <1>0, <1>1, <1>2, <1>4, <1>6 DEF Rerun!ActionLogIsFlight
<1>9. LogFollowed /\ NothingLeft
  BY <1>0, <1>1 DEF LogFollowed, NothingLeft, Record!NoFailure
<1> QED BY <1>5, <1>7, <1>8, <1>9 DEF LogInv

\* A rejection of the record names its stage, and is a stop.
LEMMA RecordRejects ==
  ASSUME NEW stage, NEW v, NEW k, Record!Reject(stage, v, k)
  PROVE  phase' = "done" /\ stop' = v /\ failure' = [stage |-> stage, disposition |-> v, step |-> k]
BY DEF Record!Reject

\* Asking the initial guard records nothing.
LEMMA RecordBeginsInType ==
  ASSUME RecordTypes, log = NoLog, UNCHANGED <<log, world>>, NEW v, Record!InitialGuard(v)
  PROVE  RecordTypes'
<1>1. phase = "initial" /\ UNCHANGED <<goal, sim, updates, actions>>
  BY DEF Record!InitialGuard, Record!ctx
<1>2. phase' = "done" \/ (phase' = "command" /\ UNCHANGED <<stop, failure>>)
  BY DEF Record!InitialGuard, Record!Finish, Record!Reject
<1> QED BY <1>1, <1>2 DEF RecordTypes, Record!NoFailure

\* A command that is issued is one more entry.
LEMMA RecordIssuesInType ==
  ASSUME RecordTypes, log = NoLog, UNCHANGED <<log, world>>,
         NEW c \in Commands, Record!IssueUpdate(c)
  PROVE  RecordTypes'
<1> DEFINE entry == [step |-> sim.step, index |-> updates, command |-> c]
<1>1. /\ phase = "command" /\ phase' = "transition" /\ sim' = [sim EXCEPT !.held = c]
      /\ actions' = Append(actions, entry) /\ updates' = updates + 1
      /\ UNCHANGED <<goal, stop, failure>>
  BY DEF Record!IssueUpdate, Record!ctx
<1>2. sim' \in SimStates /\ sim'.step = sim.step /\ sim.step \in Nat
  BY <1>1 DEF RecordTypes, SimStates
<1>3. entry \in Entries
  BY <1>2 DEF RecordTypes, Entries
<1>4. actions' \in Seq(Entries) /\ Len(actions') = updates'
  <2>1. actions \in Seq(Entries) /\ Len(actions) = updates
    BY DEF RecordTypes
  <2> HIDE DEF entry
  <2> QED BY <1>1, <1>3, <2>1, OneMore
<1>5. updates' \in Nat
  BY <1>1 DEF RecordTypes
<1> QED BY <1>1, <1>2, <1>4, <1>5 DEF RecordTypes, Record!NoFailure

\* A record that stops where it stands has recorded what it had.
LEMMA RecordRejectsInType ==
  ASSUME RecordTypes, log = NoLog, log' = log, NEW stage, NEW v, NEW k, Record!Reject(stage, v, k),
         UNCHANGED <<goal, sim, updates, actions>>, world' \in Seq(Outcomes \cup {Lost})
  PROVE  RecordTypes'
BY RecordRejects DEF RecordTypes

\* A step flown is one more step of the world.
LEMMA RecordFliesInType ==
  ASSUME RecordTypes, log = NoLog, log' = log,
         NEW o \in Outcomes, NEW v, Record!Transition(o, v), world' = Append(world, o)
  PROVE  RecordTypes'
<1> DEFINE flown == StepSim(goal, sim, o)
<1>1. phase = "transition" /\ sim' = flown /\ UNCHANGED <<goal, updates, actions>>
  BY SameRecordPlant DEF Record!Transition, Record!ctx
<1>2. phase' = "done" \/ UNCHANGED <<stop, failure>>
  BY DEF Record!Transition, Record!Reject, Record!Finish
<1>3. flown \in SimStates /\ flown.step = sim.step + 1
  BY StepSimKeepsType DEF RecordTypes
<1>4. world' \in Seq(Outcomes \cup {Lost}) /\ Len(world') = Len(world) + 1
  <2>1. ASSUME NEW S, NEW q \in Seq(S), NEW x \in S
        PROVE  Append(q, x) \in Seq(S) /\ Len(Append(q, x)) = Len(q) + 1
    BY <2>1, OneMore
  <2>2. world \in Seq(Outcomes \cup {Lost}) /\ o \in Outcomes \cup {Lost}
    BY DEF RecordTypes
  <2> HIDE DEF flown
  <2> QED BY <2>1, <2>2
<1> HIDE DEF flown
<1>5. phase' # "done" => failure' = Record!NoFailure /\ stop' = "None" /\ Len(world') = sim'.step
  BY <1>1, <1>2, <1>3, <1>4 DEF RecordTypes
<1>6. Record!NoFailure' = Record!NoFailure
  BY DEF Record!NoFailure
<1> QED BY <1>1, <1>3, <1>4, <1>5, <1>6 DEF RecordTypes

\* Recording keeps the record's types.
LEMMA RecordStepInType ==
  ASSUME RecordTypes, RecordStep
  PROVE  RecordTypes' /\ log = NoLog
<1>1. UNCHANGED <<log, goal>>
  BY DEF RecordStep, Recording, Record!InitialGuard, Record!IssueUpdate, Record!RefuseUpdate,
     Record!RejectTransition, Record!LoseTransition, Record!Transition, Record!ctx
<1>2. phase # "done"
  BY DEF RecordStep, Record!InitialGuard, Record!IssueUpdate, Record!RefuseUpdate,
     Record!RejectTransition, Record!LoseTransition
<1>3. log = NoLog
  BY <1>2 DEF RecordTypes
<1>4. world \in Seq(Outcomes \cup {Lost})
  BY DEF RecordTypes
<1>5. CASE \E v \in Record!Verdicts : Record!InitialGuard(v) /\ UNCHANGED world
  BY <1>1, <1>3, <1>5, RecordBeginsInType
<1>6. CASE \E c \in Commands : Record!IssueUpdate(c) /\ UNCHANGED world
  BY <1>1, <1>3, <1>6, RecordIssuesInType
<1>7. CASE Record!RefuseUpdate("CommandSelection") /\ UNCHANGED world
  BY <1>1, <1>3, <1>4, <1>7, RecordRejectsInType DEF Record!RefuseUpdate
<1>8. CASE \E v \in Record!Dispositions : Record!RejectTransition(v) /\ UNCHANGED world
  BY <1>1, <1>3, <1>4, <1>8, RecordRejectsInType DEF Record!RejectTransition
<1>9. CASE Record!LoseTransition /\ world' = Append(world, Lost)
  <2>1. world' \in Seq(Outcomes \cup {Lost})
    <3>1. Lost \in Outcomes \cup {Lost}
      OBVIOUS
    <3> QED BY <1>4, <1>9, <3>1, OneMore
  <2> QED BY <1>1, <1>3, <1>9, <2>1, RecordRejectsInType DEF Record!LoseTransition
<1>10. CASE \E o \in Distinct(sim), v \in Record!Verdicts :
              Record!Transition(o, v) /\ world' = Append(world, o)
  BY <1>1, <1>3, <1>10, RecordFliesInType, DistinctOutcomes
<1> QED BY <1>3, <1>5, <1>6, <1>7, <1>8, <1>9, <1>10 DEF RecordStep

----------------------------------------------------------------------------
(* The log that is presented.                                               *)

\* Whatever is done to the saved log on its way, its entries are entries.
LEMMA PresentedLogsAreLogs ==
  ASSUME RecordTypes, NEW l \in PresentedLogs
  PROVE  l \in Seq(SavedEntries)
<1>1. SavedLog \in Seq(SavedEntries)
  <2>1. actions \in Seq(Entries)
    BY DEF RecordTypes
  <2>2. ASSUME NEW S, NEW q \in Seq(S), NEW i \in 1..Len(q) PROVE q[i] \in S
    OBVIOUS
  <2>3. ASSUME NEW i \in 1..Len(actions) PROVE Sound(actions[i]) \in SavedEntries
    <3>1. actions[i] \in Entries
      BY <2>1, <2>2
    <3>2. ASSUME NEW e \in Entries PROVE Sound(e) \in SavedEntries
      BY DEF Sound, Entries, SavedEntries
    <3> QED BY <3>1, <3>2
  <2>4. ASSUME NEW S, NEW n \in Nat, NEW f \in [1..n -> S] PROVE f \in Seq(S)
    OBVIOUS
  <2>5. SavedLog \in [1..Len(actions) -> SavedEntries] /\ Len(actions) \in Nat
    BY <2>1, <2>3 DEF SavedLog
  <2> QED BY <2>4, <2>5
<1>2. ASSUME NEW n \in 0..Len(SavedLog) PROVE SubSeq(SavedLog, 1, n) \in Seq(SavedEntries)
  <2>1. ASSUME NEW S, NEW q \in Seq(S), NEW m \in 0..Len(q) PROVE SubSeq(q, 1, m) \in Seq(S)
    OBVIOUS
  <2> QED BY <1>1, <2>1
<1>3. Append(SavedLog, Extra(SavedLog)) \in Seq(SavedEntries)
  <2>1. Len(SavedLog) \in Nat
    BY <1>1
  <2>2. Len(SavedLog) * Interval \in Nat
    <3>1. ASSUME NEW a \in Nat, NEW b \in Nat PROVE a * b \in Nat
      BY <3>1, Z3
    <3> QED BY <2>1, <3>1, PlantAssumption
  <2>3. Extra(SavedLog) \in SavedEntries
    BY <2>1, <2>2, PlantAssumption DEF Extra, SavedEntries
  <2> QED BY <1>1, <2>3, OneMore
<1>4. ASSUME NEW i \in 1..Len(SavedLog), NEW q \in Altered(SavedLog, i) PROVE q \in Seq(SavedEntries)
  <2>1. SavedLog[i] \in SavedEntries
    BY <1>1
  <2>2. ASSUME NEW e \in SavedEntries PROVE [SavedLog EXCEPT ![i] = e] \in Seq(SavedEntries)
    <3>1. ASSUME NEW S, NEW p \in Seq(S), NEW j \in 1..Len(p), NEW x \in S
          PROVE  [p EXCEPT ![j] = x] \in Seq(S)
      OBVIOUS
    <3> QED BY <1>1, <3>1
  <2>3. /\ \A c \in Commands : [SavedLog[i] EXCEPT !.command = c] \in SavedEntries
        /\ [SavedLog[i] EXCEPT !.step = @ + 1] \in SavedEntries
        /\ [SavedLog[i] EXCEPT !.index = @ + 1] \in SavedEntries
        /\ [SavedLog[i] EXCEPT !.sound = FALSE] \in SavedEntries
    <3>1. ASSUME NEW e \in SavedEntries
          PROVE  /\ \A c \in Commands : [e EXCEPT !.command = c] \in SavedEntries
                 /\ [e EXCEPT !.step = @ + 1] \in SavedEntries
                 /\ [e EXCEPT !.index = @ + 1] \in SavedEntries
                 /\ [e EXCEPT !.sound = FALSE] \in SavedEntries
      <4>1. \A c \in Commands : [e EXCEPT !.command = c] \in SavedEntries
        BY DEF SavedEntries
      <4>2. [e EXCEPT !.step = @ + 1] \in SavedEntries
        BY DEF SavedEntries
      <4>3. [e EXCEPT !.index = @ + 1] \in SavedEntries
        BY DEF SavedEntries
      <4>4. [e EXCEPT !.sound = FALSE] \in SavedEntries
        BY DEF SavedEntries
      <4> QED BY <4>1, <4>2, <4>3, <4>4
    <3> QED BY <2>1, <3>1
  <2>4. \E e \in SavedEntries : q = [SavedLog EXCEPT ![i] = e]
    <3>1. CASE \E c \in Commands : q = [SavedLog EXCEPT ![i].command = c]
      <4>1. PICK c \in Commands : q = [SavedLog EXCEPT ![i].command = c]
        BY <3>1
      <4>2. q = [SavedLog EXCEPT ![i] = [SavedLog[i] EXCEPT !.command = c]]
        BY <4>1
      <4> QED BY <2>3, <4>2
    <3>2. CASE q = [SavedLog EXCEPT ![i].step = @ + 1]
      <4>1. q = [SavedLog EXCEPT ![i] = [SavedLog[i] EXCEPT !.step = @ + 1]]
        BY <3>2
      <4> QED BY <2>3, <4>1
    <3>3. CASE q = [SavedLog EXCEPT ![i].index = @ + 1]
      <4>1. q = [SavedLog EXCEPT ![i] = [SavedLog[i] EXCEPT !.index = @ + 1]]
        BY <3>3
      <4> QED BY <2>3, <4>1
    <3>4. CASE q = [SavedLog EXCEPT ![i].sound = FALSE]
      <4>1. q = [SavedLog EXCEPT ![i] = [SavedLog[i] EXCEPT !.sound = FALSE]]
        BY <3>4
      <4> QED BY <2>3, <4>1
    <3> QED BY <3>1, <3>2, <3>3, <3>4 DEF Altered
  <2> QED BY <2>2, <2>4
<1> QED BY <1>2, <1>3, <1>4 DEF PresentedLogs

----------------------------------------------------------------------------
(* The replay.                                                              *)

\* The log that arrives is a log, and nothing of it is used.
LEMMA PresentKeepsLogInv == ASSUME LogInv, Present PROVE LogInv'
<1>1. /\ phase = "done" /\ log = NoLog /\ log' \in PresentedLogs
      /\ UNCHANGED <<goal, recordVars, world, used, rphase, rsim, rupdates, ractions, rstop,
                     rfailure, settled>>
  BY DEF Present
<1>2. log' \in Seq(SavedEntries)
  BY <1>1, PresentedLogsAreLogs DEF LogInv
<1>3. /\ rphase = "initial" /\ rupdates = 0 /\ ~settled
  BY <1>1 DEF LogInv, ReplayTypes, ReplayClock
<1>4. RecordTypes'
  BY <1>1 DEF LogInv, RecordTypes, recordVars, Record!NoFailure
<1>5. ReplayTypes' /\ ReplayClock'
  BY <1>1, <1>2, <1>3 DEF LogInv, ReplayTypes, ReplayClock, Rerun!NoFailure
<1>6. Rerun!ActionLogIsFlight'
  BY <1>1 DEF LogInv, Rerun!ActionLogIsFlight
<1>7. LogFollowed'
  BY <1>1, <1>2, <1>3 DEF LogInv, LogFollowed
<1>8. NothingLeft'
  BY <1>1, <1>3 DEF LogInv, NothingLeft
<1> QED BY <1>4, <1>5, <1>6, <1>7, <1>8 DEF LogInv

\* While the replay runs, the record is what it was.
LEMMA ReplayingKeepsRecord == ASSUME RecordTypes, Replaying, goal' = goal PROVE RecordTypes'
BY DEF Replaying, recordVars, RecordTypes, Record!NoFailure

\* A replay that stops where it stands has flown what it had.
LEMMA ReplayRejectsKeepsLogInv ==
  ASSUME LogInv, Replaying, goal' = goal, used' = used, rphase # "done",
         NEW stage, NEW v, NEW k, Rerun!Reject(stage, v, k),
         UNCHANGED <<rsim, rupdates, ractions>>
  PROVE  LogInv'
<1>1. rphase' = "done" /\ rstop' = v /\ rfailure' = [stage |-> stage, disposition |-> v, step |-> k]
  BY DEF Rerun!Reject
<1>2. UNCHANGED <<log, settled>> /\ ~settled /\ log # NoLog
  BY DEF Replaying, LogInv, ReplayTypes
<1>3. RecordTypes'
  BY ReplayingKeepsRecord DEF LogInv
<1>4. ReplayTypes' /\ ReplayClock'
  BY <1>1, <1>2 DEF LogInv, ReplayTypes, ReplayClock, Rerun!NoFailure
<1>5. Rerun!ActionLogIsFlight' /\ LogFollowed' /\ NothingLeft'
  BY <1>1, <1>2 DEF LogInv, Rerun!ActionLogIsFlight, LogFollowed, NothingLeft
<1> QED BY <1>3, <1>4, <1>5 DEF LogInv

\* The initial guard of the replay lets it begin, or stops it.
LEMMA ReplayBeginsKeepsLogInv ==
  ASSUME LogInv, Replaying, used' = used, NEW v, Rerun!InitialGuard(v)
  PROVE  LogInv'
<1>1. rphase = "initial" /\ UNCHANGED <<goal, rsim, rupdates, ractions>>
  BY DEF Rerun!InitialGuard, Rerun!ctx
<1>2. CASE v # "Ok"
  BY <1>1, <1>2, ReplayRejectsKeepsLogInv DEF Rerun!InitialGuard
<1>3. CASE v = "Ok"
  <2>1. rphase' \in {"done", "command"} /\ rfailure' = rfailure
    BY <1>3 DEF Rerun!InitialGuard, Rerun!Finish
  <2>2. UNCHANGED <<log, settled>> /\ ~settled /\ log # NoLog /\ rfailure = Rerun!NoFailure
    BY <1>1 DEF Replaying, LogInv, ReplayTypes
  <2>3. RecordTypes'
    BY <1>1, ReplayingKeepsRecord DEF LogInv
  <2>4. rsim = NewSim /\ rupdates = 0 /\ 0 * Interval = 0 /\ NewSim.step = 0
    <3>1. 0 * Interval = 0
      BY PlantAssumption, Z3
    <3> QED BY <1>1, <3>1 DEF LogInv, ReplayClock, NewSim
  <2>5. ReplayTypes' /\ ReplayClock'
    BY <1>1, <2>1, <2>2, <2>4 DEF LogInv, ReplayTypes, ReplayClock, Rerun!NoFailure
  <2>6. Rerun!ActionLogIsFlight' /\ LogFollowed'
    BY <1>1, <2>2 DEF LogInv, Rerun!ActionLogIsFlight, LogFollowed
  <2>7. NothingLeft'
    BY <2>1, <2>2 DEF NothingLeft, Rerun!NoFailure
  <2> QED BY <2>3, <2>5, <2>6, <2>7 DEF LogInv
<1> QED BY <1>2, <1>3

\* The entry that is due is used, and is the entry flown.
LEMMA EntryUsedKeepsLogInv ==
  ASSUME LogInv, Replaying, Admissible(used + 1), Rerun!IssueUpdate(log[used + 1].command),
         used' = used + 1
  PROVE  LogInv'
<1> DEFINE c == log[used + 1].command
           entry == [step |-> rsim.step, index |-> rupdates, command |-> c]
<1>1. /\ rphase = "command" /\ rphase' = "transition" /\ rsim' = [rsim EXCEPT !.held = c]
      /\ rupdates' = rupdates + 1 /\ ractions' = Append(ractions, entry)
      /\ UNCHANGED <<goal, rstop, rfailure, log, settled>>
  BY DEF Rerun!IssueUpdate, Rerun!ctx, Replaying
<1>2. /\ rsim \in SimStates /\ rsim.step \in Nat /\ rupdates \in Nat /\ ractions \in Seq(Entries)
      /\ Len(ractions) = rupdates /\ used = rupdates
      /\ log # NoLog /\ log \in Seq(SavedEntries) /\ ~settled /\ rfailure = Rerun!NoFailure
  BY <1>1 DEF LogInv, ReplayTypes, LogFollowed, Rerun!ActionLogIsFlight, Replaying, SimStates
<1>3. /\ used + 1 \in 1..Len(log) /\ log[used + 1].sound /\ log[used + 1].step = rsim.step
      /\ log[used + 1].index = used
  BY <1>2 DEF Admissible
<1>4. log[used + 1] \in SavedEntries
  BY <1>2, <1>3
<1>5. c \in Commands /\ entry \in Entries
  BY <1>2, <1>4 DEF SavedEntries, Entries
<1>6. rsim' \in SimStates /\ rsim'.step = rsim.step /\ rsim'.held = c
  BY <1>1, <1>2, <1>5 DEF SimStates
<1>7. rsim.step = rupdates * Interval
  BY <1>1 DEF LogInv, ReplayClock
<1>8. entry = [step |-> log[used + 1].step, index |-> log[used + 1].index, command |-> c]
  BY <1>2, <1>3
<1>9. /\ ractions' \in Seq(Entries) /\ Len(ractions') = rupdates + 1
      /\ \A i \in 1..rupdates : ractions'[i] = ractions[i]
      /\ ractions'[rupdates + 1] = entry
  <2> HIDE DEF entry
  <2> QED BY <1>1, <1>2, <1>5, OneMore
<1>10. /\ rupdates * Interval \in Nat /\ (rupdates + 1) * Interval = rupdates * Interval + Interval
       /\ (rupdates + 1 - 1) * Interval = rupdates * Interval /\ Interval \in Nat \ {0}
  BY <1>2, NextMultiple, PlantAssumption
<1>11. RecordTypes'
  BY <1>1, ReplayingKeepsRecord DEF LogInv
<1>12. ReplayTypes'
  BY <1>1, <1>2, <1>6, <1>9 DEF ReplayTypes, Rerun!NoFailure
<1>13. ReplayClock'
  <2>1. rsim'.step \in ((rupdates' - 1) * Interval)..(rupdates' * Interval - 1)
    <3>1. (rupdates' - 1) * Interval = rupdates * Interval
      <4>1. rupdates' - 1 = rupdates
        BY <1>1, <1>2
      <4> QED BY <4>1
    <3>2. rupdates' * Interval = rupdates * Interval + Interval
      BY <1>1, <1>10
    <3>3. ASSUME NEW x \in Nat, NEW n \in Nat \ {0} PROVE x \in x..(x + n - 1)
      BY <3>3
    <3> QED BY <1>6, <1>7, <1>10, <3>1, <3>2, <3>3
  <2> QED BY <1>1, <2>1 DEF ReplayClock
<1>14. Rerun!ActionLogIsFlight'
  <2>1. \A i \in 1..(rupdates + 1) :
          ractions'[i].step = (i - 1) * Interval /\ ractions'[i].index = i - 1
    <3> SUFFICES ASSUME NEW i \in 1..(rupdates + 1)
                 PROVE  ractions'[i].step = (i - 1) * Interval /\ ractions'[i].index = i - 1
      OBVIOUS
    <3>1. CASE i \in 1..rupdates
      BY <1>9, <3>1 DEF LogInv, Rerun!ActionLogIsFlight
    <3>2. CASE i = rupdates + 1
      <4>1. i - 1 = rupdates
        BY <1>2, <3>2
      <4> QED BY <1>7, <1>9, <3>2, <4>1
    <3> QED BY <1>2, <3>1, <3>2
  <2>2. rsim'.step <= (rupdates + 1) * Interval
    BY <1>2, <1>6, <1>7, <1>10
  <2>3. rsim'.held = ractions'[rupdates + 1].command /\ rupdates + 1 # 0
    BY <1>2, <1>6, <1>9
  <2> QED BY <1>1, <1>9, <2>1, <2>2, <2>3 DEF Rerun!ActionLogIsFlight
<1>15. LogFollowed'
  <2> DEFINE Same(a, i) ==
        /\ log[i].sound
        /\ a[i] = [step |-> log[i].step, index |-> log[i].index, command |-> log[i].command]
  <2>1. \A i \in 1..rupdates : Same(ractions', i)
    BY <1>9 DEF LogInv, LogFollowed
  <2>2. Same(ractions', rupdates + 1)
    BY <1>2, <1>3, <1>8, <1>9
  <2>3. \A i \in 1..(rupdates + 1) : Same(ractions', i)
    <3> HIDE DEF Same
    <3>1. \A i \in 1..(rupdates + 1) : i \in 1..rupdates \/ i = rupdates + 1
      BY <1>2
    <3> QED BY <2>1, <2>2, <3>1
  <2>4. rupdates + 1 <= Len(log)
    BY <1>2, <1>3
  <2> QED BY <1>1, <1>2, <2>3, <2>4 DEF LogFollowed
<1>16. NothingLeft'
  BY <1>1, <1>2 DEF NothingLeft, Rerun!NoFailure
<1> QED BY <1>11, <1>12, <1>13, <1>14, <1>15, <1>16 DEF LogInv

\* A step flown stays inside the interval of the entry it is flown under.
LEMMA ReplayFliesKeepsLogInv ==
  ASSUME LogInv, Replaying, used' = used, NEW o \in Outcomes, NEW v, Rerun!Transition(o, v)
  PROVE  LogInv'
<1> DEFINE flown == StepSim(goal, rsim, o)
<1>1. /\ rphase = "transition" /\ rsim' = flown
      /\ UNCHANGED <<goal, rupdates, ractions, log, settled>>
  BY SameRerunPlant DEF Rerun!Transition, Rerun!ctx, Replaying
<1>2. /\ goal \in Goals /\ rsim \in SimStates /\ rsim.step \in Nat /\ rupdates \in Nat
      /\ ~settled /\ log # NoLog /\ rfailure = Rerun!NoFailure
  BY <1>1 DEF LogInv, RecordTypes, ReplayTypes, Replaying, SimStates
<1>3. flown \in SimStates /\ flown.step = rsim.step + 1 /\ flown.held = rsim.held
  BY <1>2, StepSimKeepsType
<1>4. rsim.step \in ((rupdates - 1) * Interval)..(rupdates * Interval - 1)
  BY <1>1 DEF LogInv, ReplayClock
<1>5. \/ rphase' = "done" /\ (rfailure' = rfailure \/ rfailure'.disposition = rstop')
      \/ /\ rphase' = IF ControlBoundary(flown.step) THEN "command" ELSE "transition"
         /\ UNCHANGED <<rstop, rfailure>>
  BY SameRerunPlant DEF Rerun!Transition, Rerun!Reject, Rerun!Finish
<1> HIDE DEF flown
<1>6. RecordTypes'
  BY <1>1, ReplayingKeepsRecord DEF LogInv
<1>7. ReplayTypes'
  BY <1>1, <1>2, <1>3, <1>5 DEF LogInv, ReplayTypes, Rerun!NoFailure
<1>8. ReplayClock'
  <2>1. /\ ControlBoundary(flown.step) => flown.step = rupdates * Interval
        /\ ~ControlBoundary(flown.step) =>
             flown.step \in ((rupdates - 1) * Interval)..(rupdates * Interval - 1)
    BY <1>2, <1>3, <1>4, BoundaryEndsInterval
  <2> QED BY <1>1, <1>5, <2>1 DEF ReplayClock
<1>9. Rerun!ActionLogIsFlight'
  <2>1. rupdates * Interval \in Nat
    BY <1>2, NextMultiple
  <2>2. flown.step <= rupdates * Interval
    BY <1>2, <1>3, <1>4, <2>1
  <2> QED BY <1>1, <1>3, <2>2 DEF LogInv, Rerun!ActionLogIsFlight
<1>10. LogFollowed'
  BY <1>1 DEF LogInv, LogFollowed
<1>11. NothingLeft'
  BY <1>1, <1>2, <1>5 DEF NothingLeft, Rerun!NoFailure
<1> QED BY <1>6, <1>7, <1>8, <1>9, <1>10, <1>11 DEF LogInv

\* The world a replay sees shows it outcomes, or is lost.
LEMMA ReplayOutcomesAreOutcomes ==
  ASSUME LogInv
  PROVE  ReplayOutcomes \subseteq Outcomes \cup {Lost}
<1>1. ASSUME rsim.step + 1 <= Len(world) PROVE world[rsim.step + 1] \in Outcomes \cup {Lost}
  <2>1. rsim.step \in Nat /\ world \in Seq(Outcomes \cup {Lost})
    BY DEF LogInv, RecordTypes, ReplayTypes, SimStates
  <2>2. ASSUME NEW S, NEW q \in Seq(S), NEW k \in Nat, k + 1 <= Len(q) PROVE q[k + 1] \in S
    BY <2>2
  <2> QED BY <1>1, <2>1, <2>2
<1>2. Distinct(rsim) \subseteq Outcomes
  BY DistinctOutcomes
<1> QED BY <1>1, <1>2 DEF ReplayOutcomes

\* Settling finds every entry used, or leaves the replay invalid.
LEMMA SettleKeepsLogInv == ASSUME LogInv, Settle PROVE LogInv'
<1>1. /\ log # NoLog /\ rphase = "done" /\ settled'
      /\ UNCHANGED <<goal, recordVars, world, log, used, rphase, rsim, rupdates, ractions>>
  BY DEF Settle
<1>2. RecordTypes' /\ ReplayTypes'
  BY <1>1 DEF LogInv, RecordTypes, ReplayTypes, recordVars, Record!NoFailure, Rerun!NoFailure
<1>3. ReplayClock' /\ Rerun!ActionLogIsFlight' /\ LogFollowed'
  BY <1>1 DEF LogInv, ReplayClock, Rerun!ActionLogIsFlight, LogFollowed
<1>4. NothingLeft'
  BY <1>1 DEF LogInv, NothingLeft, Settle
<1> QED BY <1>2, <1>3, <1>4 DEF LogInv

\* The recording leaves the replay where it has not begun.
LEMMA RecordingKeepsLogInv == ASSUME LogInv, RecordStep PROVE LogInv'
<1>1. RecordTypes' /\ log = NoLog
  BY RecordStepInType DEF LogInv
<1>2. UNCHANGED <<log, used, replayVars, settled>>
  BY DEF RecordStep, Recording
<1>3. UNCHANGED <<rphase, rsim, rupdates, ractions, rstop, rfailure>>
  BY <1>2 DEF replayVars
<1>4. ReplayTypes' /\ ReplayClock'
  BY <1>2, <1>3 DEF LogInv, ReplayTypes, ReplayClock, Rerun!NoFailure
<1>5. Rerun!ActionLogIsFlight' /\ LogFollowed' /\ NothingLeft'
  BY <1>2, <1>3 DEF LogInv, Rerun!ActionLogIsFlight, LogFollowed, NothingLeft
<1> QED BY <1>1, <1>4, <1>5 DEF LogInv

\* Every step keeps the invariant.
LEMMA StepKeepsLogInv == LogInv /\ [Next]_vars => LogInv'
<1> SUFFICES ASSUME LogInv, [Next]_vars PROVE LogInv'
  OBVIOUS
<1>1. CASE RecordStep
  BY <1>1, RecordingKeepsLogInv
<1>2. CASE Present
  BY <1>2, PresentKeepsLogInv
<1>3. CASE ReplayCommand
  <2>1. CASE Admissible(used + 1)
    BY <1>3, <2>1, EntryUsedKeepsLogInv DEF ReplayCommand
  <2>2. CASE ~Admissible(used + 1)
    BY <1>3, <2>2, ReplayRejectsKeepsLogInv DEF ReplayCommand, Rerun!RefuseUpdate, Rerun!ctx
  <2> QED BY <2>1, <2>2
<1>4. CASE ReplayStep
  <2>1. Replaying /\ used' = used
    BY <1>4 DEF ReplayStep
  <2>2. CASE \E v \in ReplayVerdicts : Rerun!InitialGuard(v)
    BY <2>1, <2>2, ReplayBeginsKeepsLogInv
  <2>3. CASE \E v \in ReplayVerdicts \ {"Ok"} : Rerun!RejectTransition(v)
    BY <2>1, <2>3, ReplayRejectsKeepsLogInv DEF Rerun!RejectTransition, Rerun!ctx
  <2>4. CASE /\ rphase = "transition"
             /\ \E o \in ReplayOutcomes :
                  IF o = Lost THEN Rerun!LoseTransition
                  ELSE \E v \in ReplayVerdicts : Rerun!Transition(o, v)
    <3>1. PICK o \in ReplayOutcomes :
            IF o = Lost THEN Rerun!LoseTransition
            ELSE \E v \in ReplayVerdicts : Rerun!Transition(o, v)
      BY <2>4
    <3>2. CASE o = Lost
      BY <2>1, <3>1, <3>2, ReplayRejectsKeepsLogInv DEF Rerun!LoseTransition, Rerun!ctx
    <3>3. CASE o # Lost
      BY <2>1, <3>1, <3>3, ReplayOutcomesAreOutcomes, ReplayFliesKeepsLogInv
    <3> QED BY <3>2, <3>3
  <2> QED BY <1>4, <2>2, <2>3, <2>4 DEF ReplayStep
<1>5. CASE Settle
  BY <1>5, SettleKeepsLogInv
<1>6. CASE UNCHANGED vars
  BY <1>6 DEF vars, recordVars, replayVars, LogInv, RecordTypes, ReplayTypes, ReplayClock,
     Rerun!ActionLogIsFlight, LogFollowed, NothingLeft, Record!NoFailure, Rerun!NoFailure
<1> QED BY <1>1, <1>2, <1>3, <1>4, <1>5, <1>6 DEF Next, Returned

\* The invariant holds of every record and its replay.
LEMMA LogInvariance == Spec => []LogInv
BY InitLogInv, StepKeepsLogInv, PTL DEF Spec

\* Whatever has happened to a log on its way, and whatever guard and limits it is flown under: a
\* replay flies the good prefix of it, entry by entry, and one that does not come back invalid
\* has used all of it (replay_simulation_bounded, validate_bounded_action).
THEOREM LogsAreFlown == Spec => []AcceptedLogIsFlown
<1>1. LogInv => AcceptedLogIsFlown
  <2> SUFFICES ASSUME LogInv PROVE AcceptedLogIsFlown
    OBVIOUS
  <2>1. used = rupdates /\ Len(ractions) = rupdates
    BY DEF LogInv, LogFollowed, Rerun!ActionLogIsFlight
  <2>2. \A i \in 1..used : /\ log[i].sound
                           /\ ractions[i] = [step |-> log[i].step, index |-> log[i].index,
                                             command |-> log[i].command]
    BY <2>1 DEF LogInv, LogFollowed
  <2>3. GoodPrefixKept
    BY <2>1, <2>2 DEF LogInv, GoodPrefixKept
  <2>4. settled /\ rstop # "ExecutionInvalid" => used = Len(log)
    BY DEF LogInv, NothingLeft
  <2> QED BY <2>2, <2>3, <2>4 DEF AcceptedLogIsFlown
<1> QED BY <1>1, LogInvariance, PTL

----------------------------------------------------------------------------
(* The trail of a flight.  A faithful replay is a matter of the whole       *)
(* flight, of which the record keeps the commands and its plant the world:  *)
(* the trail is the sequence of moments between, and it is enough that      *)
(* there is one.                                                            *)

\* A moment of a run: all of it but its log of actions and its failure.
Moment(p, s, u, e, t, c, x) ==
  [phase |-> p, sim |-> s, updates |-> u, events |-> e, samples |-> t, contact |-> c, stop |-> x]
Recorded == Moment(phase, sim, updates, events, samples, contact, stop)
Replayed == Moment(rphase, rsim, rupdates, revents, rsamples, rcontact, rstop)
Start == Moment("initial", NewSim, 0, <<>>, Record!Sampled(<<>>, NewSim), Record!NoContact, "None")

\* What the driver, an entry, a failure and an outcome make of a moment.
Begun(m) ==
  LET cause == Record!BoundedStop(m.sim)
  IN  Moment(IF cause # "None" THEN "done" ELSE "command", m.sim, m.updates, m.events, m.samples,
             m.contact, IF cause # "None" THEN cause ELSE m.stop)
Commanded(m, c) ==
  Moment("transition", [m.sim EXCEPT !.held = c], m.updates + 1,
         m.events \o Record!Stamped(<<"ControllerUpdated">>, m.sim.step), m.samples, m.contact,
         m.stop)
Failed(m) ==
  Moment("done", m.sim, m.updates, m.events, m.samples, m.contact, "ExecutionInvalid")
Flown(m, o) ==
  LET next == StepSim(goal, m.sim, o)
      cause == IF Terminal(next) THEN Record!TerminalStop(next) ELSE Record!BoundedStop(next)
  IN  Moment(IF cause # "None" THEN "done"
             ELSE IF ControlBoundary(next.step) THEN "command" ELSE "transition",
             next, m.updates,
             m.events \o Record!Stamped(StepEvents(goal, m.sim, o), next.step),
             Record!Sampled(m.samples, next),
             IF o.contact = "None" THEN m.contact ELSE [class |-> o.contact, step |-> next.step],
             IF cause # "None" THEN cause ELSE m.stop)

\* t is the moment after m: by the next entry of the record, in the world of the record.
EntryDue(m) == /\ m.updates + 1 \in 1..Len(actions)
               /\ actions[m.updates + 1].step = m.sim.step /\ actions[m.updates + 1].index = m.updates
OutcomeDue(m) == m.sim.step + 1 \in 1..Len(world) /\ world[m.sim.step + 1] # Lost
After(m, t) ==
  \/ m.phase = "initial" /\ t = Begun(m)
  \/ m.phase = "command" /\ EntryDue(m) /\ t = Commanded(m, actions[m.updates + 1].command)
  \/ m.phase = "transition" /\ OutcomeDue(m) /\ t = Flown(m, world[m.sim.step + 1])
Trail(h, n) == n \in Nat \ {0} /\ h[1] = Start /\ \A i \in 1..(n - 1) : After(h[i], h[i + 1])

\* Where the record stands at the end of its trail: there, or there and failed.
StandsAt(m) ==
  \/ failure = Record!NoFailure /\ Recorded = m
  \/ /\ failure = [stage |-> "CommandSelection", disposition |-> "ExecutionInvalid",
                   step |-> m.sim.step]
     /\ m.phase = "command" /\ m.updates = Len(actions)
     /\ Recorded = Failed(m)
  \/ /\ failure = [stage |-> "PhysicsTransition", disposition |-> "ExecutionInvalid",
                   step |-> m.sim.step + 1]
     /\ m.phase = "transition" /\ m.sim.step + 1 = Len(world) /\ world[Len(world)] = Lost
     /\ Recorded = Failed(m)
Followable == failure.stage \in {"None", "CommandSelection", "PhysicsTransition"}
TrailInv == Followable => \E n \in Nat \ {0} : \E h : Trail(h, n) /\ StandsAt(h[n])

----------------------------------------------------------------------------
(* The record leaves a trail.                                               *)

\* A moment is the moment of its parts.
LEMMA MomentParts ==
  ASSUME NEW p, NEW s, NEW u, NEW e, NEW t, NEW c, NEW x
  PROVE  LET m == Moment(p, s, u, e, t, c, x)
         IN  /\ m.phase = p /\ m.sim = s /\ m.updates = u /\ m.events = e /\ m.samples = t
             /\ m.contact = c /\ m.stop = x
BY DEF Moment

\* What has been recorded stays in the trail as the log and the world grow.
LEMMA AfterIsKept ==
  ASSUME RecordTypes, UNCHANGED <<goal, limits>>,
         NEW m, NEW t, After(m, t),
         actions' = actions \/ \E a \in Entries : actions' = Append(actions, a),
         world' = world \/ \E o \in Outcomes \cup {Lost} : world' = Append(world, o)
  PROVE  After(m, t)'
<1>1. /\ actions \in Seq(Entries) /\ world \in Seq(Outcomes \cup {Lost})
      /\ Len(actions) \in Nat /\ Len(world) \in Nat
  BY DEF RecordTypes
<1>2. ASSUME NEW S, NEW q \in Seq(S), NEW r, r = q \/ \E x \in S : r = Append(q, x),
             NEW k \in 1..Len(q)
      PROVE  k \in 1..Len(r) /\ r[k] = q[k]
  BY <1>2
<1>3. \A k \in 1..Len(actions) : k \in 1..Len(actions)' /\ actions'[k] = actions[k]
  BY <1>1, <1>2
<1>4. \A k \in 1..Len(world) : k \in 1..Len(world)' /\ world'[k] = world[k]
  BY <1>1, <1>2
<1>5. Begun(m)' = Begun(m)
  BY DEF Begun, Record!BoundedStop, Moment
<1>6. \A o : Flown(m, o)' = Flown(m, o)
  BY DEF Flown, Record!BoundedStop, Moment
<1>7. \A c : Commanded(m, c)' = Commanded(m, c)
  BY DEF Commanded, Moment
<1>8. EntryDue(m) => EntryDue(m)' /\ actions'[m.updates + 1] = actions[m.updates + 1]
  BY <1>3 DEF EntryDue
<1>9. OutcomeDue(m) => OutcomeDue(m)' /\ world'[m.sim.step + 1] = world[m.sim.step + 1]
  BY <1>4 DEF OutcomeDue
<1> QED BY <1>5, <1>6, <1>7, <1>8, <1>9 DEF After

\* A trail goes on.
LEMMA TrailGoesOn ==
  ASSUME RecordTypes, UNCHANGED <<goal, limits>>,
         NEW h, NEW n \in Nat \ {0}, Trail(h, n), NEW t, After(h[n], t)',
         actions' = actions \/ \E a \in Entries : actions' = Append(actions, a),
         world' = world \/ \E o \in Outcomes \cup {Lost} : world' = Append(world, o)
  PROVE  \E m \in Nat \ {0} : \E g : Trail(g, m)' /\ g[m] = t
<1> DEFINE g == [i \in 1..(n + 1) |-> IF i <= n THEN h[i] ELSE t]
<1>1. n + 1 \in Nat \ {0} /\ 1 \in 1..(n + 1) /\ 1 <= n /\ ~(n + 1 <= n) /\ n + 1 \in 1..(n + 1)
      /\ n + 1 - 1 = n
  OBVIOUS
<1>2. g[1] = Start' /\ g[n + 1] = t
  <2>1. h[1] = Start /\ Start' = Start
    BY DEF Trail, Start, Moment
  <2> QED BY <1>1, <2>1
<1>3. ASSUME NEW i \in 1..n PROVE After(g[i], g[i + 1])'
  <2>1. CASE i = n
    <3>1. g[i] = h[n] /\ g[i + 1] = t
      BY <1>1, <2>1
    <3> HIDE DEF g
    <3> QED BY <3>1
  <2>2. CASE i \in 1..(n - 1)
    <3>1. g[i] = h[i] /\ g[i + 1] = h[i + 1]
      BY <2>2
    <3> HIDE DEF g
    <3>2. After(h[i], h[i + 1])
      BY <2>2 DEF Trail
    <3>3. After(h[i], h[i + 1])'
      BY <3>2, AfterIsKept
    <3> QED BY <3>1, <3>3
  <2> QED BY <2>1, <2>2
<1> HIDE DEF g
<1>4. Trail(g, n + 1)'
  BY <1>1, <1>2, <1>3 DEF Trail
<1> QED BY <1>1, <1>2, <1>4

\* A trail is kept.
LEMMA TrailIsKept ==
  ASSUME RecordTypes, UNCHANGED <<goal, limits>>,
         NEW h, NEW n \in Nat \ {0}, Trail(h, n),
         actions' = actions \/ \E a \in Entries : actions' = Append(actions, a),
         world' = world \/ \E o \in Outcomes \cup {Lost} : world' = Append(world, o)
  PROVE  Trail(h, n)'
<1>1. \A i \in 1..(n - 1) : After(h[i], h[i + 1])'
  BY AfterIsKept DEF Trail
<1>2. Start' = Start
  BY DEF Start, Moment
<1> QED BY <1>1, <1>2 DEF Trail

\* What each action of a run makes of its moment.
LEMMA RecordMoves ==
  /\ \A v : Record!InitialGuard(v) /\ v = "Ok" =>
       phase = "initial" /\ Recorded' = Begun(Recorded) /\ failure' = failure
  /\ \A c : Record!IssueUpdate(c) =>
       phase = "command" /\ Recorded' = Commanded(Recorded, c) /\ failure' = failure
  /\ \A o, v : Record!Transition(o, v) /\ v = "Ok" =>
       phase = "transition" /\ Recorded' = Flown(Recorded, o) /\ failure' = failure
<1>1. ASSUME NEW v, Record!InitialGuard(v), v = "Ok"
      PROVE  phase = "initial" /\ Recorded' = Begun(Recorded) /\ failure' = failure
  <2>1. phase = "initial" /\ UNCHANGED <<sim, updates, events, samples, contact>>
    BY <1>1 DEF Record!InitialGuard
  <2>2. /\ phase' = IF Record!BoundedStop(sim) # "None" THEN "done" ELSE "command"
        /\ stop' = IF Record!BoundedStop(sim) # "None" THEN Record!BoundedStop(sim) ELSE stop
        /\ failure' = failure
    BY <1>1 DEF Record!InitialGuard, Record!Finish
  <2> QED BY <2>1, <2>2 DEF Recorded, Begun, Moment
<1>2. ASSUME NEW c, Record!IssueUpdate(c)
      PROVE  phase = "command" /\ Recorded' = Commanded(Recorded, c) /\ failure' = failure
  BY <1>2 DEF Record!IssueUpdate, Recorded, Commanded, Moment
<1>3. ASSUME NEW o, NEW v, Record!Transition(o, v), v = "Ok"
      PROVE  phase = "transition" /\ Recorded' = Flown(Recorded, o) /\ failure' = failure
  <2> DEFINE flown == StepSim(goal, sim, o)
             cause == IF Terminal(flown) THEN Record!TerminalStop(flown)
                      ELSE Record!BoundedStop(flown)
  <2>1. /\ phase = "transition" /\ sim' = flown /\ updates' = updates
        /\ events' = events \o Record!Stamped(StepEvents(goal, sim, o), flown.step)
        /\ samples' = Record!Sampled(samples, flown)
        /\ contact' = IF o.contact = "None" THEN contact
                      ELSE [class |-> o.contact, step |-> flown.step]
    BY <1>3, SameRecordPlant DEF Record!Transition
  <2>2. Terminal(flown) => cause # "None"
    BY DEF Record!TerminalStop
  <2>3. /\ phase' = IF cause # "None" THEN "done"
                    ELSE IF ControlBoundary(flown.step) THEN "command" ELSE "transition"
        /\ stop' = IF cause # "None" THEN cause ELSE stop
        /\ failure' = failure
    <3>1. StepSim(goal, sim, o) = Record!StepSim(goal, sim, o)
      BY SameRecordPlant
    <3>2. CASE Terminal(flown)
      BY <1>3, <2>2, <3>1, <3>2, SameRecordPlant DEF Record!Transition, Record!Finish
    <3>3. CASE ~Terminal(flown)
      BY <1>3, <3>1, <3>3, SameRecordPlant DEF Record!Transition, Record!Finish
    <3> QED BY <3>2, <3>3
  <2> QED BY <2>1, <2>3 DEF Recorded, Flown, Moment
<1> QED BY <1>1, <1>2, <1>3

\* The moment of a run in its parts.
LEMMA RecordedParts ==
  ASSUME NEW m, Recorded = m
  PROVE  /\ m.phase = phase /\ m.sim = sim /\ m.updates = updates /\ m.events = events
         /\ m.samples = samples /\ m.contact = contact /\ m.stop = stop
BY DEF Recorded, Moment

\* A step of the record that fails nothing takes its trail one moment further.
LEMMA TrailStepsOn ==
  ASSUME RecordTypes, UNCHANGED <<goal, limits>>, failure' = Record!NoFailure,
         NEW h, NEW n \in Nat \ {0}, Trail(h, n), NEW t, t = Recorded', After(h[n], t)',
         actions' = actions \/ \E a \in Entries : actions' = Append(actions, a),
         world' = world \/ \E o \in Outcomes \cup {Lost} : world' = Append(world, o)
  PROVE  TrailInv'
<1>1. PICK m \in Nat \ {0} : \E g : Trail(g, m)' /\ g[m] = t
  BY TrailGoesOn
<1>2. PICK g : Trail(g, m)' /\ g[m] = t
  BY <1>1
<1>3. StandsAt(g[m])'
  BY <1>2 DEF StandsAt, Record!NoFailure
<1> QED BY <1>2, <1>3 DEF TrailInv

\* A record that stops where it stands keeps the trail it has.
LEMMA TrailStopsHere ==
  ASSUME RecordTypes, UNCHANGED <<goal, limits, actions>>,
         NEW h, NEW n \in Nat \ {0}, Trail(h, n), StandsAt(h[n])',
         world' = world \/ \E o \in Outcomes \cup {Lost} : world' = Append(world, o)
  PROVE  TrailInv'
<1>1. Trail(h, n)'
  BY TrailIsKept
<1> QED BY <1>1 DEF TrailInv

\* Every step of the record keeps a trail, as far as it is one that a replay can follow.
LEMMA RecordKeepsTrail == ASSUME RecordTypes, TrailInv, RecordStep PROVE TrailInv'
<1>1. UNCHANGED <<goal, limits>>
  BY DEF RecordStep, Record!InitialGuard, Record!IssueUpdate, Record!RefuseUpdate,
     Record!RejectTransition, Record!LoseTransition, Record!Transition, Record!ctx
<1>2. phase # "done"
  BY DEF RecordStep, Record!InitialGuard, Record!IssueUpdate, Record!RefuseUpdate,
     Record!RejectTransition, Record!LoseTransition
<1>3. /\ failure = Record!NoFailure /\ Len(world) = sim.step /\ sim.step \in Nat
      /\ updates \in Nat /\ Len(actions) = updates /\ actions \in Seq(Entries)
      /\ world \in Seq(Outcomes \cup {Lost}) /\ sim \in SimStates
  BY <1>2 DEF RecordTypes, SimStates
<1>4. Followable
  BY <1>3 DEF Followable, Record!NoFailure
<1>5. PICK n \in Nat \ {0} : \E h : Trail(h, n) /\ StandsAt(h[n])
  BY <1>4 DEF TrailInv
<1>6. PICK h : Trail(h, n) /\ StandsAt(h[n])
  BY <1>5
<1>7. Recorded = h[n]
  BY <1>3, <1>6 DEF StandsAt, Record!NoFailure
<1>8. /\ h[n].phase = phase /\ h[n].sim = sim /\ h[n].updates = updates /\ h[n].events = events
      /\ h[n].samples = samples /\ h[n].contact = contact /\ h[n].stop = stop
  BY <1>7, RecordedParts
<1>9. PICK t : t = Recorded'
  OBVIOUS
<1>10. ASSUME NEW v, Record!InitialGuard(v), UNCHANGED world PROVE TrailInv'
  <2>1. CASE v = "Ok"
    <3>1. phase = "initial" /\ t = Begun(h[n]) /\ failure' = failure
      BY <1>7, <1>9, <1>10, <2>1, RecordMoves
    <3>2. Begun(h[n])' = Begun(h[n])
      BY <1>1 DEF Begun, Record!BoundedStop, Moment
    <3>3. After(h[n], t)'
      BY <1>8, <3>1, <3>2 DEF After
    <3>4. UNCHANGED actions
      BY <1>10 DEF Record!InitialGuard
    <3> QED BY <1>1, <1>3, <1>6, <1>9, <1>10, <3>1, <3>3, <3>4, TrailStepsOn DEF Record!NoFailure
  <2>2. CASE v # "Ok"
    <3>1. failure'.stage = "InitialGuard"
      BY <1>10, <2>2 DEF Record!InitialGuard, Record!Reject
    <3> QED BY <3>1 DEF TrailInv, Followable
  <2> QED BY <2>1, <2>2
<1>11. ASSUME NEW c \in Commands, Record!IssueUpdate(c), UNCHANGED world PROVE TrailInv'
  <2> DEFINE a == [step |-> sim.step, index |-> updates, command |-> c]
  <2>1. phase = "command" /\ t = Commanded(h[n], c) /\ failure' = failure
    BY <1>7, <1>9, <1>11, RecordMoves
  <2>2. actions' = Append(actions, a)
    BY <1>11 DEF Record!IssueUpdate
  <2>3. a \in Entries /\ a.step = sim.step /\ a.index = updates /\ a.command = c
    BY <1>3 DEF Entries
  <2> HIDE DEF a
  <2>4. Len(actions') = updates + 1 /\ actions'[updates + 1] = a
    BY <1>3, <2>2, <2>3, OneMore
  <2>5. EntryDue(h[n])'
    BY <1>3, <1>8, <2>3, <2>4 DEF EntryDue
  <2>6. t = Commanded(h[n], actions'[h[n].updates + 1].command)
    BY <1>8, <2>1, <2>3, <2>4
  <2>7. After(h[n], t)'
    BY <1>8, <2>1, <2>5, <2>6 DEF After, Commanded, Moment
  <2> QED BY <1>1, <1>3, <1>6, <1>9, <1>11, <2>1, <2>2, <2>3, <2>7, TrailStepsOn
      DEF Record!NoFailure
<1>12. ASSUME Record!RefuseUpdate("CommandSelection"), UNCHANGED world PROVE TrailInv'
  <2>1. /\ phase = "command" /\ phase' = "done" /\ stop' = "ExecutionInvalid"
        /\ failure' = [stage |-> "CommandSelection", disposition |-> "ExecutionInvalid",
                       step |-> sim.step]
        /\ UNCHANGED <<sim, updates, actions, events, samples, contact>>
    BY <1>12 DEF Record!RefuseUpdate, Record!Reject
  <2>2. Recorded' = Failed(h[n])
    BY <1>8, <2>1 DEF Recorded, Failed, Moment
  <2>3. StandsAt(h[n])'
    BY <1>3, <1>8, <2>1, <2>2 DEF StandsAt, Failed, Moment
  <2> QED BY <1>1, <1>6, <1>12, <2>1, <2>3, TrailStopsHere
<1>13. ASSUME NEW v, Record!RejectTransition(v) PROVE TrailInv'
  <2>1. failure'.stage = "PreTransitionGuard"
    BY <1>13 DEF Record!RejectTransition, Record!Reject
  <2> QED BY <2>1 DEF TrailInv, Followable
<1>14. ASSUME Record!LoseTransition, world' = Append(world, Lost) PROVE TrailInv'
  <2>1. /\ phase = "transition" /\ phase' = "done" /\ stop' = "ExecutionInvalid"
        /\ failure' = [stage |-> "PhysicsTransition", disposition |-> "ExecutionInvalid",
                       step |-> sim.step + 1]
        /\ UNCHANGED <<sim, updates, actions, events, samples, contact>>
    BY <1>14 DEF Record!LoseTransition, Record!Reject
  <2>2. Recorded' = Failed(h[n])
    BY <1>8, <2>1 DEF Recorded, Failed, Moment
  <2>3. Len(world') = sim.step + 1 /\ world'[Len(world')] = Lost
    <3>1. Lost \in Outcomes \cup {Lost}
      OBVIOUS
    <3> QED BY <1>3, <1>14, <3>1, OneMore
  <2>4. StandsAt(h[n])'
    BY <1>8, <2>1, <2>2, <2>3 DEF StandsAt, Failed, Moment, Lost
  <2> QED BY <1>1, <1>6, <1>14, <2>1, <2>4, TrailStopsHere
<1>15. ASSUME NEW o \in Outcomes, NEW v, Record!Transition(o, v), world' = Append(world, o)
       PROVE  TrailInv'
  <2>1. CASE v = "Ok"
    <3>1. phase = "transition" /\ t = Flown(h[n], o) /\ failure' = failure
      BY <1>7, <1>9, <1>15, <2>1, RecordMoves
    <3>2. Len(world') = sim.step + 1 /\ world'[sim.step + 1] = o
      <4>1. o \in Outcomes \cup {Lost}
        OBVIOUS
      <4> QED BY <1>3, <1>15, <4>1, OneMore
    <3>3. OutcomeDue(h[n])'
      <4>1. o # Lost /\ Lost' = Lost
        BY OutcomesAreNotLost DEF Lost
      <4>2. sim.step + 1 \in 1..(sim.step + 1)
        BY <1>3
      <4> QED BY <1>8, <3>2, <4>1, <4>2 DEF OutcomeDue
    <3>4. Flown(h[n], o)' = Flown(h[n], o)
      BY <1>1 DEF Flown, Record!BoundedStop, Moment
    <3>5. After(h[n], t)'
      BY <1>8, <3>1, <3>2, <3>3, <3>4 DEF After
    <3>6. UNCHANGED actions
      BY <1>15 DEF Record!Transition
    <3> QED BY <1>1, <1>3, <1>6, <1>9, <1>15, <3>1, <3>5, <3>6, TrailStepsOn DEF Record!NoFailure
  <2>2. CASE v # "Ok"
    <3>1. failure'.stage = "PostTransitionGuard"
      BY <1>15, <2>2 DEF Record!Transition, Record!Reject
    <3> QED BY <3>1 DEF TrailInv, Followable
  <2> QED BY <2>1, <2>2
<1> QED BY <1>10, <1>11, <1>12, <1>13, <1>14, <1>15, DistinctOutcomes DEF RecordStep

----------------------------------------------------------------------------
(* The replay follows the trail.                                            *)

\* A replay of the log as it was saved, under the same limits and without a guard.
Intact == log # NoLog /\ log = SavedLog /\ rlimits = limits /\ ~guarded

\* It is somewhere on the trail, or where the record failed and failed as it did.
FailsAt(m) ==
  /\ Replayed = Failed(m)
  /\ rfailure.disposition = "ExecutionInvalid"
  /\ \/ /\ failure.stage = "CommandSelection" /\ rfailure.stage = "ReplayInput"
        /\ rfailure.step = m.sim.step
     \/ /\ failure.stage = "PhysicsTransition" /\ rfailure.stage = "PhysicsTransition"
        /\ rfailure.step = m.sim.step + 1
OnTrail(h, n) ==
  \/ rfailure = Record!NoFailure /\ \E i \in 1..n : Replayed = h[i]
  \/ FailsAt(h[n])
FollowInv ==
  /\ log = NoLog => Replayed = Start /\ rfailure = Record!NoFailure
  /\ Intact /\ Followable =>
       \E n \in Nat \ {0} : \E h : Trail(h, n) /\ StandsAt(h[n]) /\ OnTrail(h, n)
FaithInv == LogInv /\ TrailInv /\ FollowInv

\* The two runs read their plant with the same operators.
LEMMA SameReading ==
  /\ Rerun!NoFailure = Record!NoFailure
  /\ \A q, s : Rerun!Sampled(q, s) = Record!Sampled(q, s)
  /\ \A q, k : Rerun!Stamped(q, k) = Record!Stamped(q, k)
  /\ \A s : Rerun!TerminalStop(s) = Record!TerminalStop(s)
  /\ rlimits = limits => \A s : Rerun!BoundedStop(s) = Record!BoundedStop(s)
<1>1. \A s : Rerun!Terminal(s) <=> Record!Terminal(s)
  BY SameRecordPlant, SameRerunPlant
<1>2. /\ Rerun!NoFailure = Record!NoFailure
      /\ \A q, k : Rerun!Stamped(q, k) = Record!Stamped(q, k)
      /\ \A s : Rerun!TerminalStop(s) = Record!TerminalStop(s)
  BY DEF Rerun!NoFailure, Record!NoFailure, Rerun!Stamped, Record!Stamped, Rerun!TerminalStop,
     Record!TerminalStop
<1>3. \A q, s : Rerun!Sampled(q, s) = Record!Sampled(q, s)
  BY <1>1 DEF Rerun!Sampled, Record!Sampled
<1>4. rlimits = limits => \A s : Rerun!BoundedStop(s) = Record!BoundedStop(s)
  BY DEF Rerun!BoundedStop, Record!BoundedStop
<1> QED BY <1>2, <1>3, <1>4

\* What each action of the replay makes of its moment.
LEMMA ReplayMoves ==
  ASSUME rlimits = limits
  PROVE
  /\ Rerun!InitialGuard("Ok") =>
       rphase = "initial" /\ Replayed' = Begun(Replayed) /\ rfailure' = rfailure
  /\ \A c : Rerun!IssueUpdate(c) =>
       rphase = "command" /\ Replayed' = Commanded(Replayed, c) /\ rfailure' = rfailure
  /\ \A o : Rerun!Transition(o, "Ok") =>
       rphase = "transition" /\ Replayed' = Flown(Replayed, o) /\ rfailure' = rfailure
<1>1. ASSUME Rerun!InitialGuard("Ok")
      PROVE  rphase = "initial" /\ Replayed' = Begun(Replayed) /\ rfailure' = rfailure
  <2>1. rphase = "initial" /\ UNCHANGED <<rsim, rupdates, revents, rsamples, rcontact>>
    BY <1>1 DEF Rerun!InitialGuard
  <2>2. /\ rphase' = IF Rerun!BoundedStop(rsim) # "None" THEN "done" ELSE "command"
        /\ rstop' = IF Rerun!BoundedStop(rsim) # "None" THEN Rerun!BoundedStop(rsim) ELSE rstop
        /\ rfailure' = rfailure
    BY <1>1 DEF Rerun!InitialGuard, Rerun!Finish
  <2>3. Rerun!BoundedStop(rsim) = Record!BoundedStop(rsim)
    BY SameReading
  <2> QED BY <2>1, <2>2, <2>3 DEF Replayed, Begun, Moment
<1>2. ASSUME NEW c, Rerun!IssueUpdate(c)
      PROVE  rphase = "command" /\ Replayed' = Commanded(Replayed, c) /\ rfailure' = rfailure
  <2>1. Rerun!Stamped(<<"ControllerUpdated">>, rsim.step)
          = Record!Stamped(<<"ControllerUpdated">>, rsim.step)
    BY SameReading
  <2>2. /\ rphase = "command" /\ rphase' = "transition" /\ rsim' = [rsim EXCEPT !.held = c]
        /\ revents' = revents \o Record!Stamped(<<"ControllerUpdated">>, rsim.step)
        /\ rupdates' = rupdates + 1
        /\ UNCHANGED <<rsamples, rcontact, rstop, rfailure>>
    BY <1>2, <2>1 DEF Rerun!IssueUpdate
  <2> QED BY <2>2 DEF Replayed, Commanded, Moment
<1>3. ASSUME NEW o, Rerun!Transition(o, "Ok")
      PROVE  rphase = "transition" /\ Replayed' = Flown(Replayed, o) /\ rfailure' = rfailure
  <2> DEFINE flown == StepSim(goal, rsim, o)
             cause == IF Terminal(flown) THEN Record!TerminalStop(flown)
                      ELSE Record!BoundedStop(flown)
  <2>1. /\ flown = Rerun!StepSim(goal, rsim, o)
        /\ StepEvents(goal, rsim, o) = Rerun!StepEvents(goal, rsim, o)
        /\ Rerun!Terminal(flown) <=> Terminal(flown)
        /\ Rerun!ControlBoundary(flown.step) <=> ControlBoundary(flown.step)
    BY SameRerunPlant
  <2>2. /\ Rerun!Sampled(rsamples, flown) = Record!Sampled(rsamples, flown)
        /\ Rerun!Stamped(StepEvents(goal, rsim, o), flown.step)
             = Record!Stamped(StepEvents(goal, rsim, o), flown.step)
        /\ Rerun!TerminalStop(flown) = Record!TerminalStop(flown)
        /\ Rerun!BoundedStop(flown) = Record!BoundedStop(flown)
    BY SameReading
  <2>3. /\ rphase = "transition" /\ rsim' = flown /\ rupdates' = rupdates
        /\ revents' = revents \o Record!Stamped(StepEvents(goal, rsim, o), flown.step)
        /\ rsamples' = Record!Sampled(rsamples, flown)
        /\ rcontact' = IF o.contact = "None" THEN rcontact
                       ELSE [class |-> o.contact, step |-> flown.step]
    BY <1>3, <2>1, <2>2 DEF Rerun!Transition
  <2>4. Terminal(flown) => cause # "None"
    BY DEF Record!TerminalStop
  <2>5. /\ rphase' = IF cause # "None" THEN "done"
                     ELSE IF ControlBoundary(flown.step) THEN "command" ELSE "transition"
        /\ rstop' = IF cause # "None" THEN cause ELSE rstop
        /\ rfailure' = rfailure
    <3>1. CASE Terminal(flown)
      BY <1>3, <2>1, <2>2, <2>4, <3>1 DEF Rerun!Transition, Rerun!Finish
    <3>2. CASE ~Terminal(flown)
      BY <1>3, <2>1, <2>2, <3>2 DEF Rerun!Transition, Rerun!Finish
    <3> QED BY <3>1, <3>2
  <2> QED BY <2>3, <2>5 DEF Replayed, Flown, Moment
<1> QED BY <1>1, <1>2, <1>3

\* The saved log has the entries of the record.
LEMMA SavedLogEntries ==
  ASSUME RecordTypes
  PROVE  /\ Len(SavedLog) = updates
         /\ \A i \in 1..updates :
              SavedLog[i] = Sound(actions[i]) /\ actions[i] \in Entries
<1>1. actions \in Seq(Entries) /\ Len(actions) = updates /\ updates \in Nat
  BY DEF RecordTypes
<1>2. ASSUME NEW S, NEW q \in Seq(S) PROVE \A i \in 1..Len(q) : q[i] \in S
  OBVIOUS
<1>3. \A i \in 1..updates : actions[i] \in Entries
  BY <1>1, <1>2
<1>4. ASSUME NEW n \in Nat, NEW F(_) PROVE Len([i \in 1..n |-> F(i)]) = n
  OBVIOUS
<1>5. Len(SavedLog) = updates
  BY <1>1, <1>4 DEF SavedLog
<1> QED BY <1>1, <1>3, <1>5 DEF SavedLog

\* An intact replay has issued the commands of the record, as far as it has come ...
LEMMA SameCommandsIssued ==
  ASSUME LogInv, Intact
  PROVE  /\ used = rupdates /\ rupdates <= updates /\ Len(ractions) = rupdates
         /\ Len(log) = updates /\ ractions = SubSeq(actions, 1, rupdates)
<1>1. /\ rupdates \in Nat /\ updates \in Nat /\ ractions \in Seq(Entries) /\ Len(ractions) = rupdates
      /\ actions \in Seq(Entries) /\ Len(actions) = updates /\ used = rupdates
  BY DEF LogInv, RecordTypes, ReplayTypes, Rerun!ActionLogIsFlight, LogFollowed
<1>2. Len(log) = updates /\ rupdates <= updates
  BY SavedLogEntries DEF LogInv, LogFollowed, Intact
<1>3. \A i \in 1..rupdates : ractions[i] = actions[i]
  <2> SUFFICES ASSUME NEW i \in 1..rupdates PROVE ractions[i] = actions[i]
    OBVIOUS
  <2>1. i \in 1..updates
    BY <1>1, <1>2
  <2>2. log[i] = Sound(actions[i]) /\ actions[i] \in Entries
    BY <2>1, SavedLogEntries DEF LogInv, Intact
  <2>3. ractions[i] = [step |-> log[i].step, index |-> log[i].index, command |-> log[i].command]
    BY DEF LogInv, LogFollowed
  <2>4. ASSUME NEW e \in Entries
        PROVE  e = [step |-> Sound(e).step, index |-> Sound(e).index, command |-> Sound(e).command]
    BY DEF Entries, Sound
  <2> QED BY <2>2, <2>3, <2>4
<1>4. ractions = SubSeq(actions, 1, rupdates)
  <2>1. ASSUME NEW S, NEW p \in Seq(S), NEW q \in Seq(S), Len(q) <= Len(p),
               \A i \in 1..Len(q) : q[i] = p[i]
        PROVE  q = SubSeq(p, 1, Len(q))
    <3>1. SubSeq(p, 1, Len(q)) \in Seq(S) /\ Len(SubSeq(p, 1, Len(q))) = Len(q)
      BY <2>1
    <3>2. \A i \in 1..Len(q) : SubSeq(p, 1, Len(q))[i] = p[i]
      BY <2>1
    <3> QED BY <2>1, <3>1, <3>2, SeqEqual
  <2> QED BY <1>1, <1>2, <1>3, <2>1
<1> QED BY <1>1, <1>2, <1>4

\* ... so that it sees the record's world.
LEMMA SameWorldSeen ==
  ASSUME LogInv, Intact, rsim.step + 1 <= Len(world)
  PROVE  ReplayOutcomes = {world[rsim.step + 1]}
BY SameCommandsIssued DEF ReplayOutcomes

\* The moment of a replay in its parts.
LEMMA ReplayedParts ==
  ASSUME NEW m, Replayed = m
  PROVE  /\ m.phase = rphase /\ m.sim = rsim /\ m.updates = rupdates /\ m.events = revents
         /\ m.samples = rsamples /\ m.contact = rcontact /\ m.stop = rstop
BY DEF Replayed, Moment

\* The last moment of a record that has ended is where it ended, or where it failed.
LEMMA TrailEndsWithRecord ==
  ASSUME phase = "done", NEW m, StandsAt(m), m.phase # "done"
  PROVE  \/ /\ failure.stage = "CommandSelection" /\ m.phase = "command"
            /\ m.updates = Len(actions)
         \/ /\ failure.stage = "PhysicsTransition" /\ m.phase = "transition"
            /\ m.sim.step + 1 = Len(world) /\ world[Len(world)] = Lost
<1>1. Recorded # m
  BY DEF Recorded, Moment
<1> QED BY <1>1 DEF StandsAt

\* Beginning the replay.
LEMMA BeginFollows ==
  ASSUME LogInv, Intact, phase = "done", NEW h, NEW n \in Nat \ {0}, Trail(h, n), StandsAt(h[n]),
         NEW i \in 1..n, Replayed = h[i], rfailure = Record!NoFailure, Rerun!InitialGuard("Ok")
  PROVE  rfailure' = Record!NoFailure /\ \E j \in 1..n : Replayed' = h[j]
<1>1. rphase = "initial" /\ Replayed' = Begun(h[i]) /\ rfailure' = rfailure
  BY ReplayMoves DEF Intact
<1>2. h[i].phase = "initial"
  BY <1>1, ReplayedParts
<1>3. i # n
  BY <1>2, TrailEndsWithRecord
<1>4. i \in 1..(n - 1) /\ i + 1 \in 1..n
  BY <1>3
<1>5. h[i + 1] = Begun(h[i])
  BY <1>2, <1>4 DEF Trail, After
<1> QED BY <1>1, <1>4, <1>5

\* Asking for a command of the log.
LEMMA CommandFollows ==
  ASSUME LogInv, Intact, phase = "done", NEW h, NEW n \in Nat \ {0}, Trail(h, n), StandsAt(h[n]),
         NEW i \in 1..n, Replayed = h[i], rfailure = Record!NoFailure, ReplayCommand
  PROVE  \/ rfailure' = Record!NoFailure /\ \E j \in 1..n : Replayed' = h[j]
         \/ /\ failure.stage = "CommandSelection" /\ Replayed' = Failed(h[n])
            /\ rfailure'.disposition = "ExecutionInvalid" /\ rfailure'.stage = "ReplayInput"
            /\ rfailure'.step = h[n].sim.step
<1>1. rphase = "command"
  BY DEF ReplayCommand, Rerun!IssueUpdate, Rerun!RefuseUpdate
<1>2. h[i].phase = "command" /\ h[i].updates = rupdates /\ h[i].sim = rsim
  BY <1>1, ReplayedParts
<1>3. used = rupdates /\ Len(log) = updates /\ Len(actions) = updates /\ updates \in Nat
  BY SameCommandsIssued DEF LogInv, RecordTypes
<1>4. CASE i # n
  <2>1. i \in 1..(n - 1) /\ i + 1 \in 1..n
    BY <1>4
  <2>2. EntryDue(h[i]) /\ h[i + 1] = Commanded(h[i], actions[rupdates + 1].command)
    BY <1>2, <2>1 DEF Trail, After
  <2>3. /\ rupdates + 1 \in 1..updates /\ actions[rupdates + 1].step = rsim.step
        /\ actions[rupdates + 1].index = rupdates
    BY <1>2, <1>3, <2>2 DEF EntryDue
  <2>4. log[rupdates + 1] = Sound(actions[rupdates + 1])
    BY <2>3, SavedLogEntries DEF LogInv, Intact
  <2>5. Admissible(used + 1) /\ log[used + 1].command = actions[rupdates + 1].command
    <3>1. PICK k \in Int : k = rupdates + 1
      BY <2>3 DEF LogInv, ReplayTypes
    <3>2. k - 1 = rupdates /\ k <= Len(log) /\ used + 1 = k
      BY <1>3, <2>3, <3>1 DEF LogInv, ReplayTypes
    <3>3. actions[k].step = rsim.step /\ actions[k].index = rupdates /\ log[k] = Sound(actions[k])
      BY <2>3, <2>4, <3>1
    <3>4. /\ log[k].sound /\ log[k].step = rsim.step /\ log[k].index = k - 1
          /\ log[k].command = actions[k].command
      BY <3>2, <3>3 DEF Sound
    <3>5. Admissible(k)
      BY <3>2, <3>4 DEF Admissible
    <3> QED BY <3>1, <3>2, <3>4, <3>5
  <2>6. Rerun!IssueUpdate(actions[rupdates + 1].command)
    BY <2>5 DEF ReplayCommand
  <2>7. Replayed' = Commanded(h[i], actions[rupdates + 1].command) /\ rfailure' = rfailure
    BY <2>6, ReplayMoves DEF Intact
  <2> QED BY <2>1, <2>2, <2>7
<1>5. CASE i = n
  <2>1. failure.stage = "CommandSelection" /\ rupdates = updates
    BY <1>2, <1>3, <1>5, TrailEndsWithRecord
  <2>2. ~Admissible(used + 1)
    BY <1>3, <2>1 DEF Admissible
  <2>3. Rerun!RefuseUpdate("ReplayInput")
    BY <2>2 DEF ReplayCommand
  <2>4. /\ rphase' = "done" /\ rstop' = "ExecutionInvalid"
        /\ rfailure' = [stage |-> "ReplayInput", disposition |-> "ExecutionInvalid",
                        step |-> rsim.step]
        /\ UNCHANGED <<rsim, rupdates, revents, rsamples, rcontact>>
    BY <2>3 DEF Rerun!RefuseUpdate, Rerun!Reject
  <2>5. /\ h[n].sim = rsim /\ h[n].updates = rupdates /\ h[n].events = revents
        /\ h[n].samples = rsamples /\ h[n].contact = rcontact
    BY <1>5, ReplayedParts
  <2>6. Replayed' = Failed(h[n])
    BY <2>4, <2>5 DEF Replayed, Failed, Moment
  <2> QED BY <2>1, <2>4, <2>5, <2>6
<1> QED BY <1>4, <1>5

\* Flying a step in the record's world.
LEMMA StepFollows ==
  ASSUME LogInv, Intact, phase = "done", NEW h, NEW n \in Nat \ {0}, Trail(h, n), StandsAt(h[n]),
         NEW i \in 1..n, Replayed = h[i], rfailure = Record!NoFailure,
         rphase = "transition", NEW o \in ReplayOutcomes,
         IF o = Lost THEN Rerun!LoseTransition ELSE Rerun!Transition(o, "Ok")
  PROVE  \/ rfailure' = Record!NoFailure /\ \E j \in 1..n : Replayed' = h[j]
         \/ /\ failure.stage = "PhysicsTransition" /\ Replayed' = Failed(h[n])
            /\ rfailure'.disposition = "ExecutionInvalid" /\ rfailure'.stage = "PhysicsTransition"
            /\ rfailure'.step = h[n].sim.step + 1
<1>1. h[i].phase = "transition" /\ h[i].sim = rsim
  BY ReplayedParts
<1>2. rsim.step \in Nat /\ Len(world) \in Nat
  BY DEF LogInv, RecordTypes, ReplayTypes, SimStates
<1>3. CASE i # n
  <2>1. i \in 1..(n - 1) /\ i + 1 \in 1..n
    BY <1>3
  <2>2. OutcomeDue(h[i]) /\ h[i + 1] = Flown(h[i], world[rsim.step + 1])
    BY <1>1, <2>1 DEF Trail, After
  <2>3. rsim.step + 1 <= Len(world) /\ world[rsim.step + 1] # Lost
    BY <1>1, <1>2, <2>2 DEF OutcomeDue
  <2>4. o = world[rsim.step + 1]
    BY <2>3, SameWorldSeen
  <2>5. Replayed' = Flown(h[i], o) /\ rfailure' = rfailure
    BY <2>3, <2>4, ReplayMoves DEF Intact
  <2> QED BY <2>1, <2>2, <2>4, <2>5
<1>4. CASE i = n
  <2>1. failure.stage = "PhysicsTransition" /\ rsim.step + 1 = Len(world) /\ world[Len(world)] = Lost
    BY <1>1, <1>4, TrailEndsWithRecord
  <2>2. o = Lost
    BY <1>2, <2>1, SameWorldSeen
  <2>3. /\ rphase' = "done" /\ rstop' = "ExecutionInvalid"
        /\ rfailure' = [stage |-> "PhysicsTransition", disposition |-> "ExecutionInvalid",
                        step |-> rsim.step + 1]
        /\ UNCHANGED <<rsim, rupdates, revents, rsamples, rcontact>>
    BY <2>2 DEF Rerun!LoseTransition, Rerun!Reject
  <2>4. /\ h[n].sim = rsim /\ h[n].updates = rupdates /\ h[n].events = revents
        /\ h[n].samples = rsamples /\ h[n].contact = rcontact
    BY <1>4, ReplayedParts
  <2>5. Replayed' = Failed(h[n])
    BY <2>3, <2>4 DEF Replayed, Failed, Moment
  <2> QED BY <2>1, <2>3, <2>4, <2>5
<1> QED BY <1>3, <1>4

\* While the replay runs, the record's trail is there to follow.
LEMMA ReplayingKeepsTrail ==
  ASSUME RecordTypes, UNCHANGED <<goal, recordVars, world>>, NEW h, NEW n \in Nat \ {0},
         Trail(h, n), StandsAt(h[n])
  PROVE  Trail(h, n)' /\ StandsAt(h[n])'
<1>1. UNCHANGED <<goal, limits, phase, sim, updates, actions, events, samples, contact, stop, failure>>
  BY DEF recordVars
<1>2. Trail(h, n)'
  BY <1>1, TrailIsKept
<1>3. StandsAt(h[n])'
  BY <1>1 DEF StandsAt, Recorded, Failed, Moment, Record!NoFailure, Lost
<1> QED BY <1>2, <1>3

\* The trail is there as long as nothing is recorded.
LEMMA TrailInvIsKept ==
  ASSUME RecordTypes, TrailInv, UNCHANGED <<goal, recordVars, world>>
  PROVE  TrailInv'
<1>1. Followable' => Followable
  BY DEF Followable, recordVars
<1>2. ASSUME Followable PROVE TrailInv'
  <2>1. PICK n \in Nat \ {0} : \E h : Trail(h, n) /\ StandsAt(h[n])
    BY <1>2 DEF TrailInv
  <2>2. PICK h : Trail(h, n) /\ StandsAt(h[n])
    BY <2>1
  <2>3. Trail(h, n)' /\ StandsAt(h[n])'
    BY <2>2, ReplayingKeepsTrail
  <2> QED BY <2>3 DEF TrailInv
<1> QED BY <1>1, <1>2 DEF TrailInv

\* A step of the replay stays on the trail, as it was followed so far.
LEMMA ReplayFollows ==
  ASSUME FaithInv, ReplayCommand \/ ReplayStep
  PROVE  FollowInv'
<1>1. /\ Replaying /\ log # NoLog
      /\ UNCHANGED <<goal, recordVars, world, log, guarded, rlimits>>
  BY DEF ReplayCommand, ReplayStep, Replaying, Rerun!IssueUpdate, Rerun!RefuseUpdate,
     Rerun!InitialGuard, Rerun!RejectTransition, Rerun!LoseTransition, Rerun!Transition, Rerun!ctx
<1>2. /\ rphase # "done" /\ phase = "done" /\ LogInv /\ RecordTypes
  BY <1>1 DEF ReplayCommand, ReplayStep, Rerun!IssueUpdate, Rerun!RefuseUpdate, Rerun!InitialGuard,
     Rerun!RejectTransition, FaithInv, LogInv, RecordTypes
<1>3. (Intact' => Intact) /\ (Followable' => Followable) /\ log' # NoLog' /\ failure' = failure
  BY <1>1 DEF Intact, SavedLog, Sound, Followable, recordVars, NoLog
<1>4. ASSUME Intact, Followable
      PROVE  (\E n \in Nat \ {0} : \E h : Trail(h, n) /\ StandsAt(h[n]) /\ OnTrail(h, n))'
  <2>1. PICK n \in Nat \ {0} : \E h : Trail(h, n) /\ StandsAt(h[n]) /\ OnTrail(h, n)
    BY <1>4 DEF FaithInv, FollowInv
  <2>2. PICK h : Trail(h, n) /\ StandsAt(h[n]) /\ OnTrail(h, n)
    BY <2>1
  <2>3. Trail(h, n)' /\ StandsAt(h[n])'
    BY <1>1, <1>2, <2>2, ReplayingKeepsTrail
  <2>4. ~FailsAt(h[n])
    BY <1>2 DEF FailsAt, Replayed, Failed, Moment
  <2>5. rfailure = Record!NoFailure
    BY <2>2, <2>4 DEF OnTrail
  <2>6. PICK i \in 1..n : Replayed = h[i]
    BY <2>2, <2>4 DEF OnTrail
  <2>7. ReplayVerdicts = {"Ok"}
    BY <1>4 DEF Intact, ReplayVerdicts
  <2>8. \/ rfailure' = Record!NoFailure /\ \E j \in 1..n : Replayed' = h[j]
        \/ /\ failure.stage = "CommandSelection" /\ Replayed' = Failed(h[n])
           /\ rfailure'.disposition = "ExecutionInvalid" /\ rfailure'.stage = "ReplayInput"
           /\ rfailure'.step = h[n].sim.step
        \/ /\ failure.stage = "PhysicsTransition" /\ Replayed' = Failed(h[n])
           /\ rfailure'.disposition = "ExecutionInvalid" /\ rfailure'.stage = "PhysicsTransition"
           /\ rfailure'.step = h[n].sim.step + 1
    <3>1. CASE ReplayCommand
      BY <1>2, <1>4, <2>2, <2>5, <2>6, <3>1, CommandFollows
    <3>2. CASE \E v \in ReplayVerdicts : Rerun!InitialGuard(v)
      <4>1. Rerun!InitialGuard("Ok")
        BY <2>7, <3>2
      <4> QED BY <1>2, <1>4, <2>2, <2>5, <2>6, <4>1, BeginFollows
    <3>3. CASE \E v \in ReplayVerdicts \ {"Ok"} : Rerun!RejectTransition(v)
      BY <2>7, <3>3
    <3>4. CASE /\ rphase = "transition"
               /\ \E o \in ReplayOutcomes :
                    IF o = Lost THEN Rerun!LoseTransition
                    ELSE \E v \in ReplayVerdicts : Rerun!Transition(o, v)
      <4>1. PICK o \in ReplayOutcomes :
              IF o = Lost THEN Rerun!LoseTransition ELSE Rerun!Transition(o, "Ok")
        BY <2>7, <3>4
      <4> QED BY <1>2, <1>4, <2>2, <2>5, <2>6, <3>4, <4>1, StepFollows
    <3> QED BY <3>1, <3>2, <3>3, <3>4 DEF ReplayStep
  <2>9. OnTrail(h, n)'
    <3>1. Record!NoFailure' = Record!NoFailure /\ Failed(h[n])' = Failed(h[n])
      BY DEF Record!NoFailure, Failed, Moment
    <3> QED BY <1>3, <2>8, <3>1 DEF OnTrail, FailsAt
  <2> QED BY <2>3, <2>9
<1> QED BY <1>3, <1>4 DEF FollowInv

\* A replay that has returned on the trail has used every entry, so that settling finds nothing.
LEMMA SettleFollows == ASSUME FaithInv, Settle PROVE FollowInv'
<1>1. /\ log # NoLog /\ rphase = "done"
      /\ UNCHANGED <<goal, recordVars, world, log, guarded, rlimits, rphase, rsim, rupdates,
                     revents, rsamples, rcontact>>
  BY DEF Settle
<1>2. phase = "done" /\ LogInv /\ RecordTypes
  BY <1>1 DEF FaithInv, LogInv, RecordTypes
<1>3. (Intact' => Intact) /\ (Followable' => Followable) /\ log' # NoLog' /\ failure' = failure
  BY <1>1 DEF Intact, SavedLog, Sound, Followable, recordVars, NoLog
<1>4. ASSUME Intact, Followable
      PROVE  (\E n \in Nat \ {0} : \E h : Trail(h, n) /\ StandsAt(h[n]) /\ OnTrail(h, n))'
  <2>1. PICK n \in Nat \ {0} : \E h : Trail(h, n) /\ StandsAt(h[n]) /\ OnTrail(h, n)
    BY <1>4 DEF FaithInv, FollowInv
  <2>2. PICK h : Trail(h, n) /\ StandsAt(h[n]) /\ OnTrail(h, n)
    BY <2>1
  <2>3. Trail(h, n)' /\ StandsAt(h[n])'
    BY <1>1, <1>2, <2>2, ReplayingKeepsTrail
  <2>4. rfailure.disposition = "ExecutionInvalid" \/ used = Len(log)
    <3>1. CASE FailsAt(h[n])
      BY <3>1 DEF FailsAt
    <3>2. CASE \E i \in 1..n : Replayed = h[i]
      <4>1. PICK i \in 1..n : Replayed = h[i]
        BY <3>2
      <4>2. h[i].phase = "done"
        BY <1>1, <4>1, ReplayedParts
      <4>3. i = n
        <5>1. ~After(h[i], h[i + 1])
          BY <4>2 DEF After
        <5>2. i \notin 1..(n - 1)
          BY <2>2, <5>1 DEF Trail
        <5> QED BY <5>2
      <4>4. Recorded = h[n]
        BY <2>2, <4>2, <4>3 DEF StandsAt
      <4>5. rupdates = updates
        <5>1. h[n].updates = updates
          BY <4>4, RecordedParts
        <5>2. h[n].updates = rupdates
          BY <4>1, <4>3, ReplayedParts
        <5> QED BY <5>1, <5>2
      <4> QED BY <1>2, <1>4, <4>5, SameCommandsIssued
    <3> QED BY <2>2, <3>1, <3>2 DEF OnTrail
  <2>5. UNCHANGED <<rstop, rfailure>>
    BY <2>4 DEF Settle
  <2>6. OnTrail(h, n)'
    BY <1>1, <1>3, <2>2, <2>5 DEF OnTrail, FailsAt, Replayed, Failed, Moment, Record!NoFailure
  <2> QED BY <2>3, <2>6
<1> QED BY <1>3, <1>4 DEF FollowInv

\* A log that is presented is followed from its start.
LEMMA PresentFollows == ASSUME FaithInv, Present PROVE FollowInv'
<1>1. /\ log = NoLog
      /\ UNCHANGED <<goal, recordVars, world, rphase, rsim, rupdates, revents, rsamples, rcontact,
                     rstop, rfailure>>
  BY DEF Present
<1>2. Replayed = Start /\ rfailure = Record!NoFailure /\ RecordTypes
  BY <1>1 DEF FaithInv, FollowInv, LogInv
<1>3. Replayed' = Start' /\ rfailure' = Record!NoFailure'
  BY <1>1, <1>2 DEF Replayed, Start, Moment, Record!NoFailure
<1>4. Followable' => Followable
  BY <1>1 DEF Followable, recordVars
<1>5. ASSUME Followable
      PROVE  (\E n \in Nat \ {0} : \E h : Trail(h, n) /\ StandsAt(h[n]) /\ OnTrail(h, n))'
  <2>1. PICK n \in Nat \ {0} : \E h : Trail(h, n) /\ StandsAt(h[n])
    BY <1>5 DEF FaithInv, TrailInv
  <2>2. PICK h : Trail(h, n) /\ StandsAt(h[n])
    BY <2>1
  <2>3. Trail(h, n)' /\ StandsAt(h[n])'
    BY <1>1, <1>2, <2>2, ReplayingKeepsTrail
  <2>4. h[1] = Start' /\ 1 \in 1..n
    BY <2>3 DEF Trail
  <2>5. OnTrail(h, n)'
    BY <1>3, <2>4 DEF OnTrail
  <2> QED BY <2>3, <2>5
<1> QED BY <1>3, <1>4, <1>5 DEF FollowInv

\* Recording leaves the replay at its start.
LEMMA RecordingFollows == ASSUME FaithInv, RecordStep PROVE FollowInv'
<1>1. log = NoLog /\ UNCHANGED <<log, guarded, replayVars>>
  <2>1. UNCHANGED <<log, guarded, replayVars>>
    BY DEF RecordStep, Recording
  <2> QED BY <2>1, RecordStepInType DEF FaithInv, LogInv
<1>2. Replayed' = Start' /\ rfailure' = Record!NoFailure'
  BY <1>1 DEF FaithInv, FollowInv, replayVars, Replayed, Start, Moment, Record!NoFailure
<1>3. ~Intact'
  BY <1>1 DEF Intact, NoLog
<1> QED BY <1>2, <1>3 DEF FollowInv

\* Nothing has been flown, and the trail is its start.
LEMMA InitFaithInv == Init => FaithInv
<1> SUFFICES ASSUME Init PROVE FaithInv
  OBVIOUS
<1>1. /\ phase = "initial" /\ sim = NewSim /\ updates = 0 /\ events = <<>>
      /\ samples = Record!Sampled(<<>>, NewSim) /\ contact = Record!NoContact
      /\ stop = "None" /\ failure = Record!NoFailure
  BY SameRecordPlant DEF Init, Record!Init
<1>2. Recorded = Start
  BY <1>1 DEF Recorded, Start
<1>3. /\ log = NoLog /\ rphase = "initial" /\ rsim = NewSim /\ rupdates = 0 /\ revents = <<>>
      /\ rsamples = samples /\ rcontact = contact /\ rstop = stop /\ rfailure = failure
  BY DEF Init
<1>4. Replayed = Start /\ rfailure = Record!NoFailure
  BY <1>1, <1>3 DEF Replayed, Start
<1> DEFINE h == [i \in {1} |-> Start]
<1>5. h[1] = Start
  OBVIOUS
<1> HIDE DEF h
<1>6. Trail(h, 1) /\ StandsAt(h[1])
  <2>1. 1 \in Nat \ {0} /\ 1..(1 - 1) = {}
    OBVIOUS
  <2> QED BY <1>1, <1>2, <1>5, <2>1 DEF Trail, StandsAt
<1>7. TrailInv
  <2>1. 1 \in Nat \ {0}
    OBVIOUS
  <2> QED BY <1>6, <2>1 DEF TrailInv
<1>8. FollowInv
  BY <1>3, <1>4 DEF FollowInv, Intact
<1> QED BY <1>7, <1>8, InitLogInv DEF FaithInv

\* Every step of record and replay keeps the trail, and the replay on it.
LEMMA StepKeepsFaith == FaithInv /\ [Next]_vars => FaithInv'
<1> SUFFICES ASSUME FaithInv, [Next]_vars PROVE FaithInv'
  OBVIOUS
<1>1. LogInv'
  BY StepKeepsLogInv DEF FaithInv
<1>2. TrailInv'
  <2>1. CASE RecordStep
    BY <2>1, RecordKeepsTrail DEF FaithInv, LogInv
  <2>2. CASE ~RecordStep
    <3>1. UNCHANGED <<goal, recordVars, world>>
      <4>1. CASE Present
        BY <4>1 DEF Present
      <4>2. CASE ReplayCommand
        BY <4>2 DEF ReplayCommand, Replaying, Rerun!IssueUpdate, Rerun!RefuseUpdate, Rerun!ctx
      <4>3. CASE ReplayStep
        BY <4>3 DEF ReplayStep, Replaying, Rerun!InitialGuard, Rerun!RejectTransition,
           Rerun!LoseTransition, Rerun!Transition, Rerun!ctx
      <4>4. CASE Settle
        BY <4>4 DEF Settle
      <4>5. CASE UNCHANGED vars
        BY <4>5 DEF vars
      <4> QED BY <2>2, <4>1, <4>2, <4>3, <4>4, <4>5 DEF Next, Returned
    <3> QED BY <3>1, TrailInvIsKept DEF FaithInv, LogInv
  <2> QED BY <2>1, <2>2
<1>3. FollowInv'
  <2>1. CASE RecordStep
    BY <2>1, RecordingFollows
  <2>2. CASE Present
    BY <2>2, PresentFollows
  <2>3. CASE ReplayCommand \/ ReplayStep
    BY <2>3, ReplayFollows
  <2>4. CASE Settle
    BY <2>4, SettleFollows
  <2>5. CASE UNCHANGED vars
    <3>1. UNCHANGED <<goal, limits, recordVars, world, log, guarded, rlimits, rphase, rsim, rupdates,
                      revents, rsamples, rcontact, rstop, rfailure>>
      BY <2>5 DEF vars, recordVars, replayVars
    <3>2. (Intact' => Intact) /\ (Followable' => Followable) /\ failure' = failure
          /\ (log' = NoLog' => log = NoLog)
      BY <3>1 DEF Intact, SavedLog, Sound, Followable, recordVars, NoLog
    <3>3. ASSUME Intact, Followable
          PROVE  (\E n \in Nat \ {0} : \E h : Trail(h, n) /\ StandsAt(h[n]) /\ OnTrail(h, n))'
      <4>1. PICK n \in Nat \ {0} : \E h : Trail(h, n) /\ StandsAt(h[n]) /\ OnTrail(h, n)
        BY <3>3 DEF FaithInv, FollowInv
      <4>2. PICK h : Trail(h, n) /\ StandsAt(h[n]) /\ OnTrail(h, n)
        BY <4>1
      <4>3. Trail(h, n)' /\ StandsAt(h[n])'
        BY <3>1, <4>2, ReplayingKeepsTrail DEF FaithInv, LogInv
      <4>4. OnTrail(h, n)'
        BY <3>1, <3>2, <4>2 DEF OnTrail, FailsAt, Replayed, Failed, Moment, Record!NoFailure
      <4> QED BY <4>3, <4>4
    <3>4. log = NoLog => Replayed' = Start' /\ rfailure' = Record!NoFailure'
      BY <3>1 DEF FaithInv, FollowInv, Replayed, Start, Moment, Record!NoFailure
    <3> QED BY <3>2, <3>3, <3>4 DEF FollowInv
  <2> QED BY <2>1, <2>2, <2>3, <2>4, <2>5 DEF Next, Returned
<1> QED BY <1>1, <1>2, <1>3 DEF FaithInv

\* A replay that has returned on the trail has flown all of it.
LEMMA ReturnedAtTheEnd ==
  ASSUME FaithInv, settled, Intact, Followable
  PROVE  \/ rfailure = Record!NoFailure /\ failure = Record!NoFailure /\ Replayed = Recorded
         \/ /\ failure # Record!NoFailure /\ Replayed = Recorded
            /\ rfailure.step = failure.step
            /\ \/ failure.stage = "CommandSelection" /\ rfailure.stage = "ReplayInput"
               \/ failure.stage = "PhysicsTransition" /\ rfailure.stage = "PhysicsTransition"
<1>1. PICK n \in Nat \ {0} : \E h : Trail(h, n) /\ StandsAt(h[n]) /\ OnTrail(h, n)
  BY DEF FaithInv, FollowInv
<1>2. PICK h : Trail(h, n) /\ StandsAt(h[n]) /\ OnTrail(h, n)
  BY <1>1
<1>3. rphase = "done"
  BY DEF FaithInv, LogInv, ReplayTypes
<1>4. CASE FailsAt(h[n])
  <2>1. failure # Record!NoFailure
    BY <1>4 DEF FailsAt, Record!NoFailure
  <2>2. Recorded = Failed(h[n])
    BY <1>2, <2>1 DEF StandsAt
  <2>3. rfailure.step = failure.step
    BY <1>2, <1>4, <2>1 DEF StandsAt, FailsAt
  <2> QED BY <1>4, <2>1, <2>2, <2>3 DEF FailsAt
<1>5. CASE rfailure = Record!NoFailure /\ \E i \in 1..n : Replayed = h[i]
  <2>1. PICK i \in 1..n : Replayed = h[i]
    BY <1>5
  <2>2. h[i].phase = "done"
    BY <1>3, <2>1, ReplayedParts
  <2>3. i = n
    <3>1. ~After(h[i], h[i + 1])
      BY <2>2 DEF After
    <3>2. i \notin 1..(n - 1)
      BY <1>2, <3>1 DEF Trail
    <3> QED BY <3>2
  <2> QED BY <1>2, <1>5, <2>1, <2>2, <2>3 DEF StandsAt
<1> QED BY <1>2, <1>4, <1>5 DEF OnTrail

\* The same log, flown again under the same limits, is the same flight: state, action log, events,
\* trace, contact, stop and failure; and a flight that had failed, numerically or for want of a
\* command, fails again at the same step with the same valid prefix (run_simulation_bounded and
\* replay_simulation_bounded).
THEOREM ReplayIsFaithful == Spec => []FaithfulReplay
<1>1. FaithInv => FaithfulReplay
  <2> SUFFICES ASSUME FaithInv, Untouched PROVE FaithfulReplay
    BY DEF FaithfulReplay
  <2>1. Intact /\ settled
    BY DEF Untouched, Intact, FaithInv, LogInv, ReplayTypes
  <2>2. Followable =>
          \/ rfailure = Record!NoFailure /\ failure = Record!NoFailure /\ Replayed = Recorded
          \/ /\ failure # Record!NoFailure /\ Replayed = Recorded
             /\ rfailure.step = failure.step
             /\ \/ failure.stage = "CommandSelection" /\ rfailure.stage = "ReplayInput"
                \/ failure.stage = "PhysicsTransition" /\ rfailure.stage = "PhysicsTransition"
    BY <2>1, ReturnedAtTheEnd
  <2>3. ASSUME Replayed = Recorded
        PROVE  /\ rsim = sim /\ ractions = actions /\ revents = events /\ rsamples = samples
               /\ rcontact = contact /\ rstop = stop
    <3>1. /\ rsim = sim /\ rupdates = updates /\ revents = events /\ rsamples = samples
          /\ rcontact = contact /\ rstop = stop
      <4>1. PICK m : m = Recorded
        OBVIOUS
      <4> QED BY <2>3, <4>1, RecordedParts, ReplayedParts
    <3>2. actions \in Seq(Entries) /\ Len(actions) = updates
      BY DEF FaithInv, LogInv, RecordTypes
    <3>3. ASSUME NEW S, NEW q \in Seq(S) PROVE SubSeq(q, 1, Len(q)) = q
      OBVIOUS
    <3>4. ractions = actions
      BY <2>1, <3>1, <3>2, <3>3, SameCommandsIssued DEF FaithInv
    <3> QED BY <3>1, <3>4
  <2>4. failure = Record!NoFailure => Followable
    BY DEF Followable, Record!NoFailure
  <2>5. failure.stage \in {"PhysicsTransition", "CommandSelection"} =>
          Followable /\ failure # Record!NoFailure
    BY DEF Followable, Record!NoFailure
  <2> QED BY <2>2, <2>3, <2>4, <2>5 DEF FaithfulReplay
<1>2. Spec => []FaithInv
  BY InitFaithInv, StepKeepsFaith, PTL DEF Spec
<1> QED BY <1>1, <1>2, PTL
=============================================================================

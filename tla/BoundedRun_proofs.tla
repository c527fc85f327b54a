-------------------------- MODULE BoundedRun_proofs --------------------------
(***************************************************************************)
(* Theorems about the bounded run: that it is one, that it ends with the     *)
(* flight or its limits, and what it tells of the flight (the mission's      *)
(* verdict, the contact evidence, the event log and the sampled trace), for   *)
(* every scenario, controller, guard and pair of limits.                    *)
(***************************************************************************)
EXTENDS MCBoundedRun, Plant_proofs, SequenceTheorems, TLAPS

----------------------------------------------------------------------------
(* The logs stay in their types.                                            *)

\* Short sequences, and functions on an initial segment, as sequences.
LEMMA ShortSeqs ==
  ASSUME NEW S, NEW a \in S, NEW b \in S
  PROVE  <<>> \in Seq(S) /\ <<a>> \in Seq(S) /\ <<a, b>> \in Seq(S)
OBVIOUS

\* A function on an initial segment of the naturals is a sequence.
LEMMA FunctionsAreSeqs ==
  ASSUME NEW S, NEW n \in Nat, NEW f \in [1..n -> S]
  PROVE  f \in Seq(S) /\ Len(f) = n
OBVIOUS

\* A terminal progress verdict names an event kind.
LEMMA EndIsEventKind ==
  ASSUME NEW s \in SimStates, Terminal(s)
  PROVE  s.end \in EventKinds
BY DEF Terminal, SimStates, EndReasons, EventKinds

\* A transition reports event kinds only.
LEMMA StepEventsType ==
  ASSUME NEW g \in Goals, NEW s \in SimStates, NEW o \in Outcomes
  PROVE  StepEvents(g, s, o) \in Seq(EventKinds)
<1> DEFINE moved == PhysicsStep(s)
           landed == ApplyContact(g, moved, o.contact)
           advanced == ApplyProgress(g, moved, o)
           passedEvents == IF advanced.passed > s.passed THEN <<"WaypointHandoffSatisfied">> ELSE <<>>
           failedEvents == IF advanced.failedAt # s.failedAt THEN <<"WaypointHandoffFailed">> ELSE <<>>
           endEvents == IF Terminal(advanced) THEN <<advanced.end, "MissionEnded">> ELSE <<>>
<1>1. moved \in SimStates
  BY DEF PhysicsStep, SimStates
<1>2. landed \in SimStates
  BY <1>1 DEF ApplyContact, TouchdownVerdict, SimStates, EndReasons, MissionOutcomes,
     PhysicalOutcomes
<1>3. advanced \in SimStates
  BY <1>1, ProgressKeepsType
<1>4. Terminal(landed) => <<landed.end, "MissionEnded">> \in Seq(EventKinds)
  BY <1>2, EndIsEventKind DEF EventKinds
<1>5. <<"MaxTimeReached", "MissionEnded">> \in Seq(EventKinds)
  BY DEF EventKinds
<1>6. passedEvents \in Seq(EventKinds) /\ failedEvents \in Seq(EventKinds)
  <2>1. "WaypointHandoffSatisfied" \in EventKinds /\ "WaypointHandoffFailed" \in EventKinds
    BY DEF EventKinds
  <2> HIDE DEF advanced
  <2> QED BY <2>1, ShortSeqs
<1>7. endEvents \in Seq(EventKinds)
  <2>1. "MissionEnded" \in EventKinds
    BY DEF EventKinds
  <2>2. Terminal(advanced) => advanced.end \in EventKinds
    BY <1>3, EndIsEventKind
  <2> HIDE DEF advanced
  <2> QED BY <2>1, <2>2, ShortSeqs
<1>8. ProgressEvents(g, s, advanced) \in Seq(EventKinds)
  <2> HIDE DEF passedEvents, failedEvents, endEvents, advanced
  <2>1. (passedEvents \o failedEvents) \o endEvents \in Seq(EventKinds)
    BY <1>6, <1>7, ConcatProperties
  <2> QED BY <2>1 DEF ProgressEvents, passedEvents, failedEvents, endEvents
<1> HIDE DEF landed, advanced, moved
<1> QED BY <1>4, <1>5, <1>8 DEF StepEvents, landed, advanced, moved

\* Stamping event kinds with a step gives event records.
LEMMA StampedType ==
  ASSUME NEW kinds \in Seq(EventKinds), NEW k \in Nat
  PROVE  Stamped(kinds, k) \in Seq([kind : EventKinds, step : Nat])
<1>1. Len(kinds) \in Nat /\ \A i \in 1..Len(kinds) : kinds[i] \in EventKinds
  BY ElementOfSeq, LenProperties
<1>2. Stamped(kinds, k) \in [1..Len(kinds) -> [kind : EventKinds, step : Nat]]
  BY <1>1 DEF Stamped
<1> QED BY <1>1, <1>2, FunctionsAreSeqs

\* One more event is one more event.
LEMMA EventLogType ==
  ASSUME NEW log \in Seq([kind : EventKinds, step : Nat]),
         NEW kinds \in Seq(EventKinds), NEW k \in Nat
  PROVE  log \o Stamped(kinds, k) \in Seq([kind : EventKinds, step : Nat])
BY StampedType, ConcatProperties

\* Sampling a step keeps the trace a sequence of steps.
LEMMA SampledType ==
  ASSUME NEW log \in Seq(Nat), NEW s \in SimStates
  PROVE  Sampled(log, s) \in Seq(Nat)
BY DEF Sampled, SimStates

----------------------------------------------------------------------------
(* Type correctness.                                                        *)

\* The driver's reason to stop is a stop cause, or none.
LEMMA BoundedStopType == BoundedStop(sim) \in StopCauses \cup {"None"}
BY DEF BoundedStop, StopCauses

\* A terminal state's reason to stop is a stop cause.
LEMMA TerminalStopType == \A s : TerminalStop(s) \in StopCauses
BY DEF TerminalStop, StopCauses

\* The run starts in its type.
LEMMA InitTypeOK == Init => TypeOK
<1> SUFFICES ASSUME Init PROVE TypeOK
  OBVIOUS
<1>1. NewSim \in SimStates
  BY PlantAssumption DEF NewSim, SimStates, EndReasons, MissionOutcomes, PhysicalOutcomes,
     NoIndex
<1>2. /\ <<>> \in Seq([step : Nat, index : Nat, command : Commands])
      /\ <<>> \in Seq([kind : EventKinds, step : Nat])
      /\ <<>> \in Seq(Nat)
  BY EmptySeq
<1>3. Sampled(<<>>, NewSim) \in Seq(Nat)
  BY <1>1, <1>2, SampledType
<1>4. goal \in Goals /\ limits \in [coverage : Nat, hardEnd : Nat]
  BY RunAssumption DEF Init
<1>5. NoContact \in [class : Contacts, step : Nat]
  BY DEF NoContact, Contacts
<1>6. NoFailure \in [stage : Stages \cup {"None"}, disposition : Verdicts, step : Nat]
  BY DEF NoFailure, Verdicts
<1> QED BY <1>1, <1>2, <1>3, <1>4, <1>5, <1>6 DEF Init, TypeOK

\* A rejection records a failure of the right type.
LEMMA RejectType ==
  ASSUME NEW stage \in Stages, NEW verdict \in Dispositions, NEW k \in Nat,
         Reject(stage, verdict, k)
  PROVE  /\ phase' = "done"
         /\ stop' \in StopCauses \cup {"None"}
         /\ failure' \in [stage : Stages \cup {"None"}, disposition : Verdicts, step : Nat]
BY DEF Reject, Dispositions, Verdicts, StopCauses

\* Every step keeps every variable in its type.
LEMMA NextTypeOK == TypeOK /\ [Next]_vars => TypeOK'
<1> SUFFICES ASSUME TypeOK, [Next]_vars PROVE TypeOK'
  OBVIOUS
<1> USE DEF TypeOK
<1>0. sim.step \in Nat
  BY DEF SimStates
<1>1. ASSUME NEW v \in Verdicts, InitialGuard(v) PROVE TypeOK'
  <2>1. UNCHANGED <<goal, limits, sim, updates, actions, events, samples, contact>>
    BY <1>1 DEF InitialGuard, ctx
  <2>2. CASE v # "Ok"
    <3>1. v \in Dispositions /\ Reject("InitialGuard", v, sim.step)
      BY <1>1, <2>2 DEF InitialGuard, Dispositions
    <3>2. "InitialGuard" \in Stages
      BY DEF Stages
    <3> QED BY <1>0, <2>1, <3>1, <3>2, RejectType
  <2>3. CASE v = "Ok"
    BY <1>1, <2>1, <2>3, BoundedStopType DEF InitialGuard, Finish
  <2> QED BY <2>2, <2>3
<1>2. ASSUME NEW c \in Commands, IssueUpdate(c) PROVE TypeOK'
  <2>1. [sim EXCEPT !.held = c] \in SimStates
    BY DEF SimStates
  <2>2. Append(actions, [step |-> sim.step, index |-> updates, command |-> c])
          \in Seq([step : Nat, index : Nat, command : Commands])
    BY <1>0
  <2>3. events \o Stamped(<<"ControllerUpdated">>, sim.step) \in Seq([kind : EventKinds, step : Nat])
    <3>1. "ControllerUpdated" \in EventKinds
      BY DEF EventKinds
    <3>2. <<"ControllerUpdated">> \in Seq(EventKinds)
      BY <3>1, ShortSeqs
    <3> QED BY <1>0, <3>2, EventLogType
  <2> QED BY <1>2, <2>1, <2>2, <2>3 DEF IssueUpdate, ctx
<1>3. CASE RefuseUpdate("CommandSelection")
  <2>1. "CommandSelection" \in Stages /\ "ExecutionInvalid" \in Dispositions
    BY DEF Stages, Dispositions, Verdicts
  <2> QED BY <1>0, <1>3, <2>1, RejectType DEF RefuseUpdate, ctx
<1>4. ASSUME NEW v \in Dispositions, RejectTransition(v) PROVE TypeOK'
  <2>1. "PreTransitionGuard" \in Stages
    BY DEF Stages
  <2> QED BY <1>0, <1>4, <2>1, RejectType DEF RejectTransition, ctx
<1>5. CASE LoseTransition
  <2>1. "PhysicsTransition" \in Stages /\ "ExecutionInvalid" \in Dispositions /\ sim.step + 1 \in Nat
    BY <1>0 DEF Stages, Dispositions, Verdicts
  <2> QED BY <1>5, <2>1, RejectType DEF LoseTransition, ctx
<1>6. ASSUME NEW o \in Outcomes, NEW v \in Verdicts, Transition(o, v) PROVE TypeOK'
  <2> DEFINE next == StepSim(goal, sim, o)
  <2>1. next \in SimStates /\ next.step \in Nat
    BY StepSimKeepsType DEF SimStates
  <2>2. events \o Stamped(StepEvents(goal, sim, o), next.step)
          \in Seq([kind : EventKinds, step : Nat])
    BY <2>1, StepEventsType, EventLogType
  <2>3. Sampled(samples, next) \in Seq(Nat)
    BY <2>1, SampledType
  <2>4. [class |-> o.contact, step |-> next.step] \in [class : Contacts, step : Nat]
    BY <2>1 DEF Outcomes
  <2>5. BoundedStop(next) \in StopCauses
        \/ BoundedStop(next) = "None"
    BY DEF BoundedStop, StopCauses
  <2>6. TerminalStop(next) \in StopCauses
    BY TerminalStopType
  <2>7. "PostTransitionGuard" \in Stages
    BY DEF Stages
  <2> HIDE DEF next
  <2>8. /\ sim' = next
        /\ events' = events \o Stamped(StepEvents(goal, sim, o), next.step)
        /\ samples' = Sampled(samples, next)
        /\ contact' = IF o.contact = "None" THEN contact
                      ELSE [class |-> o.contact, step |-> next.step]
        /\ UNCHANGED <<goal, limits, updates, actions>>
    BY <1>6 DEF Transition, ctx, next
  <2>9. /\ phase' \in {"initial", "command", "transition", "done"}
        /\ stop' \in StopCauses \cup {"None"}
        /\ failure' \in [stage : Stages \cup {"None"}, disposition : Verdicts, step : Nat]
    <3>1. CASE v # "Ok"
      <4>1. v \in Dispositions /\ Reject("PostTransitionGuard", v, next.step)
        BY <1>6, <3>1 DEF Transition, Dispositions, next
      <4> QED BY <2>1, <2>7, <4>1, RejectType
    <3>2. CASE v = "Ok"
      BY <1>6, <2>5, <2>6, <3>2 DEF Transition, Finish, next
    <3> QED BY <3>1, <3>2
  <2> QED BY <2>1, <2>2, <2>3, <2>4, <2>8, <2>9
<1>7. CASE UNCHANGED vars
  BY <1>7 DEF vars
<1> QED BY <1>1, <1>2, <1>3, <1>4, <1>5, <1>6, <1>7 DEF Next, Returned

\* The state of run_simulation_bounded is well typed at every boundary,
\* whatever the plant, the controller and the guard answer.
THEOREM TypeCorrect == Spec => []TypeOK
BY InitTypeOK, NextTypeOK, PTL DEF Spec

----------------------------------------------------------------------------
(* The inductive invariant.  None of the three safety invariants below is   *)
(* inductive alone: the log is the flight only because the phase knows      *)
(* where on the control clock the run stands, and the limits hold only      *)
(* because no phase but "done" is reached with a reason to stop pending.    *)

IInv == TypeOK /\ PhaseClock /\ ActionLogIsFlight /\ WithinLimits /\ StopTruth

\* The run starts in the inductive invariant.
LEMMA InitIInv == Init => IInv
<1> SUFFICES ASSUME Init PROVE IInv
  OBVIOUS
<1>1. TypeOK
  BY InitTypeOK
<1>2. 0 * Interval = 0
  BY PlantAssumption, Z3
<1>3. PhaseClock
  BY DEF Init, PhaseClock
<1>4. ActionLogIsFlight
  BY <1>2 DEF Init, ActionLogIsFlight, NewSim
<1>5. WithinLimits
  BY <1>1 DEF Init, WithinLimits, NewSim, TypeOK
<1>6. StopTruth
  BY DEF Init, StopTruth, NewSim, Terminal, NoFailure, Dispositions, Verdicts
<1> QED BY <1>1, <1>3, <1>4, <1>5, <1>6 DEF IInv

\* A run that stops where it stands keeps the whole invariant.
LEMMA RejectHere ==
  ASSUME IInv, TypeOK', ~Terminal(sim),
         NEW stage, NEW verdict \in Dispositions, NEW k,
         Reject(stage, verdict, k),
         UNCHANGED <<ctx, sim, updates, actions, events, samples, contact>>
  PROVE  IInv'
<1>1. /\ phase' = "done" /\ stop' = verdict
      /\ failure' = [stage |-> stage, disposition |-> verdict, step |-> k]
  BY DEF Reject
<1>2. UNCHANGED <<limits, sim, updates, actions>>
  BY DEF ctx
<1>3. verdict \in {"SafetyRejected", "ExecutionInvalid"} /\ failure' # NoFailure
  BY <1>1 DEF Dispositions, Verdicts, NoFailure
<1>4. PhaseClock'
  BY <1>1 DEF PhaseClock
<1>5. ActionLogIsFlight' /\ WithinLimits'
  BY <1>2 DEF IInv, ActionLogIsFlight, WithinLimits
<1>6. StopTruth'
  BY <1>1, <1>2, <1>3 DEF StopTruth, Dispositions
<1> QED BY <1>4, <1>5, <1>6 DEF IInv

\* The initial guard, and the limits consulted after it, keep the invariant.
LEMMA InitialGuardIInv ==
  ASSUME IInv, TypeOK', NEW v \in Verdicts, InitialGuard(v)
  PROVE  IInv'
<1>1. sim = NewSim /\ updates = 0 /\ ~Terminal(sim) /\ sim.step = 0
  BY DEF IInv, PhaseClock, InitialGuard, NewSim, Terminal
<1>2. CASE v # "Ok"
  <2>1. v \in Dispositions /\ Reject("InitialGuard", v, sim.step)
    BY <1>2 DEF InitialGuard, Dispositions
  <2> QED BY <1>1, <2>1, RejectHere DEF InitialGuard
<1>3. CASE v = "Ok"
  <2>1. UNCHANGED <<limits, sim, updates, actions, failure>>
    BY <1>3 DEF InitialGuard, ctx, Finish
  <2>2. ActionLogIsFlight' /\ WithinLimits'
    BY <2>1 DEF IInv, ActionLogIsFlight, WithinLimits
  <2>3. CASE BoundedStop(sim) # "None"
    <3>1. phase' = "done" /\ stop' = BoundedStop(sim)
      BY <1>3, <2>3 DEF InitialGuard, Finish
    <3>2. PhaseClock'
      BY <3>1 DEF PhaseClock
    <3>3. failure = NoFailure
      BY DEF IInv, StopTruth, InitialGuard, Dispositions, Verdicts
    <3>4. StopTruth'
      BY <1>1, <2>1, <2>3, <3>1, <3>3
         DEF StopTruth, BoundedStop, Dispositions, Verdicts, IInv, TypeOK
    <3> QED BY <2>2, <3>2, <3>4 DEF IInv
  <2>4. CASE BoundedStop(sim) = "None"
    <3>1. phase' = "command" /\ UNCHANGED stop
      BY <1>3, <2>4 DEF InitialGuard
    <3>2. 0 * Interval = 0
      BY PlantAssumption, Z3
    <3>3. BoundedStop(sim)' = "None"
      BY <2>1, <2>4 DEF BoundedStop
    <3>4. PhaseClock'
      BY <1>1, <2>1, <3>1, <3>2, <3>3 DEF PhaseClock
    <3>5. StopTruth'
      BY <1>1, <2>1, <3>1 DEF StopTruth, IInv, InitialGuard
    <3> QED BY <2>2, <3>4, <3>5 DEF IInv
  <2> QED BY <2>3, <2>4
<1> QED BY <1>2, <1>3

\* An admitted command extends the log by the entry due at this boundary.
LEMMA IssueUpdateIInv ==
  ASSUME IInv, TypeOK', NEW c \in Commands, IssueUpdate(c)
  PROVE  IInv'
<1> DEFINE entry == [step |-> sim.step, index |-> updates, command |-> c]
<1>1. /\ phase' = "transition" /\ updates' = updates + 1
      /\ sim' = [sim EXCEPT !.held = c]
      /\ actions' = Append(actions, entry)
      /\ UNCHANGED <<limits, stop, failure>>
  BY DEF IssueUpdate, ctx
<1>2. /\ sim \in SimStates /\ updates \in Nat /\ sim.step \in Nat
      /\ actions \in Seq([step : Nat, index : Nat, command : Commands])
      /\ limits.hardEnd \in Nat /\ limits.coverage \in Nat
  BY DEF IInv, TypeOK, SimStates
<1>3. /\ sim'.step = sim.step /\ sim'.held = c
      /\ Terminal(sim') = Terminal(sim) /\ sim'.end = sim.end
  BY <1>1, <1>2 DEF SimStates, Terminal
<1>4. sim.step = updates * Interval /\ ~Terminal(sim) /\ BoundedStop(sim) = "None"
  BY DEF IInv, PhaseClock, IssueUpdate
<1>5. sim.step < limits.hardEnd /\ sim.step < limits.coverage
  BY <1>2, <1>4 DEF BoundedStop
<1>6. /\ Len(actions) = updates
      /\ Len(actions') = updates + 1
      /\ \A i \in 1..updates : actions'[i] = actions[i]
      /\ actions'[updates + 1] = entry
  BY <1>1, <1>2 DEF IInv, ActionLogIsFlight
<1>7. /\ updates * Interval \in Nat
      /\ (updates + 1) * Interval = updates * Interval + Interval
      /\ (updates + 1 - 1) * Interval = updates * Interval
      /\ Interval \in Nat \ {0}
  BY <1>2, NextMultiple, PlantAssumption
<1>8. PhaseClock'
  <2>1. BoundedStop(sim)' = "None"
    BY <1>1, <1>3, <1>4 DEF BoundedStop
  <2>2. updates' - 1 = updates /\ updates' = updates + 1
    BY <1>1, <1>2
  <2>3. ~Terminal(sim)'
    BY <1>3, <1>4 DEF Terminal
  <2>4. sim'.step \in ((updates' - 1) * Interval)..(updates' * Interval - 1)
    <3>1. (updates' - 1) * Interval = updates * Interval
      BY <2>2
    <3>2. updates' * Interval = updates * Interval + Interval
      BY <1>7, <2>2
    <3>3. ASSUME NEW x \in Nat, NEW n \in Nat \ {0} PROVE x \in x..(x + n - 1)
      BY <3>3
    <3> QED BY <1>3, <1>4, <1>7, <3>1, <3>2, <3>3
  <2>5. phase' = "transition"
    BY <1>1
  <2> QED BY <2>1, <2>3, <2>4, <2>5 DEF PhaseClock
<1>9. ActionLogIsFlight'
  <2>1. \A i \in 1..(updates + 1) :
          actions'[i].step = (i - 1) * Interval /\ actions'[i].index = i - 1
    <3> SUFFICES ASSUME NEW i \in 1..(updates + 1)
                 PROVE  actions'[i].step = (i - 1) * Interval /\ actions'[i].index = i - 1
      OBVIOUS
    <3>1. CASE i \in 1..updates
      BY <1>6, <3>1 DEF IInv, ActionLogIsFlight
    <3>2. CASE i = updates + 1
      <4>1. i - 1 = updates
        BY <1>2, <3>2
      <4> QED BY <1>4, <1>6, <3>2, <4>1
    <3> QED BY <1>2, <3>1, <3>2
  <2>2. sim'.step <= (updates + 1) * Interval
    BY <1>3, <1>4, <1>7
  <2>3. sim'.held = actions'[updates + 1].command /\ updates + 1 # 0
    BY <1>2, <1>3, <1>6
  <2> QED BY <1>1, <1>6, <2>1, <2>2, <2>3 DEF ActionLogIsFlight
<1>10. WithinLimits'
  <2>1. \A i \in 1..(updates + 1) :
          actions'[i].step < limits.hardEnd /\ actions'[i].step < limits.coverage
    BY <1>2, <1>5, <1>6 DEF IInv, WithinLimits
  <2> QED BY <1>1, <1>2, <1>3, <1>5, <1>6, <2>1 DEF WithinLimits
<1>11. StopTruth'
  BY <1>1, <1>3, <1>4 DEF StopTruth, IInv, IssueUpdate
<1> QED BY <1>8, <1>9, <1>10, <1>11 DEF IInv

\* A flown step keeps the invariant: it stays inside the held interval, and
\* stops at the first limit it reaches.
LEMMA TransitionIInv ==
  ASSUME IInv, TypeOK', NEW o \in Outcomes, NEW v \in Verdicts, Transition(o, v)
  PROVE  IInv'
<1> DEFINE next == StepSim(goal, sim, o)
<1>1. /\ sim \in SimStates /\ sim.step \in Nat /\ updates \in Nat /\ goal \in Goals
      /\ limits.hardEnd \in Nat /\ limits.coverage \in Nat
      /\ actions \in Seq([step : Nat, index : Nat, command : Commands])
  BY DEF IInv, TypeOK, SimStates
<1>2. next.step = sim.step + 1 /\ next.held = sim.held
  BY <1>1, StepSimKeepsType
<1> HIDE DEF next
<1>3. sim' = next /\ UNCHANGED <<limits, updates, actions>> /\ phase = "transition"
  BY DEF Transition, ctx, next
<1>4. /\ sim.step \in ((updates - 1) * Interval)..(updates * Interval - 1)
      /\ ~Terminal(sim) /\ BoundedStop(sim) = "None"
  BY <1>3 DEF IInv, PhaseClock
<1>5. sim.step < limits.hardEnd /\ sim.step < limits.coverage
  BY <1>1, <1>4 DEF BoundedStop
<1>6. failure = NoFailure
  BY <1>3 DEF IInv, StopTruth, Dispositions, Verdicts
<1>7. updates * Interval \in Nat
  BY <1>1, NextMultiple
<1>8. ActionLogIsFlight'
  <2>1. next.step <= updates * Interval
    BY <1>1, <1>2, <1>4, <1>7
  <2> QED BY <1>2, <1>3, <2>1 DEF IInv, ActionLogIsFlight
<1>9. WithinLimits'
  <2>1. next.step <= limits.hardEnd /\ next.step <= limits.coverage
    BY <1>1, <1>2, <1>5
  <2> QED BY <1>3, <2>1 DEF IInv, WithinLimits
<1>10. CASE v # "Ok"
  <2>1. v \in Dispositions /\ Reject("PostTransitionGuard", v, next.step)
    BY <1>10 DEF Transition, Dispositions, next
  <2>2. /\ phase' = "done" /\ stop' = v
        /\ failure' = [stage |-> "PostTransitionGuard", disposition |-> v, step |-> next.step]
    BY <2>1 DEF Reject
  <2>3. PhaseClock'
    BY <2>2 DEF PhaseClock
  <2>4. StopTruth'
    BY <2>1, <2>2 DEF StopTruth, Dispositions, Verdicts, NoFailure
  <2> QED BY <1>8, <1>9, <2>3, <2>4 DEF IInv
<1>11. CASE v = "Ok" /\ Terminal(next)
  <2>1. phase' = "done" /\ stop' = TerminalStop(next) /\ UNCHANGED failure
    BY <1>11 DEF Transition, Finish, next
  <2>2. PhaseClock'
    BY <2>1 DEF PhaseClock
  <2>3. StopTruth'
    BY <1>3, <1>6, <1>11, <2>1 DEF StopTruth, TerminalStop, Dispositions, Verdicts
  <2> QED BY <1>8, <1>9, <2>2, <2>3 DEF IInv
<1>12. CASE v = "Ok" /\ ~Terminal(next) /\ BoundedStop(next) # "None"
  <2>1. phase' = "done" /\ stop' = BoundedStop(next) /\ UNCHANGED failure
    BY <1>12 DEF Transition, Finish, next
  <2>2. PhaseClock'
    BY <2>1 DEF PhaseClock
  <2>3. StopTruth'
    BY <1>1, <1>2, <1>3, <1>5, <1>6, <1>12, <2>1
       DEF StopTruth, BoundedStop, Dispositions, Verdicts
  <2> QED BY <1>8, <1>9, <2>2, <2>3 DEF IInv
<1>13. CASE v = "Ok" /\ ~Terminal(next) /\ BoundedStop(next) = "None"
  <2>1. /\ phase' = IF ControlBoundary(next.step) THEN "command" ELSE "transition"
        /\ UNCHANGED <<stop, failure>>
    BY <1>13 DEF Transition, next
  <2>2. BoundedStop(sim)' = "None"
    BY <1>3, <1>13 DEF BoundedStop
  <2>3. /\ ControlBoundary(next.step) => next.step = updates * Interval
        /\ ~ControlBoundary(next.step) =>
             next.step \in ((updates - 1) * Interval)..(updates * Interval - 1)
    BY <1>1, <1>2, <1>4, BoundaryEndsInterval
  <2>4. PhaseClock'
    BY <1>3, <1>13, <2>1, <2>2, <2>3 DEF PhaseClock
  <2>5. StopTruth'
    BY <1>3, <1>13, <2>1 DEF StopTruth, IInv
  <2> QED BY <1>8, <1>9, <2>4, <2>5 DEF IInv
<1> QED BY <1>10, <1>11, <1>12, <1>13

\* The invariant is inductive.
LEMMA NextIInv == IInv /\ [Next]_vars => IInv'
<1> SUFFICES ASSUME IInv, [Next]_vars PROVE IInv'
  OBVIOUS
<1>0. TypeOK'
  BY NextTypeOK DEF IInv
<1>1. ASSUME NEW v \in Verdicts, InitialGuard(v) PROVE IInv'
  BY <1>0, <1>1, InitialGuardIInv
<1>2. ASSUME NEW c \in Commands, IssueUpdate(c) PROVE IInv'
  BY <1>0, <1>2, IssueUpdateIInv
<1>3. CASE RefuseUpdate("CommandSelection")
  <2>1. ~Terminal(sim) /\ "ExecutionInvalid" \in Dispositions
    BY <1>3 DEF IInv, PhaseClock, RefuseUpdate, Dispositions, Verdicts
  <2> QED BY <1>0, <1>3, <2>1, RejectHere DEF RefuseUpdate
<1>4. ASSUME NEW v \in Dispositions, RejectTransition(v) PROVE IInv'
  <2>1. ~Terminal(sim)
    BY <1>4 DEF IInv, PhaseClock, RejectTransition
  <2> QED BY <1>0, <1>4, <2>1, RejectHere DEF RejectTransition
<1>5. CASE LoseTransition
  <2>1. ~Terminal(sim) /\ "ExecutionInvalid" \in Dispositions
    BY <1>5 DEF IInv, PhaseClock, LoseTransition, Dispositions, Verdicts
  <2> QED BY <1>0, <1>5, <2>1, RejectHere DEF LoseTransition
<1>6. ASSUME NEW o \in Outcomes, NEW v \in Verdicts, Transition(o, v) PROVE IInv'
  BY <1>0, <1>6, TransitionIInv
<1>7. CASE UNCHANGED vars
  BY <1>0, <1>7 DEF vars, IInv, PhaseClock, ActionLogIsFlight, WithinLimits, StopTruth, BoundedStop
<1> QED BY <1>1, <1>2, <1>3, <1>4, <1>5, <1>6, <1>7 DEF Next, Returned

\* The invariant holds of every run.
LEMMA Invariance == Spec => []IInv
BY InitIInv, NextIInv, PTL DEF Spec

\* The saved action log is the flight, for every plant, controller, guard and
\* pair of limits: entry i belongs to control boundary i, every step was flown
\* under a logged command, and the held command is the last one logged.
THEOREM LogIsFlight == Spec => []ActionLogIsFlight
BY Invariance, PTL DEF IInv

\* The phase never disagrees with the control clock.
THEOREM PhaseKeepsClock == Spec => []PhaseClock
BY Invariance, PTL DEF IInv

\* Neither the flight nor its log ever reaches past a limit.
THEOREM LimitsHold == Spec => []WithinLimits
BY Invariance, PTL DEF IInv

\* Both at once, as the runs check them: a command is due on the control clock
\* only, and nothing happens beyond the two limits.
THEOREM ClockAndLimitsHold == Spec => []ClockAndLimits
BY PhaseKeepsClock, LimitsHold, PTL DEF ClockAndLimits

\* The stop cause is always the first reason that holds, and a terminal state
\* is never left behind.
THEOREM StopIsTrue == Spec => []StopTruth
BY Invariance, PTL DEF IInv

----------------------------------------------------------------------------
(* The run implements the control clock.                                    *)

\* A run starts where the control clock starts.
LEMMA InitMapsToInit == Init => Clock!Init
<1>1. 0 * Interval - 0 = 0
  BY PlantAssumption, Z3
<1> QED BY <1>1 DEF Init, NewSim, Clock!Init

\* Ending the flight where it stands is the clock's Stop.
LEMMA RejectStops ==
  ASSUME NEW stage, NEW verdict, NEW k, phase # "done",
         Reject(stage, verdict, k), UNCHANGED <<sim, updates>>
  PROVE  Clock!Stop
<1>1. phase' = "done" /\ sim' = sim /\ updates' = updates
  BY DEF Reject
<1> QED BY <1>1 DEF Clock!Stop

\* Every step of the run is a step of the control clock or leaves it alone.
LEMMA StepMapsToStep == IInv /\ [Next]_vars => [Clock!Next]_(Clock!clockVars)
<1> SUFFICES ASSUME IInv, [Next]_vars
             PROVE  Clock!Next \/ UNCHANGED Clock!clockVars
  OBVIOUS
<1> USE DEF Clock!Next, Clock!clockVars
<1>0. /\ sim \in SimStates /\ sim.step \in Nat /\ updates \in Nat /\ goal \in Goals
      /\ updates * Interval \in Nat /\ Interval \in Nat \ {0}
  BY NextMultiple, PlantAssumption DEF IInv, TypeOK, SimStates
<1>1. ASSUME NEW v \in Verdicts, InitialGuard(v) PROVE Clock!Next \/ UNCHANGED Clock!clockVars
  <2>1. phase = "initial" /\ UNCHANGED <<sim, updates>>
    BY <1>1 DEF InitialGuard
  <2>2. phase' = "done" \/ phase' = "command"
    BY <1>1 DEF InitialGuard, Reject, Finish
  <2> QED BY <2>1, <2>2 DEF Clock!Stop
<1>2. ASSUME NEW c \in Commands, IssueUpdate(c) PROVE Clock!Next
  <2>1. /\ phase = "command" /\ phase' = "transition"
        /\ updates' = updates + 1 /\ sim' = [sim EXCEPT !.held = c]
    BY <1>2 DEF IssueUpdate
  <2>2. sim'.step = sim.step
    BY <1>0, <2>1 DEF SimStates
  <2>3. sim.step = updates * Interval
    BY <2>1 DEF IInv, PhaseClock
  <2>4. updates' * Interval = updates * Interval + Interval
    BY <1>0, <2>1, NextMultiple
  <2>5. updates * Interval - sim.step = 0 /\ updates' * Interval - sim'.step = Interval
    BY <1>0, <2>2, <2>3, <2>4
  <2>6. UNCHANGED <<sim.step, phase = "done">>
    BY <2>1, <2>2
  <2> QED BY <2>1, <2>5, <2>6 DEF Clock!Select
<1>3. CASE RefuseUpdate("CommandSelection")
  BY <1>3, RejectStops DEF RefuseUpdate
<1>4. ASSUME NEW v \in Dispositions, RejectTransition(v) PROVE Clock!Next
  BY <1>4, RejectStops DEF RejectTransition
<1>5. CASE LoseTransition
  BY <1>5, RejectStops DEF LoseTransition
<1>6. ASSUME NEW o \in Outcomes, NEW v \in Verdicts, Transition(o, v) PROVE Clock!Next
  <2>1. phase = "transition" /\ updates' = updates /\ sim' = StepSim(goal, sim, o)
    BY <1>6 DEF Transition
  <2>2. sim'.step = sim.step + 1
    BY <1>0, <2>1, StepSimKeepsType
  <2>3. sim.step < updates * Interval
    BY <1>0, <2>1 DEF IInv, PhaseClock
  <2>4. updates * Interval - sim.step > 0
    BY <1>0, <2>3
  <2>5. updates' * Interval - sim'.step = updates * Interval - sim.step - 1
    BY <1>0, <2>1, <2>2
  <2>6. phase # "done" /\ (phase' = "done") \in BOOLEAN
    BY <2>1
  <2> QED BY <2>2, <2>4, <2>5, <2>6 DEF Clock!Hold
<1>7. CASE UNCHANGED vars
  BY <1>7 DEF vars
<1> QED BY <1>1, <1>2, <1>3, <1>4, <1>5, <1>6, <1>7 DEF Next, Returned

\* Every bounded run, whatever the plant, the controller, the guard and the
\* limits do, selects a command exactly when the last one has been held for a
\* whole interval.
THEOREM RunImplementsClock == Spec => ImplementsClock
BY InitMapsToInit, StepMapsToStep, Invariance, PTL DEF Spec, ImplementsClock, Clock!Spec

----------------------------------------------------------------------------
(* The invariant of the records.                                            *)

\* How a flight that has ended was judged, and how far its route was passed.
Ended(g, s) ==
  CASE s.end = "Running" -> s.mission = "InProgress" /\ s.physical = "Flying"
    [] s.end = "TouchdownOnTarget" ->
         s.mission = TouchdownVerdict(g, "Success") /\ s.physical = "LandedOnTarget"
    [] s.end = "TouchdownOffTarget" ->
         s.mission = TouchdownVerdict(g, "FailedOffTarget") /\ s.physical = "LandedOffTarget"
    [] s.end = "Crash" -> s.mission = "FailedCrash" /\ s.physical = "Crashed"
    [] s.end = "MaxTimeReached" -> s.mission = "FailedTimeout" /\ s.physical = "TimedOut"
    [] s.end = "CheckpointSatisfied" ->
         s.mission = "Success" /\ s.physical = "Flying" /\ g # "LandingOnPad"
    [] OTHER -> s.mission = "FailedCheckpoint" /\ s.physical = "Flying" /\ g # "LandingOnPad"
Passed(g, s) ==
  /\ g = "WaypointSequence" => s.window \in {NoIndex, s.passed}
  /\ s.failedAt # NoIndex => s.end = "CheckpointFailed" /\ s.failedAt = s.passed
  /\ g = "WaypointSequence" /\ s.end = "CheckpointFailed" => s.failedAt # NoIndex
  /\ g = "WaypointSequence" => (s.passed = Waypoints <=> s.end = "CheckpointSatisfied")
MissionJudged == Ended(goal, sim) /\ Passed(goal, sim)

\* The contact that was kept is the one that ended the flight.
ContactKept(c, s) ==
  IF s.end \in {"TouchdownOnTarget", "TouchdownOffTarget", "Crash"}
  THEN /\ c.step = s.step
       /\ c.class = CASE s.end = "TouchdownOnTarget" -> "OnTarget"
                      [] s.end = "TouchdownOffTarget" -> "OffTarget"
                      [] OTHER -> "Crash"
  ELSE c = NoContact

\* The log of events closes where the flight ends.
Closed(log, s) ==
  /\ \A i \in 1..Len(log) : log[i].kind = "MissionEnded" <=> (Terminal(s) /\ i = Len(log))
  /\ Terminal(s) =>
       /\ Len(log) >= 2
       /\ log[Len(log)] = [kind |-> "MissionEnded", step |-> s.step]
       /\ log[Len(log) - 1] = [kind |-> s.end, step |-> s.step]

\* The trace is what has been flown of the sample clock, and the end.
OnTrace(s, k) == k \in 0..s.step /\ (k % SampleInterval = 0 \/ (Terminal(s) /\ k = s.step))
TraceOf(log, s) ==
  SampleInterval # 0 =>
    /\ log # <<>>
    /\ \A i \in 1..(Len(log) - 1) : log[i] < log[i + 1]
    /\ \A i \in 1..Len(log) : OnTrace(s, log[i])
    /\ \A k \in 0..s.step : OnTrace(s, k) => \E i \in 1..Len(log) : log[i] = k

RecordInv ==
  /\ MissionJudged /\ ContactKept(contact, sim) /\ Closed(events, sim) /\ TraceOf(samples, sim)

----------------------------------------------------------------------------
(* One transition, as the mission judges it.                                *)

\* Judging a waypoint of a flight that goes on ends it as the verdict says, and passes at most
\* that waypoint.
LEMMA WaypointIsJudged ==
  ASSUME NEW g \in {"WaypointHandoff", "WaypointSequence"}, NEW s \in SimStates, NEW o,
         NEW i \in Indices, g = "WaypointHandoff" \/ i = s.passed,
         ~Terminal(s), Ended(g, s), Passed(g, s)
  PROVE  LET t == WaypointProgress(g, s, i, o)
         IN  /\ Ended(g, t) /\ Passed(g, t) /\ t.passed \in {s.passed, s.passed + 1}
             /\ t.end \in {"Running", "CheckpointSatisfied", "CheckpointFailed"}
<1> DEFINE Good(t) == /\ Ended(g, t) /\ Passed(g, t) /\ t.passed \in {s.passed, s.passed + 1}
                      /\ t.end \in {"Running", "CheckpointSatisfied", "CheckpointFailed"}
           open == [s EXCEPT !.window = IF o.capture THEN i ELSE @]
           closed == [s EXCEPT !.window = NoIndex]
           failed == [closed EXCEPT !.failedAt = i]
           next == [closed EXCEPT !.passed = @ + 1]
<1>1. /\ s.end = "Running" /\ s.mission = "InProgress" /\ s.physical = "Flying"
      /\ s.failedAt = NoIndex /\ s.passed \in 0..Waypoints
      /\ g = "WaypointSequence" => s.passed # Waypoints
  BY DEF Terminal, Ended, Passed, SimStates
<1>2. Good(open)
  BY <1>1 DEF Ended, Passed, SimStates
<1>3. g = "WaypointHandoff" => Good(Satisfy(closed)) /\ Good(Fail(closed))
  BY <1>1 DEF Satisfy, Fail, Ended, Passed, SimStates
<1>4. g = "WaypointSequence" => Good(Fail(failed))
  BY <1>1 DEF Fail, Ended, Passed, SimStates, Indices, NoIndex
<1>5. g = "WaypointSequence" /\ next.passed = Waypoints => Good(Satisfy(next))
  BY <1>1 DEF Satisfy, Ended, Passed, SimStates
<1>6. g = "WaypointSequence" /\ next.passed # Waypoints => Good(next)
  BY <1>1 DEF Ended, Passed, SimStates
<1> HIDE DEF open, closed, failed, next, Good
<1>7. Good(WaypointProgress(g, s, i, o))
  BY <1>2, <1>3, <1>4, <1>5, <1>6 DEF WaypointProgress, open, closed, failed, next
<1> QED BY <1>7 DEF Good

\* What progress makes of a contact-free step; a waypoint is passed or failed on the control
\* clock only.
LEMMA ProgressIsJudged ==
  ASSUME NEW g \in Goals, NEW s \in SimStates, NEW o \in Outcomes,
         ~Terminal(s), Ended(g, s), Passed(g, s)
  PROVE  LET t == ApplyProgress(g, s, o)
         IN  /\ Ended(g, t) /\ Passed(g, t) /\ t.passed \in {s.passed, s.passed + 1}
             /\ t.end \in {"Running", "CheckpointSatisfied", "CheckpointFailed"}
             /\ t.passed # s.passed \/ t.failedAt # s.failedAt => ControlBoundary(s.step)
<1> DEFINE i == JudgedWaypoint(g, s)
<1>1. s.end = "Running"
  BY DEF Terminal
<1>2. CASE g = "TimedCheckpoint"
  BY <1>1, <1>2 DEF ApplyProgress, Satisfy, Fail, Ended, Passed, SimStates
<1>3. CASE g # "TimedCheckpoint" /\ i = NoIndex
  BY <1>1, <1>3 DEF ApplyProgress
<1>4. CASE g # "TimedCheckpoint" /\ i # NoIndex
  <2>1. /\ i \in Indices /\ (g = "WaypointHandoff" \/ i = s.passed)
        /\ g \in {"WaypointHandoff", "WaypointSequence"} /\ ControlBoundary(s.step)
    BY <1>4, JudgedWaypointIsOnRoute DEF JudgedWaypoint
  <2>2. ApplyProgress(g, s, o) = WaypointProgress(g, s, i, o)
    BY <1>4 DEF ApplyProgress
  <2> HIDE DEF i
  <2> QED BY <2>1, <2>2, WaypointIsJudged
<1> QED BY <1>2, <1>3, <1>4

\* A transition from a flight that goes on.
LEMMA StepIsJudged ==
  ASSUME NEW g \in Goals, NEW s \in SimStates, NEW o \in Outcomes,
         ~Terminal(s), Ended(g, s), Passed(g, s)
  PROVE  LET t == StepSim(g, s, o)
         IN  /\ Ended(g, t) /\ Passed(g, t) /\ t.passed \in {s.passed, s.passed + 1}
             /\ t.passed # s.passed \/ t.failedAt # s.failedAt => ControlBoundary(t.step)
             /\ o.contact = "None" =>
                  t.end \notin {"TouchdownOnTarget", "TouchdownOffTarget", "Crash"}
             /\ o.contact = "OnTarget" => t.end = "TouchdownOnTarget"
             /\ o.contact = "OffTarget" => t.end = "TouchdownOffTarget"
             /\ o.contact = "Crash" => t.end = "Crash"
<1> DEFINE moved == PhysicsStep(s)
           landed == ApplyContact(g, moved, o.contact)
           advanced == ApplyProgress(g, moved, o)
           last == ApplyMaxTime(advanced)
<1>1. /\ moved \in SimStates /\ moved.step = s.step + 1 /\ ~Terminal(moved)
      /\ moved.passed = s.passed /\ moved.failedAt = s.failedAt /\ moved.end = "Running"
      /\ Ended(g, moved) /\ Passed(g, moved)
  BY DEF PhysicsStep, SimStates, Terminal, Ended, Passed
<1>2. o.contact \in Contacts
  BY DEF Outcomes
<1>3. CASE o.contact # "None"
  <2>1. /\ Terminal(landed) /\ Ended(g, landed) /\ Passed(g, landed)
        /\ landed.passed = s.passed /\ landed.failedAt = s.failedAt
        /\ o.contact = "OnTarget" => landed.end = "TouchdownOnTarget"
        /\ o.contact = "OffTarget" => landed.end = "TouchdownOffTarget"
        /\ o.contact = "Crash" => landed.end = "Crash"
    BY <1>1, <1>2, <1>3 DEF ApplyContact, Terminal, Ended, Passed, SimStates, Contacts
  <2>2. StepSim(g, s, o) = landed
    BY <2>1 DEF StepSim
  <2> HIDE DEF landed
  <2> QED BY <1>3, <2>1, <2>2
<1>4. CASE o.contact = "None"
  <2>1. landed = moved
    BY <1>4 DEF ApplyContact
  <2>2. /\ Ended(g, advanced) /\ Passed(g, advanced) /\ advanced \in SimStates
        /\ advanced.passed \in {s.passed, s.passed + 1} /\ advanced.step = moved.step
        /\ advanced.end \in {"Running", "CheckpointSatisfied", "CheckpointFailed"}
        /\ advanced.passed # s.passed \/ advanced.failedAt # s.failedAt =>
             ControlBoundary(advanced.step)
    BY <1>1, ProgressIsJudged, ProgressKeepsType
  <2> HIDE DEF advanced
  <2>3. ~Terminal(advanced) =>
          /\ Ended(g, last) /\ Passed(g, last) /\ last.passed = advanced.passed
          /\ last.failedAt = advanced.failedAt /\ last.step = advanced.step
          /\ last.end = "MaxTimeReached"
    BY <2>2 DEF ApplyMaxTime, Terminal, Ended, Passed, SimStates
  <2>4. \/ StepSim(g, s, o) = advanced
        \/ ~Terminal(advanced) /\ StepSim(g, s, o) = last
    BY <1>1, <2>1 DEF StepSim, advanced, last
  <2> HIDE DEF last
  <2> QED BY <1>4, <2>2, <2>3, <2>4
<1> QED BY <1>2, <1>3, <1>4

----------------------------------------------------------------------------
(* One transition, as the log of events tells it.                           *)

\* The kinds a step reports: MissionEnded last, after the reason, if the flight ends with it.
ToldBy(kinds, s) ==
  /\ \A i \in 1..Len(kinds) : kinds[i] = "MissionEnded" <=> (Terminal(s) /\ i = Len(kinds))
  /\ Terminal(s) => Len(kinds) >= 2 /\ kinds[Len(kinds) - 1] = s.end

\* Kinds that are not the end's may stand before.
LEMMA ToldAfterOthers ==
  ASSUME NEW a \in Seq(EventKinds), NEW b \in Seq(EventKinds), NEW s,
         \A i \in 1..Len(a) : a[i] # "MissionEnded", ToldBy(b, s)
  PROVE  ToldBy(a \o b, s)
<1> DEFINE c == a \o b
<1>1. /\ Len(a) \in Nat /\ Len(b) \in Nat /\ Len(c) = Len(a) + Len(b)
      /\ \A i \in 1..Len(c) : c[i] = IF i <= Len(a) THEN a[i] ELSE b[i - Len(a)]
  BY ConcatProperties
<1> HIDE DEF c
<1>2. ASSUME NEW i \in 1..Len(c)
      PROVE  c[i] = "MissionEnded" <=> (Terminal(s) /\ i = Len(c))
  <2>1. CASE i <= Len(a)
    <3>1. Terminal(s) => i # Len(c)
      BY <1>1, <2>1 DEF ToldBy
    <3> QED BY <1>1, <2>1, <3>1
  <2>2. CASE ~(i <= Len(a))
    <3>1. i - Len(a) \in 1..Len(b) /\ c[i] = b[i - Len(a)]
      BY <1>1, <2>2
    <3>2. i - Len(a) = Len(b) <=> i = Len(c)
      BY <1>1
    <3> QED BY <3>1, <3>2 DEF ToldBy
  <2> QED BY <2>1, <2>2
<1>3. ASSUME Terminal(s) PROVE Len(c) >= 2 /\ c[Len(c) - 1] = s.end
  <2>1. Len(b) >= 2 /\ b[Len(b) - 1] = s.end
    BY <1>3 DEF ToldBy
  <2>2. Len(c) - 1 \in 1..Len(c) /\ ~(Len(c) - 1 <= Len(a)) /\ Len(c) - 1 - Len(a) = Len(b) - 1
    BY <1>1, <2>1
  <2> QED BY <1>1, <2>1, <2>2
<1>4. ToldBy(c, s)
  BY <1>2, <1>3 DEF ToldBy
<1> QED BY <1>4 DEF c

\* The events of a transition tell its end.
LEMMA StepEventsTell ==
  ASSUME NEW g \in Goals, NEW s \in SimStates, NEW o \in Outcomes, ~Terminal(s)
  PROVE  ToldBy(StepEvents(g, s, o), StepSim(g, s, o))
<1> DEFINE moved == PhysicsStep(s)
           landed == ApplyContact(g, moved, o.contact)
           advanced == ApplyProgress(g, moved, o)
           last == ApplyMaxTime(advanced)
           passedEvents == IF advanced.passed > s.passed THEN <<"WaypointHandoffSatisfied">> ELSE <<>>
           failedEvents == IF advanced.failedAt # s.failedAt THEN <<"WaypointHandoffFailed">> ELSE <<>>
           endEvents == IF Terminal(advanced) THEN <<advanced.end, "MissionEnded">> ELSE <<>>
<1>1. moved \in SimStates
  BY DEF PhysicsStep, SimStates
<1>2. landed \in SimStates /\ advanced \in SimStates
  <2>1. landed \in SimStates
    BY <1>1 DEF ApplyContact, TouchdownVerdict, SimStates, EndReasons, MissionOutcomes,
       PhysicalOutcomes
  <2> QED BY <1>1, <2>1, ProgressKeepsType
<1>3. \A t \in SimStates : t.end # "MissionEnded"
  BY DEF SimStates, EndReasons
<1>4. CASE Terminal(landed)
  <2>1. StepSim(g, s, o) = landed /\ StepEvents(g, s, o) = <<landed.end, "MissionEnded">>
    BY <1>4 DEF StepSim, StepEvents
  <2> HIDE DEF landed
  <2> QED BY <1>2, <1>3, <1>4, <2>1 DEF ToldBy
<1>5. CASE ~Terminal(landed) /\ ~Terminal(advanced) /\ moved.step >= MaxTimeStep
  <2>1. StepSim(g, s, o) = last /\ StepEvents(g, s, o) = <<"MaxTimeReached", "MissionEnded">>
    BY <1>5 DEF StepSim, StepEvents
  <2>2. last.end = "MaxTimeReached" /\ Terminal(last)
    BY <1>2 DEF ApplyMaxTime, SimStates, Terminal
  <2> HIDE DEF last
  <2> QED BY <2>1, <2>2 DEF ToldBy
<1>6. CASE ~Terminal(landed) /\ (Terminal(advanced) \/ ~(moved.step >= MaxTimeStep))
  <2>1. StepSim(g, s, o) = advanced /\ StepEvents(g, s, o) = ProgressEvents(g, s, advanced)
    BY <1>6 DEF StepSim, StepEvents
  <2>2. ToldBy(endEvents, advanced) /\ endEvents \in Seq(EventKinds)
    <3>1. Terminal(advanced) => advanced.end \in EventKinds
      BY <1>2, EndIsEventKind
    <3>2. "MissionEnded" \in EventKinds
      BY DEF EventKinds
    <3> HIDE DEF advanced
    <3> QED BY <1>2, <1>3, <3>1, <3>2 DEF ToldBy
  <2>3. /\ passedEvents \in Seq(EventKinds) /\ failedEvents \in Seq(EventKinds)
        /\ \A i \in 1..Len(passedEvents) : passedEvents[i] # "MissionEnded"
        /\ \A i \in 1..Len(failedEvents) : failedEvents[i] # "MissionEnded"
    <3>1. "WaypointHandoffSatisfied" \in EventKinds /\ "WaypointHandoffFailed" \in EventKinds
      BY DEF EventKinds
    <3> HIDE DEF advanced
    <3> QED BY <3>1
  <2> HIDE DEF passedEvents, failedEvents, endEvents, advanced
  <2>4. /\ passedEvents \o failedEvents \in Seq(EventKinds)
        /\ \A i \in 1..Len(passedEvents \o failedEvents) :
             (passedEvents \o failedEvents)[i] # "MissionEnded"
    <3>1. Len(passedEvents) \in Nat /\ Len(failedEvents) \in Nat
      BY <2>3
    <3>2. /\ passedEvents \o failedEvents \in Seq(EventKinds)
          /\ Len(passedEvents \o failedEvents) = Len(passedEvents) + Len(failedEvents)
          /\ \A i \in 1..(Len(passedEvents) + Len(failedEvents)) :
               (passedEvents \o failedEvents)[i] =
                 IF i <= Len(passedEvents) THEN passedEvents[i]
                 ELSE failedEvents[i - Len(passedEvents)]
      BY <2>3, ConcatProperties
    <3> QED BY <2>3, <3>1, <3>2
  <2>5. ToldBy((passedEvents \o failedEvents) \o endEvents, advanced)
    BY <2>2, <2>4, ToldAfterOthers
  <2>6. ProgressEvents(g, s, advanced) = (passedEvents \o failedEvents) \o endEvents
    BY DEF ProgressEvents, passedEvents, failedEvents, endEvents
  <2> QED BY <2>1, <2>5, <2>6
<1> QED BY <1>4, <1>5, <1>6

\* A log that is open takes what a step reports, stamped with that step.
LEMMA LogTakesStep ==
  ASSUME NEW log \in Seq([kind : EventKinds, step : Nat]), NEW kinds \in Seq(EventKinds), NEW s,
         NEW k \in Nat, k = s.step,
         \A i \in 1..Len(log) : log[i].kind # "MissionEnded", ToldBy(kinds, s)
  PROVE  Closed(log \o Stamped(kinds, k), s)
<1> DEFINE E == [kind : EventKinds, step : Nat]
           told == Stamped(kinds, k)
           more == log \o told
<1>1. /\ Len(kinds) \in Nat /\ Len(log) \in Nat /\ log \in Seq(E) /\ told \in Seq(E)
      /\ Len(told) = Len(kinds)
      /\ \A i \in 1..Len(kinds) : told[i] = [kind |-> kinds[i], step |-> k]
  BY StampedType DEF Stamped
<1> HIDE DEF E, told
<1>a. /\ Len(more) = Len(log) + Len(told)
      /\ \A i \in 1..(Len(log) + Len(told)) :
           more[i] = IF i <= Len(log) THEN log[i] ELSE told[i - Len(log)]
  <2>1. /\ Len(log \o told) = Len(log) + Len(told)
        /\ \A i \in 1..Len(log) + Len(told) :
             (log \o told)[i] = IF i <= Len(log) THEN log[i] ELSE told[i - Len(log)]
    <3>1. log \in Seq(E) /\ told \in Seq(E)
      BY <1>1
    <3>2. ASSUME NEW S, NEW a \in Seq(S), NEW b \in Seq(S)
          PROVE  /\ Len(a \o b) = Len(a) + Len(b)
                 /\ \A i \in 1..Len(a) + Len(b) :
                      (a \o b)[i] = IF i <= Len(a) THEN a[i] ELSE b[i - Len(a)]
      BY ConcatProperties
    <3> QED BY <3>1, <3>2
  <2> QED BY <2>1
<1> HIDE DEF more
<1>2. /\ Len(more) = Len(log) + Len(kinds)
      /\ \A i \in 1..Len(more) :
           more[i] = IF i <= Len(log) THEN log[i] ELSE [kind |-> kinds[i - Len(log)], step |-> k]
  <2>1. ASSUME NEW i \in 1..Len(more), ~(i <= Len(log))
        PROVE  told[i - Len(log)] = [kind |-> kinds[i - Len(log)], step |-> k]
    <3>1. i - Len(log) \in 1..Len(kinds)
      BY <1>1, <1>a, <2>1
    <3> QED BY <1>1, <3>1
  <2> QED BY <1>1, <1>a, <2>1
<1>3. ASSUME NEW i \in 1..Len(more)
      PROVE  more[i].kind = "MissionEnded" <=> (Terminal(s) /\ i = Len(more))
  <2>1. CASE i <= Len(log)
    <3>1. Terminal(s) => i # Len(more)
      BY <1>1, <1>2, <2>1 DEF ToldBy
    <3> QED BY <1>1, <1>2, <2>1, <3>1
  <2>2. CASE ~(i <= Len(log))
    <3>1. i - Len(log) \in 1..Len(kinds) /\ more[i].kind = kinds[i - Len(log)]
      BY <1>1, <1>2, <2>2
    <3>2. i - Len(log) = Len(kinds) <=> i = Len(more)
      BY <1>1, <1>2
    <3> QED BY <3>1, <3>2 DEF ToldBy
  <2> QED BY <2>1, <2>2
<1>4. ASSUME Terminal(s)
      PROVE  /\ Len(more) >= 2
             /\ more[Len(more)] = [kind |-> "MissionEnded", step |-> s.step]
             /\ more[Len(more) - 1] = [kind |-> s.end, step |-> s.step]
  <2>1. Len(kinds) >= 2 /\ kinds[Len(kinds) - 1] = s.end /\ kinds[Len(kinds)] = "MissionEnded"
    BY <1>1, <1>4 DEF ToldBy
  <2>2. /\ Len(more) \in 1..Len(more) /\ ~(Len(more) <= Len(log))
        /\ Len(more) - Len(log) = Len(kinds)
        /\ Len(more) - 1 \in 1..Len(more) /\ ~(Len(more) - 1 <= Len(log))
        /\ Len(more) - 1 - Len(log) = Len(kinds) - 1
    BY <1>1, <1>2, <2>1
  <2>3. more[Len(more)] = [kind |-> kinds[Len(kinds)], step |-> k]
    BY <1>2, <2>2
  <2>4. more[Len(more) - 1] = [kind |-> kinds[Len(kinds) - 1], step |-> k]
    BY <1>2, <2>2
  <2> QED BY <1>1, <1>2, <2>1, <2>3, <2>4
<1>5. Closed(more, s)
  BY <1>3, <1>4 DEF Closed
<1> QED BY <1>5 DEF more, told

----------------------------------------------------------------------------
(* One transition, as the trace samples it.                                 *)

\* The trace of a flight that went on takes the next step, if a sample is due or the flight ends.
LEMMA TraceTakesStep ==
  ASSUME NEW log \in Seq(Nat), NEW s \in SimStates, NEW t \in SimStates, ~Terminal(s),
         t.step = s.step + 1, TraceOf(log, s)
  PROVE  TraceOf(Sampled(log, t), t)
<1> SUFFICES ASSUME SampleInterval # 0 PROVE TraceOf(Sampled(log, t), t)
  BY DEF TraceOf
<1>1. /\ log # <<>> /\ Len(log) \in Nat /\ Len(log) >= 1 /\ s.step \in Nat
      /\ \A i \in 1..(Len(log) - 1) : log[i] < log[i + 1]
      /\ \A i \in 1..Len(log) : OnTrace(s, log[i])
      /\ \A k \in 0..s.step : OnTrace(s, k) => \E i \in 1..Len(log) : log[i] = k
  BY EmptySeq DEF TraceOf, SimStates
<1>2. \A i \in 1..Len(log) : log[i] <= s.step /\ log[i] \in Nat
  BY <1>1 DEF OnTrace
<1>3. \A k \in 0..s.step : OnTrace(t, k) <=> OnTrace(s, k)
  BY <1>1 DEF OnTrace
<1>4. CASE t.step % SampleInterval = 0 \/ Terminal(t)
  <2> DEFINE more == Append(log, t.step)
  <2>1. Sampled(log, t) = more
    BY <1>1, <1>2, <1>4 DEF Sampled
  <2>2. /\ Len(more) = Len(log) + 1 /\ more[Len(log) + 1] = t.step /\ more # <<>>
        /\ \A i \in 1..Len(log) : more[i] = log[i]
    BY <1>1, AppendProperties
  <2> HIDE DEF more
  <2>3. ASSUME NEW i \in 1..(Len(more) - 1) PROVE more[i] < more[i + 1]
    <3>1. CASE i = Len(log)
      BY <1>1, <1>2, <2>2, <3>1
    <3>2. CASE i # Len(log)
      <4>1. i \in 1..(Len(log) - 1) /\ i \in 1..Len(log) /\ i + 1 \in 1..Len(log)
        BY <1>1, <2>2, <3>2
      <4>2. log[i] < log[i + 1] /\ more[i] = log[i] /\ more[i + 1] = log[i + 1]
        BY <1>1, <2>2, <4>1
      <4> QED BY <4>2
    <3> QED BY <3>1, <3>2
  <2>4. OnTrace(t, t.step)
    BY <1>1, <1>4 DEF OnTrace
  <2>5. ASSUME NEW i \in 1..Len(more) PROVE OnTrace(t, more[i])
    <3>1. CASE i = Len(log) + 1
      BY <2>2, <2>4, <3>1
    <3>2. CASE i # Len(log) + 1
      <4>1. more[i] = log[i] /\ OnTrace(s, log[i]) /\ log[i] \in 0..s.step
        BY <1>1, <2>2, <3>2 DEF OnTrace
      <4> QED BY <1>3, <4>1
    <3> QED BY <3>1, <3>2
  <2>6. ASSUME NEW k \in 0..t.step, OnTrace(t, k) PROVE \E i \in 1..Len(more) : more[i] = k
    <3>1. CASE k = t.step
      BY <1>1, <2>2, <3>1
    <3>2. CASE k # t.step
      <4>1. k \in 0..s.step
        BY <1>1, <3>2
      <4>2. PICK i \in 1..Len(log) : log[i] = k
        BY <1>1, <1>3, <2>6, <4>1
      <4> QED BY <1>1, <2>2, <4>2
    <3> QED BY <3>1, <3>2
  <2> QED BY <2>1, <2>2, <2>3, <2>5, <2>6 DEF TraceOf
<1>5. CASE ~(t.step % SampleInterval = 0 \/ Terminal(t))
  <2>1. Sampled(log, t) = log
    BY <1>5 DEF Sampled
  <2>2. ~OnTrace(t, t.step)
    BY <1>5 DEF OnTrace
  <2>3. ASSUME NEW k \in 0..t.step, OnTrace(t, k) PROVE k \in 0..s.step
    BY <1>1, <2>2, <2>3
  <2>4. \A i \in 1..Len(log) : OnTrace(t, log[i])
    BY <1>1, <1>3 DEF OnTrace
  <2> QED BY <1>1, <1>3, <2>1, <2>3, <2>4 DEF TraceOf
<1> QED BY <1>4, <1>5

----------------------------------------------------------------------------
(* The records are kept.                                                    *)

\* A run starts with nothing to tell but where it starts.
LEMMA InitRecords == Init => RecordInv
<1> SUFFICES ASSUME Init PROVE RecordInv
  OBVIOUS
<1>1. /\ sim = NewSim /\ events = <<>> /\ contact = NoContact
      /\ samples = Sampled(<<>>, NewSim) /\ goal \in GoalChoices
  BY DEF Init
<1>2. MissionJudged
  <2>1. Waypoints # 0
    BY PlantAssumption
  <2> QED BY <1>1, <2>1 DEF MissionJudged, Ended, Passed, NewSim, NoIndex
<1>3. ContactKept(contact, sim) /\ Closed(events, sim)
  BY <1>1 DEF ContactKept, Closed, NewSim, Terminal
<1>4. TraceOf(samples, sim)
  <2> SUFFICES ASSUME SampleInterval # 0 PROVE TraceOf(samples, sim)
    BY DEF TraceOf
  <2>1. 0 % SampleInterval = 0
    <3>1. SampleInterval \in Nat \ {0}
      BY RunAssumption
    <3>2. ASSUME NEW n \in Nat \ {0} PROVE 0 % n = 0
      BY <3>2, Z3
    <3> QED BY <3>1, <3>2
  <2>2. samples = <<0>>
    <3>1. samples = Append(<<>>, 0)
      BY <1>1, <2>1 DEF Sampled, NewSim
    <3> QED BY <3>1
  <2>3. sim.step = 0
    BY <1>1 DEF NewSim
  <2> QED BY <2>1, <2>2, <2>3 DEF TraceOf, OnTrace
<1> QED BY <1>2, <1>3, <1>4 DEF RecordInv

\* A command that is issued is one more event of a flight that goes on.
LEMMA IssueUpdateRecords ==
  ASSUME IInv, RecordInv, NEW c \in Commands, IssueUpdate(c)
  PROVE  RecordInv'
<1>1. /\ sim' = [sim EXCEPT !.held = c] /\ UNCHANGED <<goal, samples, contact>>
      /\ events' = events \o Stamped(<<"ControllerUpdated">>, sim.step) /\ phase = "command"
  BY DEF IssueUpdate, ctx
<1>2. /\ ~Terminal(sim) /\ sim \in SimStates /\ sim.step \in Nat
      /\ events \in Seq([kind : EventKinds, step : Nat])
  BY <1>1 DEF IInv, PhaseClock, TypeOK, SimStates
<1>3. /\ sim'.step = sim.step /\ sim'.end = sim.end /\ sim'.mission = sim.mission
      /\ sim'.physical = sim.physical /\ sim'.passed = sim.passed
      /\ sim'.failedAt = sim.failedAt /\ sim'.window = sim.window
  BY <1>1, <1>2 DEF SimStates
<1>4. MissionJudged'
  BY <1>1, <1>3 DEF RecordInv, MissionJudged, Ended, Passed
<1>5. ContactKept(contact, sim)'
  BY <1>1, <1>3 DEF RecordInv, ContactKept
<1>6. Closed(events, sim)'
  <2>1. ~Terminal(sim')
    BY <1>2, <1>3 DEF Terminal
  <2>2. <<"ControllerUpdated">> \in Seq(EventKinds) /\ ToldBy(<<"ControllerUpdated">>, sim')
    BY <2>1 DEF EventKinds, ToldBy
  <2>3. \A i \in 1..Len(events) : events[i].kind # "MissionEnded"
    BY <1>2 DEF RecordInv, Closed
  <2> QED BY <1>1, <1>2, <1>3, <2>2, <2>3, LogTakesStep
<1>7. TraceOf(samples, sim)'
  BY <1>1, <1>3 DEF RecordInv, TraceOf, OnTrace, Terminal
<1> QED BY <1>4, <1>5, <1>6, <1>7 DEF RecordInv

\* A step that is flown is told as it was flown, whatever the guard says after it.
LEMMA TransitionRecords ==
  ASSUME IInv, RecordInv, NEW o \in Outcomes, NEW v \in Verdicts, Transition(o, v)
  PROVE  RecordInv'
<1> DEFINE next == StepSim(goal, sim, o)
           kinds == StepEvents(goal, sim, o)
<1>1. /\ sim' = next /\ goal' = goal /\ phase = "transition"
      /\ events' = events \o Stamped(kinds, next.step) /\ samples' = Sampled(samples, next)
      /\ contact' = IF o.contact = "None" THEN contact
                    ELSE [class |-> o.contact, step |-> next.step]
  BY DEF Transition, ctx
<1>2. /\ ~Terminal(sim) /\ sim \in SimStates /\ sim.step \in Nat /\ goal \in Goals
      /\ events \in Seq([kind : EventKinds, step : Nat]) /\ samples \in Seq(Nat)
  BY <1>1 DEF IInv, PhaseClock, TypeOK, SimStates
<1>3. Ended(goal, sim) /\ Passed(goal, sim)
  BY DEF RecordInv, MissionJudged
<1>4. /\ next \in SimStates /\ next.step = sim.step + 1
      /\ ToldBy(kinds, next) /\ kinds \in Seq(EventKinds)
  BY <1>2, StepSimKeepsType, StepEventsTell, StepEventsType
<1>5. /\ Ended(goal, next) /\ Passed(goal, next)
      /\ o.contact = "None" => next.end \notin {"TouchdownOnTarget", "TouchdownOffTarget", "Crash"}
      /\ o.contact = "OnTarget" => next.end = "TouchdownOnTarget"
      /\ o.contact = "OffTarget" => next.end = "TouchdownOffTarget"
      /\ o.contact = "Crash" => next.end = "Crash"
  BY <1>2, <1>3, StepIsJudged
<1> HIDE DEF next, kinds
<1>6. MissionJudged'
  BY <1>1, <1>5 DEF MissionJudged
<1>7. ContactKept(contact, sim)'
  <2>1. contact = NoContact
    BY <1>2 DEF RecordInv, ContactKept, Terminal
  <2>2. o.contact \in Contacts
    BY DEF Outcomes
  <2> QED BY <1>1, <1>5, <2>1, <2>2 DEF ContactKept, Contacts
<1>8. Closed(events, sim)'
  <2>1. \A i \in 1..Len(events) : events[i].kind # "MissionEnded"
    BY <1>2 DEF RecordInv, Closed
  <2>2. next.step \in Nat
    BY <1>2, <1>4
  <2> QED BY <1>1, <1>2, <1>4, <2>1, <2>2, LogTakesStep
<1>9. TraceOf(samples, sim)'
  BY <1>1, <1>2, <1>4, TraceTakesStep DEF RecordInv
<1> QED BY <1>6, <1>7, <1>8, <1>9 DEF RecordInv

\* Whatever does not fly and does not command leaves the records as they are.
LEMMA NextRecords == IInv /\ RecordInv /\ [Next]_vars => RecordInv'
<1> SUFFICES ASSUME IInv, RecordInv, [Next]_vars PROVE RecordInv'
  OBVIOUS
<1>1. ASSUME NEW c \in Commands, IssueUpdate(c) PROVE RecordInv'
  BY <1>1, IssueUpdateRecords
<1>2. ASSUME NEW o \in Outcomes, NEW v \in Verdicts, Transition(o, v) PROVE RecordInv'
  BY <1>2, TransitionRecords
<1>3. CASE UNCHANGED <<goal, sim, events, samples, contact>>
  BY <1>3 DEF RecordInv, MissionJudged, ContactKept, Closed, TraceOf, OnTrace
<1>4. \/ \E c \in Commands : IssueUpdate(c)
      \/ \E o \in Outcomes, v \in Verdicts : Transition(o, v)
      \/ UNCHANGED <<goal, sim, events, samples, contact>>
  BY DEF Next, InitialGuard, RefuseUpdate, RejectTransition, LoseTransition, Returned, vars, ctx
<1> QED BY <1>1, <1>2, <1>3, <1>4

\* Both invariants hold of every run.
LEMMA RecordInvariance == Spec => [](IInv /\ RecordInv)
BY Invariance, InitRecords, NextRecords, PTL DEF Spec

----------------------------------------------------------------------------
(* The theorems.                                                            *)

\* The evidence agrees (sim.rs, run_simulation_bounded): the kept contact, the terminal state and
\* the closing events tell one end, and the trace has every due sample of what was flown, in order
\* and once, whatever the controller, the guard and the numbers do.
THEOREM EvidenceIsOneStory == Spec => []RecordsAgree
<1>1. IInv /\ RecordInv => RecordsAgree
  <2> SUFFICES ASSUME IInv, RecordInv PROVE RecordsAgree
    OBVIOUS
  <2>1. /\ sim \in SimStates /\ samples \in Seq(Nat) /\ sim.step \in Nat
        /\ contact \in [class : Contacts, step : Nat] /\ sim.end \in EndReasons
    BY DEF IInv, TypeOK, SimStates
  <2>2. /\ (contact # NoContact) <=>
             (sim.physical \in {"LandedOnTarget", "LandedOffTarget", "Crashed"})
        /\ contact # NoContact =>
             /\ contact.step = sim.step
             /\ (contact.class = "OnTarget") <=> (sim.physical = "LandedOnTarget")
             /\ (contact.class = "Crash") <=> (sim.physical = "Crashed")
    BY <2>1 DEF RecordInv, MissionJudged, Ended, ContactKept, NoContact, EndReasons
  <2>3. EvidenceAgrees
    BY <2>2 DEF RecordInv, Closed, EvidenceAgrees
  <2>4. TraceComplete
    <3> SUFFICES ASSUME SampleInterval # 0 PROVE TraceComplete
      BY DEF TraceComplete
    <3>1. \A i \in 1..(Len(samples) - 1) : samples[i] < samples[i + 1]
      BY DEF RecordInv, TraceOf
    <3>2. \A k : k \in {samples[i] : i \in 1..Len(samples)} <=> OnTrace(sim, k)
      BY DEF RecordInv, TraceOf, OnTrace
    <3>3. {samples[i] : i \in 1..Len(samples)} =
            {k \in 0..sim.step : k % SampleInterval = 0 \/ (Terminal(sim) /\ k = sim.step)}
      BY <3>2 DEF OnTrace
    <3> QED BY <3>1, <3>3 DEF TraceComplete
  <2> QED BY <2>3, <2>4 DEF RecordsAgree
<1> QED BY <1>1, RecordInvariance, PTL

\* The mission's verdict is earned (pd-core, eval.rs): a route is passed in order and judged at its
\* first failure, a landing is no other mission's success, and a waypoint is resolved only on the
\* control clock, once, never to be taken back.
THEOREM MissionIsTrue == Spec => MissionTruth
<1>1. IInv /\ RecordInv => SequenceInOrder /\ LandingIsNotMission
  <2> SUFFICES ASSUME IInv, RecordInv PROVE SequenceInOrder /\ LandingIsNotMission
    OBVIOUS
  <2>1. sim.end \in EndReasons /\ Ended(goal, sim) /\ Passed(goal, sim)
    BY DEF IInv, TypeOK, SimStates, RecordInv, MissionJudged
  <2>2. SequenceInOrder
    BY <2>1 DEF SequenceInOrder, Ended, Passed, TouchdownVerdict, EndReasons
  <2>3. LandingIsNotMission
    BY <2>1 DEF LandingIsNotMission, Ended, TouchdownVerdict, EndReasons
  <2> QED BY <2>2, <2>3
<1> DEFINE OnClock ==
      /\ sim'.passed \in {sim.passed, sim.passed + 1}
      /\ (sim'.passed # sim.passed \/ sim'.failedAt # sim.failedAt) =>
           ControlBoundary(sim'.step) /\ sim'.step = sim.step + 1
      /\ sim.failedAt # NoIndex => sim' = sim
<1>2. IInv /\ RecordInv /\ [Next]_vars => [OnClock]_vars
  <2> SUFFICES ASSUME IInv, RecordInv, [Next]_vars PROVE OnClock
    OBVIOUS
  <2>1. sim \in SimStates /\ goal \in Goals /\ Ended(goal, sim) /\ Passed(goal, sim)
    BY DEF IInv, TypeOK, RecordInv, MissionJudged
  <2>2. ~Terminal(sim) => sim.failedAt = NoIndex
    BY <2>1 DEF Passed, Terminal
  <2>3. ASSUME NEW c \in Commands, IssueUpdate(c) PROVE OnClock
    <3>1. ~Terminal(sim) /\ sim' = [sim EXCEPT !.held = c]
      BY <2>3 DEF IssueUpdate, IInv, PhaseClock
    <3> QED BY <2>1, <2>2, <3>1 DEF SimStates
  <2>4. ASSUME NEW o \in Outcomes, NEW v \in Verdicts, Transition(o, v) PROVE OnClock
    <3>1. ~Terminal(sim) /\ sim' = StepSim(goal, sim, o)
      BY <2>4 DEF Transition, IInv, PhaseClock
    <3>2. /\ sim'.passed \in {sim.passed, sim.passed + 1} /\ sim'.step = sim.step + 1
          /\ sim'.passed # sim.passed \/ sim'.failedAt # sim.failedAt => ControlBoundary(sim'.step)
      BY <2>1, <3>1, StepIsJudged, StepSimKeepsType
    <3> QED BY <2>2, <3>1, <3>2
  <2>5. CASE sim' = sim
    BY <2>5
  <2>6. \/ \E c \in Commands : IssueUpdate(c)
        \/ \E o \in Outcomes, v \in Verdicts : Transition(o, v)
        \/ sim' = sim
    BY DEF Next, InitialGuard, RefuseUpdate, RejectTransition, LoseTransition, Returned, vars
  <2> QED BY <2>3, <2>4, <2>5, <2>6
<1>3. Spec => [][OnClock]_vars
  BY <1>2, RecordInvariance, PTL DEF Spec
<1>4. Spec => HandoffOnClock
  BY <1>3 DEF HandoffOnClock
<1> QED BY <1>1, <1>4, RecordInvariance, PTL DEF MissionTruth

----------------------------------------------------------------------------
(* The host of an agent under a guard.                                      *)

\* A frame the callback lets through is one the core admits, once its throttle is clamped:
\* after the agent's record has grown, the core cannot refuse the command.
LEMMA AdmittedFrameIsCommand ==
  ASSUME NEW f \in Frames, HostAdmits(f)
  PROVE  CoreAdmits(ClampedFrame(f)) /\ CommandOf[ClampedFrame(f)] \in Commands
<1>1. ClampedFrame(f) \in Frames /\ CoreAdmits(ClampedFrame(f))
  BY DEF Frames, HostAdmits, ClampedFrame, CoreAdmits
<1> QED BY <1>1, GuardedAssumption

\* Whatever the host does around the core, the core takes a step of the bounded run.
LEMMA HostTakesRunSteps ==
  ASSUME [RunNext]_<<vars, guardedVars, hosted>>
  PROVE  [Next]_vars
<1>1. ASSUME Admit PROVE Next
  BY <1>1 DEF Admit, Next, Verdicts
<1>2. ASSUME Refuse PROVE Next
  BY <1>2 DEF Refuse, Next
<1>3. ASSUME NEW f \in Frames, Decide(f) PROVE Next
  <2>1. CommandOf[ClampedFrame(f)] \in Commands /\ IssueUpdate(CommandOf[ClampedFrame(f)])
    BY <1>3, AdmittedFrameIsCommand DEF Decide
  <2> QED BY <2>1 DEF Next
<1>4. ASSUME Guarded PROVE Next
  BY <1>4 DEF Guarded, Next
<1> QED BY <1>1, <1>2, <1>3, <1>4 DEF RunNext, GuardedNext

\* What the host promises, of an agent it has.
HostInv == hosted => AgentRecordIsActionLog

\* The host and the core write the same entry, or neither writes.
LEMMA HostKeepsRecord ==
  IInv /\ HostInv /\ [RunNext]_<<vars, guardedVars, hosted>> => HostInv'
<1> SUFFICES ASSUME IInv, HostInv, [RunNext]_<<vars, guardedVars, hosted>>, hosted'
             PROVE  AgentRecordIsActionLog'
  BY DEF HostInv
<1> USE DEF AgentRecordIsActionLog
<1>1. hosted
  BY DEF RunNext
<1>2. /\ agentUpdates = actions
      /\ resetFailure => updates = 0 /\ phase = "initial"
      /\ Len(actions) = updates
  BY <1>1 DEF HostInv, IInv, ActionLogIsFlight
<1>3. ASSUME Admit PROVE AgentRecordIsActionLog'
  BY <1>2, <1>3 DEF Admit, InitialGuard
<1>4. ASSUME Refuse PROVE AgentRecordIsActionLog'
  BY <1>2, <1>4 DEF Refuse, RefuseUpdate, guardedVars
<1>5. ASSUME NEW f \in Frames, Decide(f) PROVE AgentRecordIsActionLog'
  <2>1. IssueUpdate(CommandOf[ClampedFrame(f)])
    BY <1>5, AdmittedFrameIsCommand DEF Decide
  <2>2. agentUpdates' = actions'
    BY <1>2, <1>5, <2>1 DEF Decide, IssueUpdate, IInv, PhaseClock
  <2>3. ~resetFailure'
    BY <1>2, <1>5 DEF Decide
  <2> QED BY <2>2, <2>3
<1>6. ASSUME Guarded PROVE AgentRecordIsActionLog'
  <2>1. UNCHANGED <<actions, updates, guardedVars>>
    BY <1>6 DEF Guarded, RejectTransition, LoseTransition, Transition, Returned, vars
  <2>2. phase # "initial"
    BY <1>6 DEF Guarded, RejectTransition, LoseTransition, Transition, Returned
  <2> QED BY <1>2, <2>1, <2>2 DEF guardedVars
<1>7. ASSUME UNCHANGED <<vars, guardedVars, hosted>> PROVE AgentRecordIsActionLog'
  BY <1>2, <1>7 DEF vars, guardedVars
<1> QED BY <1>1, <1>3, <1>4, <1>5, <1>6, <1>7 DEF RunNext, GuardedNext

\* A guarded agent is flown by the bounded run and by nothing else (run_agent_guarded): wrapped in
\* the host, every behaviour is one of the core's, so that every theorem about it holds there too.
THEOREM HostedRunIsBoundedRun == RunSpec => Spec
<1>1. RunInit => Init
  BY DEF RunInit, GuardedInit
<1> QED BY <1>1, HostTakesRunSteps, PTL DEF RunSpec, Spec

\* "Record only admitted finite decisions, including a truthful prefix" (agent.rs): the agent's
\* record, kept before the core admits the command, is the action log the core keeps after it,
\* whatever is refused, lost or vetoed; and an agent whose reset failed decides nothing.
THEOREM HostKeepsTheActionLog == RunSpec => []HostRecordIsActionLog
<1>1. RunInit => HostInv
  BY DEF RunInit, GuardedInit, Init, HostInv, AgentRecordIsActionLog
<1>2. HostInv => HostRecordIsActionLog
  BY DEF HostInv, HostRecordIsActionLog
<1> QED BY <1>1, <1>2, HostKeepsRecord, HostedRunIsBoundedRun, Invariance, PTL DEF RunSpec
=============================================================================

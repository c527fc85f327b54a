--------------------------- MODULE Callers_proofs ---------------------------
(***************************************************************************)
(* Theorems about the callers of the core, for every scenario of theirs.     *)
(***************************************************************************)
EXTENDS MCCallers, SequenceTheorems, TLAPS

\* What the fairness leaves out of CallersSpec, for the theorems on safety.
LEMMA CallersStep == CallersSpec => CallersInit /\ [][CallersNext]_allVars
BY PTL DEF CallersSpec

----------------------------------------------------------------------------
(* The landing maneuver.                                                    *)

\* The clocks of the facade count from zero.
LandingTypes ==
  /\ nextTick \in Nat /\ commandUpdates \in Nat /\ backendUpdates \in Nat
  /\ accepted # Landing!None => activation \in Nat

LandingInv == caller = "landing" => LandingTypes /\ Landing!OneLanding

\* One more tick of a clock is one more interval; a multiple of the interval is on its clock.
LEMMA TickOfTheClock ==
  ASSUME NEW n \in Nat \ {0}, NEW k \in Nat
  PROVE  (k + 1) * n = k * n + n /\ k * n \in Nat /\ (k * n) % n = 0 /\ 0 * n = 0
BY Z3

\* A request is accepted at the boundary that is due and when nothing is active, and is a request.
LEMMA AcceptedWhenIdle ==
  ASSUME NEW r \in Landing!Requests, NEW tick, Landing!Disposition(r, tick) = "Accepted"
  PROVE  tick = nextTick /\ accepted = Landing!None /\ r # Landing!None
BY DEF Landing!Disposition, Landing!Recognise, Landing!None, Landing!Requests

\* A submission starts the one landing there is, or changes nothing of it.
LEMMA SubmitKeepsLanding ==
  ASSUME LandingTypes, Landing!OneLanding,
         NEW r \in Landing!Requests, NEW tick, Landing!Submit(r, tick)
  PROVE  LandingTypes' /\ Landing!OneLanding'
<1> DEFINE n == LandingScenario.interval
<1>1. n \in Nat \ {0}
  BY LandingAssumption DEF Landing!ManeuverAssumption
<1>2. UNCHANGED <<nextTick, commandUpdates, backendUpdates>>
  BY DEF Landing!Submit
<1>3. CASE answer' = "Accepted"
  <2>1. /\ tick = nextTick /\ accepted = Landing!None /\ r # Landing!None
        /\ accepted' = r /\ activation' = nextTick /\ owner' = r.id /\ resets' = resets + 1
    BY <1>3, AcceptedWhenIdle DEF Landing!Submit
  <2>2. resets = 0 /\ backendUpdates = 0 /\ nextTick = commandUpdates * n
    BY <2>1 DEF Landing!OneLanding
  <2>3. nextTick % n = 0 /\ nextTick - nextTick = 0 /\ 0 * n = 0
    BY <1>1, <2>2, TickOfTheClock DEF LandingTypes
  <2> QED BY <1>2, <2>1, <2>2, <2>3 DEF LandingTypes, Landing!OneLanding
<1>4. CASE answer' # "Accepted"
  BY <1>2, <1>4 DEF Landing!Submit, LandingTypes, Landing!OneLanding
<1> QED BY <1>3, <1>4

\* A frame is one tick of the facade's clock, and of the backend's if there is one.
LEMMA FrameKeepsLanding ==
  ASSUME LandingTypes, Landing!OneLanding, Landing!Frame
  PROVE  LandingTypes' /\ Landing!OneLanding'
<1> DEFINE n == LandingScenario.interval
<1>1. n \in Nat \ {0}
  BY LandingAssumption DEF Landing!ManeuverAssumption
<1>2. /\ nextTick' = nextTick + n /\ commandUpdates' = commandUpdates + 1
      /\ backendUpdates' = backendUpdates + (IF resets > 0 THEN 1 ELSE 0)
      /\ UNCHANGED <<accepted, activation, owner, resets>>
  BY DEF Landing!Frame
<1>3. commandUpdates' * n = nextTick'
  BY <1>1, <1>2, TickOfTheClock DEF LandingTypes, Landing!OneLanding
<1>4. CASE accepted = Landing!None
  <2>1. resets = 0 /\ backendUpdates = 0 /\ backendUpdates' = 0
    BY <1>2, <1>4 DEF Landing!OneLanding
  <2> QED BY <1>1, <1>2, <1>3, <1>4, <2>1 DEF LandingTypes, Landing!OneLanding
<1>5. CASE accepted # Landing!None
  <2>1. backendUpdates' = backendUpdates + 1 /\ backendUpdates * n = nextTick - activation
    BY <1>2, <1>5 DEF Landing!OneLanding
  <2>2. backendUpdates' * n = nextTick' - activation' /\ activation' <= nextTick'
    BY <1>1, <1>2, <1>5, <2>1, TickOfTheClock DEF LandingTypes, Landing!OneLanding
  <2> QED BY <1>1, <1>2, <1>3, <1>5, <2>1, <2>2 DEF LandingTypes, Landing!OneLanding
<1> QED BY <1>4, <1>5

\* "Repeated submission ... must not reset controller state or replenish time"
\* (maneuver_execution_design.md): whatever is submitted again, refused or named for another
\* boundary, an active landing keeps its request, its activation and its one backend, and has been
\* updated at every boundary since and at no other.
THEOREM OneLandingIsFlown == CallersSpec => []LandingIsOne
<1>1. CallersInit => LandingInv
  <2> SUFFICES ASSUME CallersInit, caller = "landing" PROVE LandingTypes /\ Landing!OneLanding
    BY DEF LandingInv
  <2>1. Landing!Init
    BY DEF CallersInit
  <2>2. LandingScenario.interval \in Nat \ {0}
    BY LandingAssumption DEF Landing!ManeuverAssumption
  <2>3. 0 * LandingScenario.interval = 0
    BY <2>2, TickOfTheClock
  <2> QED BY <2>1, <2>3 DEF Landing!Init, LandingTypes, Landing!OneLanding
<1>2. LandingInv /\ [CallersNext]_allVars => LandingInv'
  <2> SUFFICES ASSUME LandingInv, [CallersNext]_allVars, caller' = "landing"
               PROVE  LandingTypes' /\ Landing!OneLanding'
    BY DEF LandingInv
  <2>1. caller = "landing" /\ (Landing!Next \/ UNCHANGED landingVars)
    BY DEF CallersNext, LandingStep, allVars
  <2>2. LandingTypes /\ Landing!OneLanding
    BY <2>1 DEF LandingInv
  <2>3. ASSUME NEW r \in Landing!Requests, NEW tick, Landing!Submit(r, tick)
        PROVE  LandingTypes' /\ Landing!OneLanding'
    BY <2>2, <2>3, SubmitKeepsLanding
  <2>4. ASSUME Landing!Frame PROVE LandingTypes' /\ Landing!OneLanding'
    BY <2>2, <2>4, FrameKeepsLanding
  <2>5. ASSUME UNCHANGED <<accepted, activation, owner, nextTick, commandUpdates, backendUpdates,
                           resets>>
        PROVE  LandingTypes' /\ Landing!OneLanding'
    BY <2>2, <2>5 DEF LandingTypes, Landing!OneLanding
  <2>6. ASSUME \/ Landing!FailDecision \/ Landing!NativeEnd \/ Landing!Over
               \/ \E n \in 0..LandingScenario.interval : Landing!Fly(n)
               \/ UNCHANGED landingVars
        PROVE  UNCHANGED <<accepted, activation, owner, nextTick, commandUpdates, backendUpdates,
                           resets>>
    BY <2>6 DEF Landing!FailDecision, Landing!NativeEnd, Landing!Over, Landing!Fly, Landing!facade,
       Landing!vars, landingVars
  <2> QED BY <2>1, <2>3, <2>4, <2>5, <2>6 DEF Landing!Next
<1>3. LandingInv => LandingIsOne
  BY DEF LandingInv, LandingIsOne
<1> QED BY <1>1, <1>2, <1>3, CallersStep, PTL

----------------------------------------------------------------------------
(* The episode.                                                             *)

\* A step strictly within a control interval is no control boundary.
LEMMA WithinAnInterval ==
  ASSUME NEW n \in Nat \ {0}, NEW p \in Nat, NEW r \in 1..(n - 1)
  PROVE  (p * n + r) % n # 0
<1>1. SUFFICES ASSUME (p * n + r) % n = 0 PROVE FALSE
  OBVIOUS
<1>2. p * n \in Nat
  BY Z3
<1>3. PICK d \in Int : p * n + r = d * n
  <2>1. ASSUME NEW k \in Nat, k % n = 0 PROVE k = (k \div n) * n /\ k \div n \in Int
    BY <2>1, Z3
  <2>2. p * n + r \in Nat
    BY <1>2
  <2> QED BY <1>1, <2>1, <2>2
<1>4. r = (d - p) * n
  <2>1. (d - p) * n = d * n - p * n
    BY Z3
  <2> QED BY <1>2, <1>3, <2>1
<1>5. ASSUME NEW c \in Int, r = c * n PROVE FALSE
  <2>1. c <= 0 => c * n <= 0
    BY Z3
  <2>2. c >= 1 => c * n >= n
    BY Z3
  <2> QED BY <1>5, <2>1, <2>2
<1> QED BY <1>4, <1>5

\* The counted loop of step_frame and the test of a control boundary find the same end.
LEMMA LoopEndsOnBoundary ==
  ASSUME NEW q \in Nat, NEW k \in Nat, NEW l \in 1..Interval, k + l = q * Interval
  PROVE  ControlBoundary(k + 1) <=> l = 1
<1>1. Interval \in Nat \ {0}
  BY PlantAssumption
<1>2. ASSUME l = 1 PROVE ControlBoundary(k + 1)
  <2>1. k + 1 = q * Interval
    BY <1>2
  <2>2. (q * Interval) % Interval = 0
    BY <1>1, TickOfTheClock
  <2> QED BY <2>1, <2>2 DEF ControlBoundary
<1>3. ASSUME l # 1 PROVE ~ControlBoundary(k + 1)
  <2>1. 0 * Interval = 0 /\ q * Interval \in Nat
    BY <1>1, TickOfTheClock
  <2>2. q # 0
    BY <1>3, <2>1
  <2>3. q - 1 \in Nat /\ (q - 1) + 1 = q
    BY <2>2
  <2>4. q * Interval = (q - 1) * Interval + Interval /\ (q - 1) * Interval \in Nat
    BY <1>1, <2>3, TickOfTheClock
  <2>5. k + 1 = (q - 1) * Interval + (Interval - l + 1)
    BY <1>1, <2>4
  <2>6. Interval - l + 1 \in 1..(Interval - 1)
    BY <1>1, <1>3
  <2> QED BY <1>1, <2>3, <2>5, <2>6, WithinAnInterval DEF ControlBoundary
<1> QED BY <1>2, <1>3


\* A state of the flight has a clock and a reason to end.
FlightState(s) == {"step", "end"} \subseteq DOMAIN s /\ s.step \in Nat

\* What the mission makes of a step leaves the clock alone.
LEMMA ProgressKeepsClock ==
  ASSUME NEW g, NEW s, FlightState(s), NEW o
  PROVE  FlightState(ApplyProgress(g, s, o)) /\ ApplyProgress(g, s, o).step = s.step
<1> DEFINE Kept(t) == FlightState(t) /\ t.step = s.step
<1>1. ASSUME NEW t, Kept(t) PROVE Kept(Satisfy(t)) /\ Kept(Fail(t))
  BY <1>1 DEF Satisfy, Fail, FlightState
<1>2. ASSUME NEW i PROVE Kept(WaypointProgress(g, s, i, o))
  <2> DEFINE open == [s EXCEPT !.window = IF o.capture THEN i ELSE @]
             closed == [s EXCEPT !.window = NoIndex]
             failed == [closed EXCEPT !.failedAt = i]
             beyond == [closed EXCEPT !.passed = @ + 1]
  <2>1. Kept(open) /\ Kept(closed)
    BY DEF FlightState
  <2>2. Kept(failed) /\ Kept(beyond)
    BY DEF FlightState
  <2> HIDE DEF open, closed, failed, beyond, Kept
  <2> QED BY <1>1, <2>1, <2>2 DEF WaypointProgress, open, closed, failed, beyond
<1>3. Kept(s)
  OBVIOUS
<1> HIDE DEF Kept
<1>4. Kept(ApplyProgress(g, s, o))
  BY <1>1, <1>2, <1>3 DEF ApplyProgress
<1> QED BY <1>4 DEF Kept

\* A transition takes one physics step, and a flight that is not over is within its time limit.
LEMMA StepTakesOneStep ==
  ASSUME NEW g, NEW s, FlightState(s), NEW o
  PROVE  /\ FlightState(StepSim(g, s, o)) /\ StepSim(g, s, o).step = s.step + 1
         /\ ~Terminal(StepSim(g, s, o)) => s.step + 1 < MaxTimeStep
<1> DEFINE moved == PhysicsStep(s)
           landed == ApplyContact(g, moved, o.contact)
           advanced == ApplyProgress(g, moved, o)
           last == ApplyMaxTime(advanced)
<1>1. FlightState(moved) /\ moved.step = s.step + 1
  BY DEF FlightState, PhysicsStep
<1>2. FlightState(landed) /\ landed.step = moved.step
  BY <1>1 DEF ApplyContact, FlightState
<1>3. FlightState(advanced) /\ advanced.step = moved.step
  BY <1>1, ProgressKeepsClock
<1>4. FlightState(last) /\ last.step = moved.step /\ Terminal(last)
  BY <1>3 DEF ApplyMaxTime, FlightState, Terminal
<1>5. MaxTimeStep \in Nat
  BY PlantAssumption
<1> HIDE DEF landed, advanced, last
<1>6. \/ StepSim(g, s, o) = landed /\ Terminal(landed)
      \/ StepSim(g, s, o) = advanced /\ (Terminal(advanced) \/ ~(moved.step >= MaxTimeStep))
      \/ StepSim(g, s, o) = last
  BY DEF StepSim, landed, advanced, last
<1> HIDE DEF moved
<1> QED BY <1>1, <1>2, <1>3, <1>4, <1>5, <1>6 DEF FlightState

\* The plant of the bounded run is the episode's.
LEMMA SamePlant ==
  /\ Bounded!NewSim = NewSim /\ Bounded!Outcomes = Outcomes
  /\ \A s : Bounded!Terminal(s) <=> Terminal(s)
  /\ \A k : Bounded!ControlBoundary(k) <=> ControlBoundary(k)
  /\ \A g, s, o : Bounded!StepSim(g, s, o) = StepSim(g, s, o)
  /\ \A g, s, o : Bounded!StepEvents(g, s, o) = StepEvents(g, s, o)
<1>1. /\ Bounded!NewSim = NewSim /\ Bounded!Outcomes = Outcomes
      /\ \A s : Bounded!Terminal(s) <=> Terminal(s)
      /\ \A k : Bounded!ControlBoundary(k) <=> ControlBoundary(k)
  BY DEF Bounded!NewSim, NewSim, Bounded!NoIndex, NoIndex, Bounded!Outcomes, Outcomes,
     Bounded!Contacts, Contacts, Bounded!Terminal, Terminal, Bounded!ControlBoundary, ControlBoundary
<1>2. \A s : Bounded!Satisfy(s) = Satisfy(s) /\ Bounded!Fail(s) = Fail(s)
  BY DEF Bounded!Satisfy, Satisfy, Bounded!Fail, Fail
<1>3. \A s : Bounded!PhysicsStep(s) = PhysicsStep(s) /\ Bounded!ApplyMaxTime(s) = ApplyMaxTime(s)
  BY DEF Bounded!PhysicsStep, PhysicsStep, Bounded!ApplyMaxTime, ApplyMaxTime
<1>4. \A g, s, c : Bounded!ApplyContact(g, s, c) = ApplyContact(g, s, c)
  BY DEF Bounded!ApplyContact, ApplyContact, Bounded!TouchdownVerdict, TouchdownVerdict
<1>5. \A s, i, o : /\ Bounded!ContractPass(s, i, o) <=> ContractPass(s, i, o)
                   /\ Bounded!Resolved(s, i, o) <=> Resolved(s, i, o)
  BY DEF Bounded!ContractPass, ContractPass, Bounded!Resolved, Resolved, Bounded!WindowOpen,
     WindowOpen
<1>6. \A g, s : Bounded!JudgedWaypoint(g, s) = JudgedWaypoint(g, s)
  BY <1>1 DEF Bounded!JudgedWaypoint, JudgedWaypoint, Bounded!Indices, Indices, Bounded!NoIndex,
     NoIndex
<1>7. \A g, s, i, o : Bounded!WaypointProgress(g, s, i, o) = WaypointProgress(g, s, i, o)
  BY <1>2, <1>5 DEF Bounded!WaypointProgress, WaypointProgress, Bounded!NoIndex, NoIndex
<1>8. \A g, s, o : Bounded!ApplyProgress(g, s, o) = ApplyProgress(g, s, o)
  BY <1>2, <1>6, <1>7 DEF Bounded!ApplyProgress, ApplyProgress, Bounded!NoIndex, NoIndex
<1>9. \A g, s, o : Bounded!StepSim(g, s, o) = StepSim(g, s, o)
  BY <1>1, <1>3, <1>4, <1>8 DEF Bounded!StepSim, StepSim
<1>10. \A g, s, t : Bounded!ProgressEvents(g, s, t) = ProgressEvents(g, s, t)
  BY <1>1 DEF Bounded!ProgressEvents, ProgressEvents
<1>11. \A g, s, o : Bounded!StepEvents(g, s, o) = StepEvents(g, s, o)
  BY <1>1, <1>3, <1>4, <1>8, <1>10 DEF Bounded!StepEvents, StepEvents
<1> QED BY <1>1, <1>9, <1>11

\* The reason to stop the flight itself gives, "None" while it may go on.
Cause(s) == IF Terminal(s) THEN Bounded!TerminalStop(s) ELSE Bounded!BoundedStop(s)

\* An episode between two calls is at a control boundary, one inside a call is the rest of its
\* loop away from the next; it stops for the flight's reason or for a failure.
EpisodeInv ==
  /\ mode \in Modes /\ FlightState(sim) /\ updates \in Nat
  /\ ~Terminal(sim) => sim.step < MaxTimeStep
  /\ failure = Bounded!NoFailure => stop = Cause(sim)
  /\ place = "created" =>
       /\ sim = NewSim /\ updates = 0 /\ failure = Bounded!NoFailure
       /\ stop = Bounded!BoundedStop(sim)
  /\ place = "between" /\ stop = "None" => sim.step = updates * Interval
  /\ place = "inside" =>
       /\ stop = "None" /\ left \in 1..Interval /\ sim.step + left = updates * Interval
  /\ place = "taken" => stop # "None"

\* An episode is created where the bounded run starts.
LEMMA EpisodeStarts == Init => EpisodeInv /\ (Modes = {"Captured"} => Bounded!Init)
<1> SUFFICES ASSUME Init PROVE EpisodeInv /\ (Modes = {"Captured"} => Bounded!Init)
  OBVIOUS
<1>1. FlightState(NewSim) /\ NewSim.step = 0 /\ ~Terminal(NewSim)
  BY DEF FlightState, NewSim, Terminal
<1>2. MaxTimeStep \in Nat \ {0}
  BY PlantAssumption
<1>3. EpisodeInv
  BY <1>1, <1>2 DEF Init, EpisodeInv, Cause
<1>4. ASSUME Modes = {"Captured"} PROVE Bounded!Init
  BY <1>4, SamePlant DEF Init, Bounded!Init, Keep, Capturing
<1> QED BY <1>3, <1>4

\* What a step of the episode is to the bounded run: nothing, or a step of it under the guard that
\* allows everything.
Implements == Capturing => [Bounded!Next]_(Bounded!vars)

\* The agent's reset is the initial guard of the run.
LEMMA ResetIsInitialGuard ==
  ASSUME EpisodeInv, ResetAccepted \/ ResetFailed
  PROVE  EpisodeInv' /\ Implements
<1>1. /\ place = "created" /\ place' = "between" /\ sim = NewSim /\ updates = 0
      /\ failure = Bounded!NoFailure /\ stop = Bounded!BoundedStop(sim)
      /\ UNCHANGED <<ctx, left, sim, contact, updates, recording>>
  BY DEF EpisodeInv, ResetAccepted, ResetFailed
<1>2. 0 * Interval = 0 /\ NewSim.step = 0
  BY PlantAssumption, TickOfTheClock DEF NewSim
<1>3. EpisodeInv'
  BY <1>1, <1>2 DEF EpisodeInv, ResetAccepted, ResetFailed, Refused, Cause, ctx, Bounded!NoFailure,
     Bounded!BoundedStop
<1>4. ASSUME ResetAccepted PROVE Bounded!InitialGuard("Ok")
  BY <1>1, <1>4 DEF ResetAccepted, Bounded!InitialGuard, Bounded!Finish, Bounded!ctx, ctx, recording
<1>5. ASSUME ResetFailed PROVE Bounded!InitialGuard("ExecutionInvalid")
  BY <1>1, <1>2, <1>5
  DEF ResetFailed, Refused, Bounded!InitialGuard, Bounded!Reject, Bounded!ctx, ctx, recording
<1>6. Bounded!Next
  BY <1>4, <1>5 DEF Bounded!Next, Bounded!Verdicts
<1> QED BY <1>3, <1>6 DEF Implements

\* A frame that is held is a command issued, for one interval.
LEMMA StepFrameIsIssueUpdate ==
  ASSUME EpisodeInv, NEW raw, StepFrame(raw)
  PROVE  EpisodeInv' /\ Implements
<1>1. /\ place = "between" /\ stop = "None" /\ Clamped[raw] \in Commands
      /\ place' = "inside" /\ left' = Interval /\ sim' = [sim EXCEPT !.held = Clamped[raw]]
      /\ updates' = updates + 1 /\ UNCHANGED <<ctx, stop, failure, contact, samples>>
  BY DEF StepFrame, HoldFor
<1>2. FlightState(sim') /\ sim'.step = sim.step /\ sim'.end = sim.end
  BY <1>1 DEF EpisodeInv, FlightState
<1>3. Terminal(sim') <=> Terminal(sim)
  BY <1>2 DEF Terminal
<1>4. sim.step + Interval = (updates + 1) * Interval /\ Interval \in 1..Interval
  <2>1. Interval \in Nat \ {0} /\ updates \in Nat /\ sim.step = updates * Interval
    BY <1>1, PlantAssumption DEF EpisodeInv
  <2> QED BY <2>1, TickOfTheClock
<1>5. Cause(sim') = Cause(sim)
  BY <1>2, <1>3 DEF Cause, Bounded!TerminalStop, Bounded!BoundedStop
<1>6. EpisodeInv'
  BY <1>1, <1>2, <1>3, <1>4, <1>5 DEF EpisodeInv, ctx, Cause, Bounded!BoundedStop
<1>7. ASSUME Capturing PROVE Bounded!IssueUpdate(Clamped[raw])
  BY <1>1, <1>7 DEF StepFrame, HoldFor, Keep, Bounded!IssueUpdate, Bounded!ctx, ctx
<1> QED BY <1>1, <1>6, <1>7 DEF Implements, Bounded!Next

\* A refused frame and a lost step are the run's.
LEMMA RefusalsAreTheRuns ==
  ASSUME EpisodeInv, RefuseFrame \/ LoseStep
  PROVE  EpisodeInv' /\ Implements
<1>1. EpisodeInv'
  BY DEF EpisodeInv, RefuseFrame, LoseStep, Refused, ctx, Bounded!NoFailure
<1>2. ASSUME RefuseFrame PROVE Bounded!RefuseUpdate("CommandSelection")
  BY <1>2 DEF RefuseFrame, Refused, Bounded!RefuseUpdate, Bounded!Reject, Bounded!ctx, ctx, recording
<1>3. ASSUME LoseStep PROVE Bounded!LoseTransition
  BY <1>3 DEF EpisodeInv, LoseStep, Refused, Bounded!LoseTransition, Bounded!Reject, Bounded!ctx, ctx,
     recording
<1> QED BY <1>1, <1>2, <1>3 DEF Implements, Bounded!Next

\* One iteration of the loop is a transition, and the loop ends where the run asks again.
LEMMA AdvanceIsTransition ==
  ASSUME EpisodeInv, NEW o \in Outcomes, Advance(o)
  PROVE  EpisodeInv' /\ Implements
<1> DEFINE flown == StepSim(goal, sim, o)
<1>1. /\ place = "inside" /\ stop = "None" /\ left \in 1..Interval
      /\ sim.step + left = updates * Interval /\ updates \in Nat /\ FlightState(sim)
  BY DEF EpisodeInv, Advance
<1>2. /\ FlightState(flown) /\ flown.step = sim.step + 1
      /\ ~Terminal(flown) => flown.step < MaxTimeStep
  BY <1>1, StepTakesOneStep
<1>3. ControlBoundary(flown.step) <=> left = 1
  BY <1>1, <1>2, LoopEndsOnBoundary DEF FlightState
<1>4. /\ sim' = flown /\ stop' = Cause(flown)
      /\ UNCHANGED <<ctx, failure, updates, actions, agentUpdates>>
      /\ IF Cause(flown) # "None" \/ left = 1
         THEN place' = "between" /\ left' = 0
         ELSE left' = left - 1 /\ UNCHANGED place
  BY DEF Advance, Cause
<1>5. EpisodeInv'
  <2>1. Interval \in Nat
    BY PlantAssumption
  <2> HIDE DEF flown
  <2>2. /\ mode' \in Modes /\ FlightState(sim') /\ updates' \in Nat
        /\ ~Terminal(sim') => sim'.step < MaxTimeStep
        /\ stop' = Cause(sim')
    BY <1>1, <1>2, <1>4 DEF EpisodeInv, ctx
  <2>3. (Cause(sim))' = Cause(sim')
    BY <1>4 DEF Cause, ctx, Bounded!TerminalStop, Bounded!BoundedStop
  <2>4. place' = "between" /\ stop' = "None" => sim'.step = updates' * Interval
    BY <1>1, <1>2, <1>4 DEF FlightState
  <2>5. place' = "inside" =>
          /\ stop' = "None" /\ left' \in 1..Interval /\ sim'.step + left' = updates' * Interval
    BY <1>1, <1>2, <1>4, <2>1 DEF FlightState
  <2>6. place' \in {"between", "inside"}
    BY <1>1, <1>4
  <2> QED BY <2>2, <2>3, <2>4, <2>5, <2>6 DEF EpisodeInv
<1>6. ASSUME Capturing PROVE Bounded!Transition(o, "Ok")
  <2>1. flown = Bounded!StepSim(goal, sim, o)
    BY SamePlant
  <2>2. events' = events \o Bounded!Stamped(Bounded!StepEvents(goal, sim, o), flown.step)
    BY <1>6, SamePlant DEF Advance, Keep
  <2>3. /\ samples' = Bounded!Sampled(samples, flown)
        /\ contact' = IF o.contact = "None" THEN contact
                      ELSE [class |-> o.contact, step |-> flown.step]
    BY <1>6 DEF Advance, Keep
  <2> HIDE DEF flown
  <2>4. IF Bounded!Terminal(flown) THEN stop' = Bounded!TerminalStop(flown)
                                   ELSE stop' = Bounded!BoundedStop(flown)
    BY <1>4, SamePlant DEF Cause
  <2>5. Bounded!TerminalStop(flown) # "None"
    BY DEF Bounded!TerminalStop
  <2>6. Bounded!ControlBoundary(flown.step) <=> left = 1
    BY <1>3, SamePlant
  <2>7. stop' = "None" => (place' = "between" <=> left = 1) /\ place' \in {"between", "inside"}
    BY <1>1, <1>4
  <2>8. place # "created" /\ place' # "created"
    BY <1>1, <1>4
  <2>9. stop' = Cause(flown) /\ (Cause(flown) = "None" \/ place' = "between")
    BY <1>4
  <2> QED BY <1>1, <1>4, <2>1, <2>2, <2>3, <2>4, <2>5, <2>6, <2>7, <2>8, <2>9
      DEF Bounded!Transition, Bounded!Finish, Bounded!ctx, ctx
<1>7. o \in Bounded!Outcomes /\ "Ok" \in Bounded!Verdicts
  BY SamePlant DEF Bounded!Verdicts
<1> QED BY <1>5, <1>6, <1>7 DEF Implements, Bounded!Next

\* Every step of the episode keeps its invariant and is a step of the bounded run, or none.
LEMMA EpisodeStepImplements ==
  EpisodeInv /\ [Next]_vars => EpisodeInv' /\ Implements
<1> SUFFICES ASSUME EpisodeInv, [Next]_vars PROVE EpisodeInv' /\ Implements
  OBVIOUS
<1>1. ASSUME Finish PROVE EpisodeInv' /\ Implements
  <2>1. EpisodeInv'
    BY <1>1 DEF Finish, EpisodeInv, ctx, Cause, Bounded!BoundedStop
  <2>2. UNCHANGED Bounded!vars
    BY <1>1 DEF Finish, Bounded!vars, ctx, recording
  <2> QED BY <2>1, <2>2 DEF Implements
<1>2. ASSUME UNCHANGED vars PROVE EpisodeInv' /\ Implements
  <2>1. EpisodeInv'
    BY <1>2 DEF vars, EpisodeInv, Cause, Bounded!BoundedStop
  <2>2. UNCHANGED Bounded!vars
    BY <1>2 DEF vars, Bounded!vars
  <2> QED BY <2>1, <2>2 DEF Implements
<1> QED BY <1>1, <1>2, ResetIsInitialGuard, StepFrameIsIssueUpdate, RefusalsAreTheRuns,
   AdvanceIsTransition DEF Next, Returned

\* The invariant of the episode, of the caller that is one.
CallerEpisodeInv == caller = "episode" => EpisodeInv

\* It holds of the callers' behaviours.
LEMMA EpisodeInvariance == CallersSpec => []CallerEpisodeInv
<1>1. CallersInit => CallerEpisodeInv
  BY EpisodeStarts DEF CallersInit, CallerEpisodeInv
<1>2. CallerEpisodeInv /\ [CallersNext]_allVars => CallerEpisodeInv'
  <2> SUFFICES ASSUME CallerEpisodeInv, [CallersNext]_allVars, caller' = "episode"
               PROVE  EpisodeInv'
    BY DEF CallerEpisodeInv
  <2>1. caller = "episode" /\ [Next]_vars
    BY DEF CallersNext, LandingStep, allVars
  <2> QED BY <2>1, EpisodeStepImplements DEF CallerEpisodeInv
<1> QED BY <1>1, <1>2, CallersStep, PTL

\* The episode of pd-run, driven call by call with its counted loop, is the bounded run of pd-core
\* under the guard that allows everything: same records, same order of reasons to stop, same
\* failures, and final once stopped.
THEOREM EpisodeImplementsBoundedRun ==
  ASSUME Modes = {"Captured"}
  PROVE  CallersSpec => EpisodeIsBoundedRun
<1>1. CallersInit => (caller = "episode" => Bounded!Init)
  BY EpisodeStarts DEF CallersInit
<1>2. CallerEpisodeInv /\ [CallersNext]_allVars
        => [caller = "episode" => [Bounded!Next]_(Bounded!vars)]_allVars
  <2> SUFFICES ASSUME CallerEpisodeInv, [CallersNext]_allVars, caller = "episode"
               PROVE  [Bounded!Next]_(Bounded!vars)
    OBVIOUS
  <2>1. [Next]_vars
    BY DEF CallersNext, LandingStep, allVars
  <2>2. EpisodeInv
    BY DEF CallerEpisodeInv
  <2>3. Capturing
    BY <2>2 DEF Capturing, EpisodeInv
  <2> QED BY <2>1, <2>2, <2>3, EpisodeStepImplements DEF Implements
<1> QED BY <1>1, <1>2, CallersStep, EpisodeInvariance, PTL DEF EpisodeIsBoundedRun

\* The number of steps h, rounded up to whole intervals of n.
LEMMA RoundedUpCovers ==
  ASSUME NEW n \in Nat \ {0}, NEW h \in Nat
  PROVE  ((h + n - 1) \div n) * n \in Int /\ ((h + n - 1) \div n) * n >= h
<1>1. ASSUME NEW k \in Nat PROVE (k \div n) * n \in Int /\ (k \div n) * n >= k - (n - 1)
  <2>1. (k \div n) * n + (k % n) = k /\ k % n <= n - 1
    BY <1>1, Z3
  <2>2. (k \div n) * n \in Int /\ k % n \in Int
    BY <1>1, Z3
  <2> QED BY <1>1, <2>1, <2>2
<1>2. h + n - 1 \in Nat
  OBVIOUS
<1>3. /\ ((h + n - 1) \div n) * n \in Int
      /\ ((h + n - 1) \div n) * n >= (h + n - 1) - (n - 1)
  BY <1>1, <1>2
<1> QED BY <1>3

\* An episode given exactly the scenario's horizon is never cut short by the driver: without a
\* failure it ends in a terminal state of the mission (scenario_horizon_limits).
THEOREM HorizonEndsTheMission == CallersSpec => []EpisodeHorizonEndsMission
<1>1. EpisodeInv => HorizonEndsMission
  <2> SUFFICES ASSUME EpisodeInv, limits = ScenarioHorizonLimits, MaxTimeStep <= HorizonSteps,
                      place = "taken", failure = Bounded!NoFailure
               PROVE  Terminal(sim) /\ stop \in {"MissionTerminal", "ScenarioHorizonReached"}
    BY DEF HorizonEndsMission
  <2>1. stop = Cause(sim) /\ stop # "None" /\ sim.step \in Nat
    BY DEF EpisodeInv, FlightState
  <2>2. ASSUME ~Terminal(sim) PROVE FALSE
    <3>1. sim.step < HorizonSteps /\ HorizonSteps \in Nat
      BY <2>1, <2>2, PlantAssumption DEF EpisodeInv
    <3>2. ~(sim.step >= limits.hardEnd)
      BY <2>1, <3>1 DEF ScenarioHorizonLimits
    <3>3. limits.coverage \in Int /\ limits.coverage >= HorizonSteps
      BY <3>1, RoundedUpCovers, PlantAssumption DEF ScenarioHorizonLimits
    <3>4. ~(sim.step >= limits.coverage)
      BY <2>1, <3>1, <3>3
    <3> QED BY <2>1, <2>2, <3>2, <3>4 DEF Cause, Bounded!BoundedStop
  <2> QED BY <2>1, <2>2 DEF Cause, Bounded!TerminalStop
<1>2. CallerEpisodeInv => EpisodeHorizonEndsMission
  BY <1>1 DEF CallerEpisodeInv, EpisodeHorizonEndsMission
<1> QED BY <1>2, EpisodeInvariance, PTL

----------------------------------------------------------------------------
(* The ballistic candidate.                                                 *)

\* A plan is for the goal t: its correction c, and the clock of its coast, on.
Planned(t, c, on) == c \in {Never, t.revision} /\ (on # Never => on.for = t.revision)

\* The handoffs h, the goal t and the next revision n come one after the other, below the cap, and
\* only below it is a waypoint the goal.
Advances(h, t, n) ==
  /\ h \in Seq(Nat) /\ t.revision \in Nat /\ n \in Nat /\ t.destination \in BOOLEAN
  /\ Len(h) <= CandidateScenario.cap
  /\ ~t.destination => Len(h) < CandidateScenario.cap
  /\ \A i, j \in DOMAIN h : i < j => h[i] < h[j]
  /\ \A i \in DOMAIN h : h[i] < t.revision
  /\ t.revision < n

\* A recovery, a pending coast and the landing exclude each other, each in its places of the loop.
Owned ==
  /\ place \notin {"top", "recovery", "stopped"} => recoveryStarted = Never
  /\ recoveryStarted # Never => Ballistic!RecoveryOwned /\ ~pendingCoast
  /\ pendingCoast =>
       place \in {"top", "handoff", "pending", "stopped"} /\ target.destination /\ ~landing
  /\ place = "recovery" => recoveryStarted # Never
  /\ place = "acquire" => ~landing
  /\ landing => target.destination /\ correction = Never

CandidateInv ==
  /\ Planned(target, correction, coastStarted)
  /\ Advances(handoffRevisions, target, nextRevision)
  /\ Owned

\* A goal issued later is later than every handoff.
LEMMA LaterGoal ==
  ASSUME NEW h, NEW t, NEW n, Advances(h, t, n),
         NEW t2, NEW n2 \in Nat, t2.revision \in Nat, t2.destination \in BOOLEAN,
         t.revision <= t2.revision, t2.revision < n2,
         ~t2.destination => Len(h) < CandidateScenario.cap
  PROVE  Advances(h, t2, n2)
BY DEF Advances

\* A handoff is of the goal after the last one.
LEMMA HandoffAdvances ==
  ASSUME NEW h, NEW t, NEW n, Advances(h, t, n), ~t.destination
  PROVE  Advances(Append(h, t.revision), Ballistic!Destination(n), n + 1)
<1> DEFINE longer == Append(h, t.revision)
<1>1. /\ longer \in Seq(Nat) /\ Len(longer) = Len(h) + 1 /\ DOMAIN longer = 1..(Len(h) + 1)
      /\ \A i \in 1..Len(h) : longer[i] = h[i]
      /\ longer[Len(h) + 1] = t.revision /\ Len(h) \in Nat /\ DOMAIN h = 1..Len(h)
  BY AppendProperties DEF Advances
<1>2. Len(h) < CandidateScenario.cap /\ CandidateScenario.cap \in Nat
  BY CandidateAssumption DEF Advances, Ballistic!BallisticAssumption
<1> HIDE DEF longer
<1>3. /\ t.revision \in Nat /\ n \in Nat /\ t.revision < n
      /\ \A i \in 1..Len(h) : h[i] < t.revision
      /\ \A i, j \in 1..Len(h) : i < j => h[i] < h[j]
  BY <1>1 DEF Advances
<1>a. \A i \in 1..Len(h) : h[i] \in Nat
  <2>1. h \in Seq(Nat)
    BY DEF Advances
  <2> QED BY <2>1
<1>4. \A i, j \in DOMAIN longer : i < j => longer[i] < longer[j]
  <2> SUFFICES ASSUME NEW i \in 1..(Len(h) + 1), NEW j \in 1..(Len(h) + 1), i < j
               PROVE  longer[i] < longer[j]
    BY <1>1
  <2>1. i \in 1..Len(h)
    BY <1>1
  <2>a. h[i] < t.revision
    BY <1>3, <2>1
  <2>2. CASE j = Len(h) + 1
    BY <1>1, <2>1, <2>a, <2>2
  <2>3. CASE j \in 1..Len(h)
    BY <1>1, <1>3, <2>1, <2>3
  <2> QED BY <1>1, <2>2, <2>3
<1>5. \A i \in DOMAIN longer : longer[i] < n
  <2> SUFFICES ASSUME NEW i \in 1..(Len(h) + 1) PROVE longer[i] < n
    BY <1>1
  <2>1. CASE i = Len(h) + 1
    BY <1>1, <1>3, <2>1
  <2>2. CASE i \in 1..Len(h)
    <3>1. longer[i] = h[i] /\ h[i] \in Nat /\ h[i] < t.revision
      BY <1>1, <1>3, <1>a, <2>2
    <3> QED BY <1>3, <3>1
  <2> QED BY <1>1, <2>1, <2>2
<1>6. n \in Nat
  BY DEF Advances
<1>7. Advances(longer, Ballistic!Destination(n), n + 1)
  BY <1>1, <1>2, <1>4, <1>5, <1>6 DEF Advances, Ballistic!Destination
<1> QED BY <1>7 DEF longer

\* A local replan makes a waypoint the goal, the active one or a later one.
LEMMA ReplanIsLater ==
  ASSUME NEW first \in Nat, target.revision \in Nat, target.revision < first,
         Ballistic!LocalReplan(first)
  PROVE  /\ target'.revision \in Nat /\ target'.destination = FALSE /\ nextRevision' \in Nat
         /\ target.revision <= target'.revision /\ target'.revision < nextRevision'
<1>1. PICK tried \in 1..CandidateScenario.maxProposals, again \in 0..CandidateScenario.maxProposals :
        /\ again <= tried
        /\ nextRevision' = first + tried - (IF again = 0 THEN 0 ELSE 1)
        /\ target' = Ballistic!Waypoint(IF again = tried THEN target.revision ELSE nextRevision' - 1)
  BY DEF Ballistic!LocalReplan
<1>2. tried \in Nat /\ tried >= 1 /\ again \in Nat
  BY <1>1, CandidateAssumption DEF Ballistic!BallisticAssumption
<1>3. target'.destination = FALSE
  BY <1>1 DEF Ballistic!Waypoint
<1>4. CASE again = tried
  <2>1. nextRevision' = first + tried - 1 /\ target'.revision = target.revision
    BY <1>1, <1>2, <1>4 DEF Ballistic!Waypoint
  <2> QED BY <1>2, <1>3, <2>1
<1>5. CASE again # tried
  <2>1. target'.revision = nextRevision' - 1
    BY <1>1, <1>5 DEF Ballistic!Waypoint
  <2>2. nextRevision' \in Int /\ first < nextRevision'
    BY <1>1, <1>2, <1>5
  <2>3. ASSUME NEW a \in Nat, NEW b \in Nat, NEW c \in Int, a < b, b < c
        PROVE  c \in Nat /\ c - 1 \in Nat /\ a <= c - 1 /\ c - 1 < c
    BY <2>3
  <2>4. /\ nextRevision' \in Nat /\ nextRevision' - 1 \in Nat
        /\ target.revision <= nextRevision' - 1 /\ nextRevision' - 1 < nextRevision'
    BY <2>2, <2>3
  <2> QED BY <1>3, <2>1, <2>4
<1> QED BY <1>4, <1>5

\* A candidate starts for the destination, with nothing owned.
LEMMA CandidateStarts == Ballistic!BallisticInit => CandidateInv
<1> SUFFICES ASSUME Ballistic!BallisticInit PROVE CandidateInv
  OBVIOUS
<1>1. CandidateScenario.cap \in Nat \ {0}
  BY CandidateAssumption DEF Ballistic!BallisticAssumption
<1>2. << >> \in Seq(Nat) /\ Len(<< >>) = 0 /\ DOMAIN << >> = {}
  OBVIOUS
<1>3. Advances(handoffRevisions, target, nextRevision)
  BY <1>1, <1>2 DEF Ballistic!BallisticInit, Ballistic!Destination, Advances
<1> QED BY <1>3 DEF Ballistic!BallisticInit, Ballistic!Destination, CandidateInv, Planned, Owned

\* The turns that leave the goal, its plan and the handoffs alone.
LEMMA PlanLeftAlone ==
  ASSUME CandidateInv,
         \/ Ballistic!StopAtTop \/ Ballistic!NotPassed \/ Ballistic!NoCoastPending
         \/ Ballistic!QueryCoast \/ Ballistic!CoastClear \/ Ballistic!AcquisitionContinues
         \/ Ballistic!NoPreview \/ Ballistic!Command \/ Ballistic!FlightFails \/ Ballistic!Returned
  PROVE  CandidateInv'
<1>1. /\ UNCHANGED <<target, correction, coastStarted, nextRevision, handoffRevisions, landing,
                     sourceCleared, neutral, recoveryStarted, pendingCoast>>
      /\ \/ /\ place' \in {"top", "stopped"}
            /\ pendingCoast => place \in {"top", "handoff", "pending", "stopped"}
         \/ place = "handoff" /\ place' = "pending"
         \/ place \in {"pending", "coast", "obstruction", "preview"} /\ ~pendingCoast
            /\ place' \in {"coast", "obstruction", "preview", "acceptance"}
  BY DEF CandidateInv, Owned, Ballistic!StopAtTop, Ballistic!NotPassed, Ballistic!NoCoastPending,
     Ballistic!QueryCoast, Ballistic!CoastClear, Ballistic!AcquisitionContinues, Ballistic!NoPreview,
     Ballistic!Command, Ballistic!FlightFails, Ballistic!Returned, Ballistic!Stop, Ballistic!Goto,
     Ballistic!At, Ballistic!Advance, Ballistic!plan, Ballistic!fixed, Ballistic!ballisticVars
<1> QED BY <1>1 DEF CandidateInv, Planned, Advances, Owned, Ballistic!RecoveryOwned

\* The turns that end or clear a plan and keep its goal.
LEMMA GoalKept ==
  ASSUME CandidateInv,
         \/ Ballistic!Begin \/ Ballistic!Recover \/ Ballistic!CoastToTerminal
         \/ Ballistic!AcceptCoast \/ Ballistic!NoCoast \/ Ballistic!Acquire
         \/ Ballistic!CoastThrough \/ Ballistic!CommandConflict
  PROVE  CandidateInv'
<1>1. UNCHANGED <<target, nextRevision, handoffRevisions>>
  BY DEF Ballistic!Begin, Ballistic!Recover, Ballistic!CoastToTerminal, Ballistic!AcceptCoast,
     Ballistic!NoCoast, Ballistic!Acquire, Ballistic!CoastThrough, Ballistic!CommandConflict,
     Ballistic!plan
<1>2. Advances(handoffRevisions, target, nextRevision)'
  BY <1>1 DEF CandidateInv, Advances
<1> USE DEF CandidateInv, Planned, Owned, Ballistic!RecoveryOwned, Ballistic!At, Ballistic!Goto,
            Ballistic!Stop, Ballistic!Advance, Ballistic!plan, Ballistic!fixed
<1>3. ASSUME Ballistic!Begin PROVE CandidateInv'
  BY <1>1, <1>2, <1>3 DEF Ballistic!Begin
<1>4. ASSUME Ballistic!Recover PROVE CandidateInv'
  BY <1>1, <1>2, <1>4 DEF Ballistic!Recover
<1>5. ASSUME Ballistic!CoastToTerminal PROVE CandidateInv'
  <2>1. /\ place = "pending" /\ pendingCoast /\ target.destination /\ ~landing
        /\ UNCHANGED <<coastStarted, sourceCleared, recoveryStarted, neutral>>
    BY <1>5 DEF Ballistic!CoastToTerminal, Ballistic!CoastTerminalOwned
  <2>2. \/ place' = "coast" /\ correction' = Never /\ pendingCoast' = FALSE
        \/ place' = "top" /\ UNCHANGED <<correction, landing, pendingCoast>>
    BY <1>5 DEF Ballistic!CoastToTerminal
  <2>3. Planned(target, correction, coastStarted)'
    BY <1>1, <2>1, <2>2
  <2>4. recoveryStarted = Never /\ recoveryStarted' = Never
    BY <2>1
  <2>5. Owned'
    <3>1. target'.destination
      BY <1>1, <2>1
    <3>2. CASE place' = "coast" /\ correction' = Never /\ pendingCoast' = FALSE
      BY <2>4, <3>1, <3>2
    <3>3. CASE place' = "top" /\ UNCHANGED <<correction, landing, pendingCoast>>
      <4>1. ~landing'
        BY <2>1, <3>3
      <4> QED BY <2>4, <3>1, <3>3, <4>1
    <3> QED BY <2>2, <3>2, <3>3
  <2> QED BY <1>2, <2>3, <2>5
<1>6. ASSUME Ballistic!AcceptCoast PROVE CandidateInv'
  BY <1>1, <1>2, <1>6 DEF Ballistic!AcceptCoast, Ballistic!CoastOn
<1>7. ASSUME Ballistic!NoCoast PROVE CandidateInv'
  BY <1>1, <1>2, <1>7 DEF Ballistic!NoCoast
<1>8. ASSUME Ballistic!Acquire PROVE CandidateInv'
  BY <1>1, <1>2, <1>8 DEF Ballistic!Acquire
<1>9. ASSUME Ballistic!CoastThrough PROVE CandidateInv'
  BY <1>1, <1>2, <1>9 DEF Ballistic!CoastThrough, Ballistic!MayCoastThrough
<1>10. ASSUME Ballistic!CommandConflict PROVE CandidateInv'
  BY <1>1, <1>2, <1>10 DEF Ballistic!CommandConflict
<1> QED BY <1>3, <1>4, <1>5, <1>6, <1>7, <1>8, <1>9, <1>10

\* The places that replace the goal, and the plan with it.
LEMMA GoalReplaced ==
  ASSUME CandidateInv,
         \/ Ballistic!Handoff \/ Ballistic!CoastObstructed \/ Ballistic!EarlyDestination
         \/ Ballistic!AimObstructed
  PROVE  CandidateInv'
<1> USE DEF Ballistic!At, Ballistic!Goto, Ballistic!Stop, Ballistic!plan, Ballistic!fixed
<1>1. /\ Advances(handoffRevisions, target, nextRevision) /\ Owned
      /\ Planned(target, correction, coastStarted)
  BY DEF CandidateInv
<1>2. /\ UNCHANGED <<landing, sourceCleared, neutral, recoveryStarted, pendingCoast>>
      /\ ~landing /\ recoveryStarted = Never
  BY <1>1 DEF Owned, Ballistic!Handoff, Ballistic!CoastObstructed, Ballistic!EarlyDestination,
     Ballistic!AimObstructed, Ballistic!CoastQueried
<1>3. ~pendingCoast
  BY <1>1 DEF Owned, Ballistic!Handoff, Ballistic!CoastObstructed, Ballistic!EarlyDestination,
     Ballistic!AimObstructed
<1>4. place' \in {"pending", "preview", "acceptance", "command", "stopped"}
  BY DEF Ballistic!Handoff, Ballistic!CoastObstructed, Ballistic!EarlyDestination,
     Ballistic!AimObstructed, Ballistic!ReplanStops
<1>5. Owned'
  BY <1>2, <1>3, <1>4 DEF Owned
<1>6. ASSUME UNCHANGED <<target, correction, coastStarted, nextRevision, handoffRevisions>>
      PROVE  CandidateInv'
  BY <1>1, <1>5, <1>6 DEF CandidateInv, Planned, Advances
<1>7. ASSUME NEW first \in Nat, first \in {nextRevision, nextRevision + 1},
             Ballistic!LocalReplan(first), UNCHANGED handoffRevisions,
             correction' = target'.revision, coastStarted' = Never,
             Len(handoffRevisions) < CandidateScenario.cap
      PROVE  CandidateInv'
  <2>1. target.revision < first /\ target.revision \in Nat
    BY <1>1, <1>7 DEF Advances
  <2>2. /\ target'.revision \in Nat /\ target'.destination = FALSE /\ nextRevision' \in Nat
        /\ target.revision <= target'.revision /\ target'.revision < nextRevision'
    BY <1>7, <2>1, ReplanIsLater
  <2>3. Advances(handoffRevisions, target', nextRevision')
    BY <1>1, <1>7, <2>2, LaterGoal
  <2> QED BY <1>5, <1>7, <2>3 DEF CandidateInv, Planned, Advances
<1>8. ASSUME Ballistic!Handoff PROVE CandidateInv'
  <2>1. CASE place' = "pending"
    <3>1. /\ ~target.destination
          /\ handoffRevisions' = Append(handoffRevisions, target.revision)
          /\ target' = Ballistic!Destination(nextRevision) /\ nextRevision' = nextRevision + 1
          /\ correction' = Never /\ coastStarted' = Never
      BY <1>8, <2>1 DEF Ballistic!Handoff
    <3>2. Advances(handoffRevisions', target', nextRevision')
      BY <1>1, <3>1, HandoffAdvances
    <3> QED BY <1>5, <3>1, <3>2 DEF CandidateInv, Planned, Advances
  <2>2. CASE place' # "pending"
    BY <1>6, <1>8, <2>2 DEF Ballistic!Handoff
  <2> QED BY <2>1, <2>2
<1>9. nextRevision \in Nat /\ nextRevision + 1 \in Nat /\ Len(handoffRevisions) \in Nat
      /\ CandidateScenario.cap \in Nat
  BY <1>1, CandidateAssumption DEF Advances, Ballistic!BallisticAssumption
<1>10. ASSUME Ballistic!CoastObstructed PROVE CandidateInv'
  BY <1>6, <1>7, <1>9, <1>10 DEF Ballistic!CoastObstructed, Ballistic!ReplanStops, Ballistic!CapReached
<1>11. ASSUME Ballistic!AimObstructed PROVE CandidateInv'
  BY <1>6, <1>7, <1>9, <1>11 DEF Ballistic!AimObstructed, Ballistic!ReplanStops, Ballistic!CapReached
<1>12. ASSUME Ballistic!EarlyDestination PROVE CandidateInv'
  <2>1. ~target.destination /\ UNCHANGED handoffRevisions
    BY <1>12 DEF Ballistic!EarlyDestination
  <2>2. Len(handoffRevisions) < CandidateScenario.cap
    BY <1>1, <2>1 DEF Advances
  <2>3. ASSUME target' = Ballistic!Destination(nextRevision), nextRevision' = nextRevision + 1,
               correction' \in {Never, target'.revision}, coastStarted' = Never
        PROVE  CandidateInv'
    <3>1. Advances(handoffRevisions, target', nextRevision')
      BY <1>1, <2>2, <2>3, LaterGoal DEF Advances, Ballistic!Destination
    <3> QED BY <1>5, <2>1, <2>3, <3>1 DEF CandidateInv, Planned, Advances
  <2> QED BY <1>6, <1>7, <1>9, <1>12, <2>1, <2>2, <2>3
      DEF Ballistic!EarlyDestination, Ballistic!ReplanStops
<1> QED BY <1>8, <1>10, <1>11, <1>12

\* The plan of the candidate is for the goal it was made for, a landing has one owner, and the two
\* ensures in its loop hold where they stand; its handoffs are of goals issued one after the other
\* and no more than the correction cap, although the replan of an early destination does not ask
\* for it (ballistic_feedback.rs, execute).
THEOREM CandidatesPlanInOrder == CallersSpec => []CandidatePlansInOrder
<1> DEFINE Inv == caller = "candidate" => CandidateInv
<1>1. CallersInit => Inv
  BY CandidateStarts DEF CallersInit
<1>2. Inv /\ [CallersNext]_allVars => Inv'
  <2> SUFFICES ASSUME Inv, [CallersNext]_allVars, caller' = "candidate" PROVE CandidateInv'
    OBVIOUS
  <2>1. /\ caller = "candidate"
        /\ Ballistic!BallisticNext
           \/ UNCHANGED <<target, correction, coastStarted, nextRevision, handoffRevisions, landing,
                          sourceCleared, neutral, recoveryStarted, pendingCoast, place>>
    BY DEF CallersNext, LandingStep, allVars, vars, candidateVars
  <2>2. CandidateInv
    BY <2>1
  <2>3. CASE UNCHANGED <<target, correction, coastStarted, nextRevision, handoffRevisions, landing,
                         sourceCleared, neutral, recoveryStarted, pendingCoast, place>>
    BY <2>2, <2>3 DEF CandidateInv, Planned, Advances, Owned, Ballistic!RecoveryOwned
  <2> QED BY <2>1, <2>2, <2>3, PlanLeftAlone, GoalKept, GoalReplaced DEF Ballistic!BallisticNext
<1>3. Inv => CandidatePlansInOrder
  BY DEF CandidatePlansInOrder, CandidateInv, Planned, Advances, Owned, Ballistic!PlanOfTheGoal,
     Ballistic!HandoffsAdvance, Ballistic!At, Ballistic!CoastTerminalOwned, Ballistic!RecoveryOwned
<1> QED BY <1>1, <1>2, <1>3, CallersStep, PTL

----------------------------------------------------------------------------
(* The ordinary run.                                                        *)

\* The plant of the bounded run is the ordinary run's.
LEMMA SameOrdinaryPlant ==
  /\ Ordinary!Bounded!NewSim = Ordinary!NewSim /\ Ordinary!Bounded!Outcomes = Ordinary!Outcomes
  /\ \A s : Ordinary!Bounded!Terminal(s) <=> Ordinary!Terminal(s)
  /\ \A k : Ordinary!Bounded!ControlBoundary(k) <=> Ordinary!ControlBoundary(k)
  /\ \A g, s, o : Ordinary!Bounded!StepSim(g, s, o) = Ordinary!StepSim(g, s, o)
  /\ \A g, s, o : Ordinary!Bounded!StepEvents(g, s, o) = Ordinary!StepEvents(g, s, o)
<1>1. /\ Ordinary!Bounded!NewSim = Ordinary!NewSim /\ Ordinary!Bounded!Outcomes = Ordinary!Outcomes
      /\ \A s : Ordinary!Bounded!Terminal(s) <=> Ordinary!Terminal(s)
      /\ \A k : Ordinary!Bounded!ControlBoundary(k) <=> Ordinary!ControlBoundary(k)
  BY DEF Ordinary!Bounded!NewSim, Ordinary!NewSim, Ordinary!Bounded!NoIndex, Ordinary!NoIndex,
     Ordinary!Bounded!Outcomes, Ordinary!Outcomes, Ordinary!Bounded!Contacts, Ordinary!Contacts,
     Ordinary!Bounded!Terminal, Ordinary!Terminal, Ordinary!Bounded!ControlBoundary,
     Ordinary!ControlBoundary
<1>2. \A s : /\ Ordinary!Bounded!Satisfy(s) = Ordinary!Satisfy(s)
             /\ Ordinary!Bounded!Fail(s) = Ordinary!Fail(s)
  BY DEF Ordinary!Bounded!Satisfy, Ordinary!Satisfy, Ordinary!Bounded!Fail, Ordinary!Fail
<1>3. \A s : /\ Ordinary!Bounded!PhysicsStep(s) = Ordinary!PhysicsStep(s)
             /\ Ordinary!Bounded!ApplyMaxTime(s) = Ordinary!ApplyMaxTime(s)
  BY DEF Ordinary!Bounded!PhysicsStep, Ordinary!PhysicsStep, Ordinary!Bounded!ApplyMaxTime,
     Ordinary!ApplyMaxTime
<1>4. \A g, s, c : Ordinary!Bounded!ApplyContact(g, s, c) = Ordinary!ApplyContact(g, s, c)
  BY DEF Ordinary!Bounded!ApplyContact, Ordinary!ApplyContact, Ordinary!Bounded!TouchdownVerdict,
     Ordinary!TouchdownVerdict
<1>5. \A s, i, o : /\ Ordinary!Bounded!ContractPass(s, i, o) <=> Ordinary!ContractPass(s, i, o)
                   /\ Ordinary!Bounded!Resolved(s, i, o) <=> Ordinary!Resolved(s, i, o)
  BY DEF Ordinary!Bounded!ContractPass, Ordinary!ContractPass, Ordinary!Bounded!Resolved,
     Ordinary!Resolved, Ordinary!Bounded!WindowOpen, Ordinary!WindowOpen
<1>6. \A g, s : Ordinary!Bounded!JudgedWaypoint(g, s) = Ordinary!JudgedWaypoint(g, s)
  BY <1>1 DEF Ordinary!Bounded!JudgedWaypoint, Ordinary!JudgedWaypoint, Ordinary!Bounded!Indices,
     Ordinary!Indices, Ordinary!Bounded!NoIndex, Ordinary!NoIndex
<1>7. \A g, s, i, o :
        Ordinary!Bounded!WaypointProgress(g, s, i, o) = Ordinary!WaypointProgress(g, s, i, o)
  BY <1>2, <1>5 DEF Ordinary!Bounded!WaypointProgress, Ordinary!WaypointProgress,
     Ordinary!Bounded!NoIndex, Ordinary!NoIndex
<1>8. \A g, s, o : Ordinary!Bounded!ApplyProgress(g, s, o) = Ordinary!ApplyProgress(g, s, o)
  BY <1>2, <1>6, <1>7 DEF Ordinary!Bounded!ApplyProgress, Ordinary!ApplyProgress,
     Ordinary!Bounded!NoIndex, Ordinary!NoIndex
<1>9. \A g, s, o : Ordinary!Bounded!StepSim(g, s, o) = Ordinary!StepSim(g, s, o)
  BY <1>1, <1>3, <1>4, <1>8 DEF Ordinary!Bounded!StepSim, Ordinary!StepSim
<1>10. \A g, s, t : Ordinary!Bounded!ProgressEvents(g, s, t) = Ordinary!ProgressEvents(g, s, t)
  BY <1>1 DEF Ordinary!Bounded!ProgressEvents, Ordinary!ProgressEvents
<1>11. \A g, s, o : Ordinary!Bounded!StepEvents(g, s, o) = Ordinary!StepEvents(g, s, o)
  BY <1>1, <1>3, <1>4, <1>8, <1>10 DEF Ordinary!Bounded!StepEvents, Ordinary!StepEvents
<1> QED BY <1>1, <1>9, <1>11

\* A state of a flight that has not been in contact and has not timed out.
InTheAir(s) ==
  {"step", "end", "physical"} \subseteq DOMAIN s /\ s.step \in Nat /\ s.physical = "Flying"

\* What the mission makes of a step leaves it in the air, at its time.
LEMMA OrdinaryProgressInTheAir ==
  ASSUME NEW g, NEW s, InTheAir(s), s.end = "Running", NEW o
  PROVE  LET t == Ordinary!ApplyProgress(g, s, o)
         IN  InTheAir(t) /\ t.step = s.step
             /\ t.end \in {"Running", "CheckpointSatisfied", "CheckpointFailed"}
<1> DEFINE Kept(t) == /\ InTheAir(t) /\ t.step = s.step
                      /\ t.end \in {"Running", "CheckpointSatisfied", "CheckpointFailed"}
<1>1. ASSUME NEW t, Kept(t) PROVE Kept(Ordinary!Satisfy(t)) /\ Kept(Ordinary!Fail(t))
  BY <1>1 DEF Ordinary!Satisfy, Ordinary!Fail, InTheAir
<1>2. ASSUME NEW i PROVE Kept(Ordinary!WaypointProgress(g, s, i, o))
  <2> DEFINE open == [s EXCEPT !.window = IF o.capture THEN i ELSE @]
             closed == [s EXCEPT !.window = Ordinary!NoIndex]
             failed == [closed EXCEPT !.failedAt = i]
             beyond == [closed EXCEPT !.passed = @ + 1]
  <2>1. Kept(open) /\ Kept(closed)
    BY DEF InTheAir
  <2>2. Kept(failed) /\ Kept(beyond)
    BY DEF InTheAir
  <2> HIDE DEF open, closed, failed, beyond, Kept
  <2> QED BY <1>1, <2>1, <2>2 DEF Ordinary!WaypointProgress, open, closed, failed, beyond
<1>3. Kept(s)
  OBVIOUS
<1> HIDE DEF Kept
<1>4. Kept(Ordinary!ApplyProgress(g, s, o))
  BY <1>1, <1>2, <1>3 DEF Ordinary!ApplyProgress
<1> QED BY <1>4 DEF Kept

\* A transition of a flight that goes on: a contact ends it and is what the state tells of it; and
\* unless it is over it is within its time limit.
LEMMA OrdinaryStep ==
  ASSUME NEW g, NEW s, InTheAir(s), s.end = "Running", NEW o \in Ordinary!Outcomes
  PROVE  LET t == Ordinary!StepSim(g, s, o)
         IN  /\ {"step", "end", "physical"} \subseteq DOMAIN t /\ t.step = s.step + 1
             /\ ~Ordinary!Terminal(t) => InTheAir(t) /\ t.step < OrdinaryScenario.timeLimit
             /\ Ordinary!ContactClass(t) = o.contact
<1> DEFINE moved == Ordinary!PhysicsStep(s)
           landed == Ordinary!ApplyContact(g, moved, o.contact)
           advanced == Ordinary!ApplyProgress(g, moved, o)
           last == Ordinary!ApplyMaxTime(advanced)
<1>1. InTheAir(moved) /\ moved.step = s.step + 1 /\ moved.end = "Running"
  BY DEF InTheAir, Ordinary!PhysicsStep
<1>2. o.contact \in {"None", "OnTarget", "OffTarget", "Crash"}
  BY DEF Ordinary!Outcomes, Ordinary!Contacts
<1>3. CASE o.contact # "None"
  <2>1. /\ {"step", "end", "physical"} \subseteq DOMAIN landed /\ landed.step = moved.step
        /\ Ordinary!Terminal(landed) /\ Ordinary!ContactClass(landed) = o.contact
    BY <1>1, <1>2, <1>3
    DEF Ordinary!ApplyContact, Ordinary!Terminal, Ordinary!ContactClass, InTheAir
  <2>2. Ordinary!StepSim(g, s, o) = landed
    BY <2>1 DEF Ordinary!StepSim
  <2> HIDE DEF landed, moved
  <2> QED BY <1>1, <2>1, <2>2
<1>4. CASE o.contact = "None"
  <2>1. landed = moved /\ ~Ordinary!Terminal(landed)
    BY <1>1, <1>4 DEF Ordinary!ApplyContact, Ordinary!Terminal
  <2>2. InTheAir(advanced) /\ advanced.step = moved.step
    BY <1>1, OrdinaryProgressInTheAir
  <2>3. Ordinary!ContactClass(advanced) = "None"
    BY <2>2 DEF Ordinary!ContactClass, InTheAir
  <2>4. /\ {"step", "end", "physical"} \subseteq DOMAIN last /\ last.step = moved.step
        /\ Ordinary!Terminal(last) /\ Ordinary!ContactClass(last) = "None"
    BY <2>2 DEF Ordinary!ApplyMaxTime, Ordinary!Terminal, Ordinary!ContactClass, InTheAir
  <2> HIDE DEF advanced, last
  <2>5. \/ /\ Ordinary!StepSim(g, s, o) = advanced
           /\ Ordinary!Terminal(advanced) \/ ~(moved.step >= OrdinaryScenario.timeLimit)
        \/ Ordinary!StepSim(g, s, o) = last
    BY <2>1 DEF Ordinary!StepSim, advanced, last
  <2> HIDE DEF moved
  <2> QED BY <1>1, <1>4, <2>2, <2>3, <2>4, <2>5, OrdinaryAssumption DEF InTheAir
<1> QED BY <1>2, <1>3, <1>4

\* An ordinary run that has not returned is in the air, within the scenario's time; its replay
\* leaves the record alone.
OrdinaryInv ==
  /\ pass \in {"record", "replay"}
  /\ pass = "record" =>
       /\ phase \in {"entered", "update", "step", "returned"}
       /\ phase = "entered" => updates = 0
       /\ phase # "returned" =>
            InTheAir(sim) /\ sim.end = "Running" /\ sim.step < OrdinaryScenario.timeLimit

\* A run that is in the air, within its time, has no reason of the driver's to stop.
LEMMA NoStopInTheAir ==
  ASSUME OrdinaryScenario.timeLimit <= OrdinaryScenario.horizon,
         NEW s, s.step \in Nat, s.step < OrdinaryScenario.timeLimit
  PROVE  Ordinary!Bounded!BoundedStop(s) = "None"
<1>1. /\ Ordinary!Horizon.hardEnd = OrdinaryScenario.horizon
      /\ Ordinary!Horizon.coverage \in Int /\ Ordinary!Horizon.coverage >= OrdinaryScenario.horizon
  BY OrdinaryAssumption, RoundedUpCovers DEF Ordinary!Horizon
<1>2. s.step < OrdinaryScenario.horizon /\ OrdinaryScenario.horizon \in Nat
  BY OrdinaryAssumption
<1>3. ~(s.step >= Ordinary!Horizon.hardEnd) /\ ~(s.step >= Ordinary!Horizon.coverage)
  BY <1>1, <1>2
<1> QED BY <1>3 DEF Ordinary!Bounded!BoundedStop

\* An ordinary run starts where the bounded run does.
LEMMA OrdinaryStarts == Ordinary!Init => OrdinaryInv /\ Ordinary!Bounded!Init
<1> SUFFICES ASSUME Ordinary!Init PROVE OrdinaryInv /\ Ordinary!Bounded!Init
  OBVIOUS
<1>1. InTheAir(Ordinary!NewSim) /\ Ordinary!NewSim.end = "Running" /\ Ordinary!NewSim.step = 0
  BY DEF InTheAir, Ordinary!NewSim
<1>2. 0 < OrdinaryScenario.timeLimit
  BY OrdinaryAssumption
<1>3. OrdinaryInv
  BY <1>1, <1>2 DEF Ordinary!Init, OrdinaryInv
<1>4. Ordinary!record.sim = Ordinary!NewSim /\ Ordinary!record.updates = 0
      /\ Ordinary!record.actions = <<>> /\ Ordinary!record.events = <<>>
      /\ Ordinary!record.samples = Ordinary!Bounded!Sampled(<<>>, Ordinary!NewSim)
  BY DEF Ordinary!Init, Ordinary!record, Ordinary!Artifact, Ordinary!NewArtifact
<1>5. Ordinary!Bounded!ValidLimits(Ordinary!Horizon)
  <2>1. /\ OrdinaryScenario.interval \in Nat \ {0} /\ OrdinaryScenario.horizon \in Nat
        /\ OrdinaryScenario.horizon + OrdinaryScenario.interval - 1 \in Nat
    BY OrdinaryAssumption
  <2>2. ASSUME NEW n \in Nat \ {0}, NEW k \in Nat PROVE ((k \div n) * n) % n = 0
    <3>1. k \div n \in Nat
      BY <2>2, Z3
    <3> QED BY <3>1, TickOfTheClock
  <2>3. ASSUME NEW n \in Nat \ {0}, NEW h \in Nat
        PROVE  (((h + n - 1) \div n) * n) % n = 0
    <3>1. h + n - 1 \in Nat
      OBVIOUS
    <3> QED BY <2>2, <3>1
  <2>4. Ordinary!Horizon.coverage % OrdinaryScenario.interval = 0
    BY <2>1, <2>3 DEF Ordinary!Horizon
  <2>5. Ordinary!Horizon.hardEnd <= OrdinaryScenario.horizon
    BY <2>1 DEF Ordinary!Horizon
  <2> QED BY <2>4, <2>5
      DEF Ordinary!Bounded!ValidLimits, Ordinary!Bounded!ControlBoundary
<1>6. Ordinary!ContactClass(Ordinary!NewSim) = "None"
  BY <1>1 DEF InTheAir, Ordinary!ContactClass
<1>7. Ordinary!Bounded!Init
  BY <1>4, <1>5, <1>6, SameOrdinaryPlant
  DEF Ordinary!Init, Ordinary!Bounded!Init, Ordinary!Bounded!NoContact, Ordinary!Bounded!NoFailure
<1> QED BY <1>3, <1>7

\* The record of a run under way is what it holds.
LEMMA RecordUnderWay ==
  ASSUME pass = "record", pass' = "record"
  PROVE  /\ Ordinary!record = Ordinary!Artifact /\ Ordinary!record' = Ordinary!Artifact'
         /\ Ordinary!Artifact.sim = sim /\ Ordinary!Artifact.sim' = sim'
         /\ Ordinary!Artifact.updates = updates /\ Ordinary!Artifact.updates' = updates'
         /\ Ordinary!Artifact.actions = actions /\ Ordinary!Artifact.actions' = actions'
         /\ Ordinary!Artifact.events = events /\ Ordinary!Artifact.events' = events'
         /\ Ordinary!Artifact.samples = samples /\ Ordinary!Artifact.samples' = samples'
BY DEF Ordinary!record, Ordinary!Artifact

\* The loop is entered: the initial guard allows it, and no limit is reached.
LEMMA EnterIsInitialGuard ==
  ASSUME OrdinaryScenario.timeLimit <= OrdinaryScenario.horizon, OrdinaryInv, Ordinary!Enter
  PROVE  OrdinaryInv' /\ Ordinary!Bounded!InitialGuard("Ok")
<1>1. /\ pass = "record" /\ pass' = "record" /\ phase = "entered" /\ phase' = "update"
      /\ UNCHANGED <<goal, sim, updates, actions, events, samples>>
      /\ InTheAir(sim) /\ sim.end = "Running" /\ sim.step < OrdinaryScenario.timeLimit
  BY DEF Ordinary!Enter, Ordinary!flight, OrdinaryInv
<1>2. Ordinary!Bounded!BoundedStop(sim) = "None"
  BY <1>1, NoStopInTheAir DEF InTheAir
<1>3. Ordinary!record.sim = sim /\ Ordinary!record' = Ordinary!record
  BY <1>1, RecordUnderWay DEF Ordinary!Artifact
<1>4. Ordinary!Bounded!InitialGuard("Ok")
  BY <1>1, <1>2, <1>3 DEF Ordinary!Bounded!InitialGuard, Ordinary!Bounded!ctx
<1> QED BY <1>1, <1>4 DEF OrdinaryInv

\* An answer is clamped and issued.
LEMMA UpdateIsIssueUpdate ==
  ASSUME OrdinaryInv, NEW raw \in OrdinaryScenario.rawCommands, Ordinary!Update(raw)
  PROVE  OrdinaryInv' /\ Ordinary!Bounded!IssueUpdate(Clamped[raw])
<1>1. /\ pass = "record" /\ pass' = "record" /\ phase = "update" /\ phase' = "step"
      /\ sim' = [sim EXCEPT !.held = Clamped[raw]]
      /\ InTheAir(sim) /\ sim.end = "Running" /\ sim.step < OrdinaryScenario.timeLimit
  BY DEF Ordinary!Update, Ordinary!Issue, OrdinaryInv
<1>2. InTheAir(sim') /\ sim'.end = sim.end /\ sim'.step = sim.step
  BY <1>1 DEF InTheAir
<1>3. Ordinary!ContactClass(sim) = "None" /\ Ordinary!ContactClass(sim') = "None"
  BY <1>1, <1>2 DEF InTheAir, Ordinary!ContactClass
<1>4. Ordinary!Bounded!IssueUpdate(Clamped[raw])
  BY <1>1, <1>3, RecordUnderWay
  DEF Ordinary!Update, Ordinary!Issue, Ordinary!Bounded!IssueUpdate, Ordinary!Bounded!ctx
<1> QED BY <1>1, <1>2, <1>4 DEF OrdinaryInv

\* A step is a transition that no guard vetoes and no limit ends.
LEMMA StepIsTransition ==
  ASSUME OrdinaryScenario.timeLimit <= OrdinaryScenario.horizon, OrdinaryInv,
         pass = "record", phase = "step", UNCHANGED <<goal, pass, saved>>,
         NEW o \in Ordinary!Outcomes, Ordinary!Fly(o)
  PROVE  OrdinaryInv' /\ Ordinary!Bounded!Transition(o, "Ok")
<1> DEFINE flown == Ordinary!StepSim(goal, sim, o)
<1>1. InTheAir(sim) /\ sim.end = "Running"
  BY DEF OrdinaryInv
<1>2. /\ {"step", "end", "physical"} \subseteq DOMAIN flown /\ flown.step = sim.step + 1
      /\ ~Ordinary!Terminal(flown) => InTheAir(flown) /\ flown.step < OrdinaryScenario.timeLimit
      /\ Ordinary!ContactClass(flown) = o.contact
  BY <1>1, OrdinaryStep
<1>3. /\ sim' = flown /\ phase' = Ordinary!AfterStep(flown)
      /\ events' = events \o Ordinary!Bounded!Stamped(Ordinary!StepEvents(goal, sim, o), flown.step)
      /\ samples' = Ordinary!Bounded!Sampled(samples, flown) /\ UNCHANGED <<updates, actions>>
  BY DEF Ordinary!Fly
<1>4. flown = Ordinary!Bounded!StepSim(goal, sim, o)
  BY SameOrdinaryPlant
<1> HIDE DEF flown
<1>5. Ordinary!Terminal(flown) <=> flown.end # "Running"
  BY DEF Ordinary!Terminal
<1>6. OrdinaryInv'
  BY <1>2, <1>3, <1>5 DEF OrdinaryInv, Ordinary!AfterStep
<1>7. ~Ordinary!Terminal(flown) => Ordinary!Bounded!BoundedStop(flown) = "None"
  BY <1>2, NoStopInTheAir DEF InTheAir
<1>8. Ordinary!ContactClass(sim) = "None"
  BY <1>1 DEF InTheAir, Ordinary!ContactClass
<1>9. events' = events \o Ordinary!Bounded!Stamped(Ordinary!Bounded!StepEvents(goal, sim, o), flown.step)
  BY <1>3, SameOrdinaryPlant
<1>10. /\ Ordinary!record.sim = sim /\ Ordinary!record.updates = updates
       /\ Ordinary!record.actions = actions /\ Ordinary!record.events = events
       /\ Ordinary!record.samples = samples
       /\ Ordinary!record.sim' = flown /\ Ordinary!record.updates' = updates
       /\ Ordinary!record.actions' = actions /\ Ordinary!record.events' = events'
       /\ Ordinary!record.samples' = samples'
  BY <1>3, RecordUnderWay
<1>11. /\ Ordinary!Terminal(flown) <=> phase' = "returned"
       /\ ~Ordinary!Terminal(flown) =>
            phase' = IF Ordinary!Bounded!ControlBoundary(flown.step) THEN "update" ELSE "step"
       /\ Ordinary!Terminal(flown) <=> Ordinary!Bounded!Terminal(flown)
  BY <1>3, SameOrdinaryPlant DEF Ordinary!AfterStep
<1>12. Ordinary!Bounded!Transition(o, "Ok")
  BY <1>2, <1>4, <1>7, <1>8, <1>9, <1>10, <1>3, <1>11
  DEF Ordinary!Bounded!Transition, Ordinary!Bounded!Finish, Ordinary!Bounded!TerminalStop,
      Ordinary!Bounded!ctx
<1> QED BY <1>6, <1>12

\* Whatever happens after the record has been handed over, the bounded run has returned.
LEMMA ReplayLeavesRecord ==
  ASSUME OrdinaryInv, UNCHANGED goal,
         \/ Ordinary!Present
         \/ pass = "replay" /\ UNCHANGED <<pass, saved>>
         \/ UNCHANGED Ordinary!vars
  PROVE  OrdinaryInv' /\ UNCHANGED Ordinary!Bounded!vars
<1>1. CASE UNCHANGED Ordinary!vars
  <2>1. UNCHANGED <<goal, pass, phase, sim, updates, actions, events, samples, saved>>
    BY <1>1 DEF Ordinary!vars
  <2>2. OrdinaryInv'
    BY <2>1 DEF OrdinaryInv, InTheAir
  <2>3. UNCHANGED Ordinary!record
    BY <2>1 DEF Ordinary!record, Ordinary!Artifact
  <2>4. UNCHANGED Ordinary!Bounded!vars
    BY <2>1, <2>3 DEF Ordinary!Bounded!vars, Ordinary!ContactClass
  <2> QED BY <2>2, <2>4
<1>2. CASE Ordinary!Present \/ (pass = "replay" /\ UNCHANGED <<pass, saved>>)
  <2>1. /\ pass' = "replay" /\ (pass = "replay" \/ phase = "returned")
        /\ Ordinary!record' = Ordinary!record
    BY <1>2 DEF Ordinary!Present, Ordinary!record
  <2>2. OrdinaryInv'
    BY <2>1 DEF OrdinaryInv
  <2>3. pass = "record" => phase = "returned"
    BY <2>1 DEF OrdinaryInv
  <2>4. UNCHANGED Ordinary!Bounded!vars
    BY <2>1, <2>3 DEF Ordinary!Bounded!vars, Ordinary!ContactClass, OrdinaryInv
  <2> QED BY <2>2, <2>4
<1> QED BY <1>1, <1>2

\* Every step of the ordinary run is a step of the bounded run, or none.
LEMMA OrdinaryStepImplements ==
  ASSUME OrdinaryScenario.timeLimit <= OrdinaryScenario.horizon
  PROVE  OrdinaryInv /\ [Ordinary!Next]_(Ordinary!vars)
           => OrdinaryInv' /\ [Ordinary!Bounded!Next]_(Ordinary!Bounded!vars)
<1> SUFFICES ASSUME OrdinaryInv, [Ordinary!Next]_(Ordinary!vars)
             PROVE  OrdinaryInv' /\ [Ordinary!Bounded!Next]_(Ordinary!Bounded!vars)
  OBVIOUS
<1>1. ASSUME Ordinary!Enter
      PROVE  OrdinaryInv' /\ Ordinary!Bounded!Next
  BY <1>1, EnterIsInitialGuard DEF Ordinary!Bounded!Next, Ordinary!Bounded!Verdicts
<1>2. ASSUME NEW raw \in OrdinaryScenario.rawCommands, Ordinary!Update(raw)
      PROVE  OrdinaryInv' /\ Ordinary!Bounded!Next
  BY <1>2, UpdateIsIssueUpdate, OrdinaryAssumption DEF Ordinary!Bounded!Next
<1>3. ASSUME Ordinary!Step
      PROVE  OrdinaryInv' /\ Ordinary!Bounded!Next
  <2>1. PICK o \in Ordinary!Distinct : Ordinary!Fly(o)
    BY <1>3 DEF Ordinary!Step
  <2>2. o \in Ordinary!Outcomes
    BY <2>1 DEF Ordinary!Distinct
  <2>3. OrdinaryInv' /\ Ordinary!Bounded!Transition(o, "Ok")
    BY <1>3, <2>1, <2>2, StepIsTransition DEF Ordinary!Step
  <2> QED BY <2>2, <2>3, SameOrdinaryPlant DEF Ordinary!Bounded!Next, Ordinary!Bounded!Verdicts
<1>4. \/ Ordinary!Enter
      \/ \E raw \in OrdinaryScenario.rawCommands : Ordinary!Update(raw)
      \/ Ordinary!Step
      \/ UNCHANGED goal
         /\ \/ Ordinary!Present
            \/ pass = "replay" /\ UNCHANGED <<pass, saved>>
            \/ UNCHANGED Ordinary!vars
  BY DEF Ordinary!Next, Ordinary!Present, Ordinary!ConsumeAction, Ordinary!ReplayStep, Ordinary!Over,
     Ordinary!vars
<1> QED BY <1>1, <1>2, <1>3, <1>4, ReplayLeavesRecord

\* The two loops of the core are one (run_simulation against run_simulation_bounded): the ordinary
\* run is the bounded run to the scenario's horizon, record for record, whenever the horizon is not
\* below the time limit.  (Where rounding puts it a step below, run_simulation goes on and the
\* bounded run stops.)
THEOREM OrdinaryImplementsBoundedRun ==
  ASSUME OrdinaryScenario.timeLimit <= OrdinaryScenario.horizon
  PROVE  CallersSpec => OrdinaryIsBoundedRun
<1> DEFINE Inv == caller = "ordinary" => OrdinaryInv
<1>1. CallersInit => Inv /\ (caller = "ordinary" => Ordinary!Bounded!Init)
  BY OrdinaryStarts DEF CallersInit
<1>2. Inv /\ [CallersNext]_allVars
        => Inv' /\ [caller = "ordinary" => [Ordinary!Bounded!Next]_(Ordinary!Bounded!vars)]_allVars
  <2> SUFFICES ASSUME Inv, [CallersNext]_allVars
               PROVE  /\ caller' = "ordinary" => OrdinaryInv'
                      /\ caller = "ordinary" => [Ordinary!Bounded!Next]_(Ordinary!Bounded!vars)
    OBVIOUS
  <2>1. caller' = caller
    BY DEF CallersNext, LandingStep, allVars
  <2>2. ASSUME caller = "ordinary" PROVE [Ordinary!Next]_(Ordinary!vars)
    BY <2>2 DEF CallersNext, LandingStep, allVars, vars, loopVars, Ordinary!vars
  <2> QED BY <2>1, <2>2, OrdinaryStepImplements
<1> QED BY <1>1, <1>2, CallersStep, PTL DEF OrdinaryIsBoundedRun

----------------------------------------------------------------------------
(* The ordinary replay.  As for the bounded one (Replay_proofs), that an     *)
(* intact log gives the same artifact is a matter of the whole flight: the   *)
(* record leaves a trail of moments, and the replay is somewhere on it.      *)

\* The entries of the record, of a log on its way, and of the replay.
LogCommands == Commands \cup OrdinaryScenario.rawCommands
RecordEntries == [step : Nat, index : Nat, command : Commands]
LogEntries == [step : Nat, index : Nat, command : LogCommands, onTime : BOOLEAN]
ReplayEntries == [step : Nat, index : Nat, command : {Clamped[c] : c \in LogCommands}]

\* A moment of the loop: all of it but its log of actions.
Moment(p, s, u, e, t) == [phase |-> p, sim |-> s, updates |-> u, events |-> e, samples |-> t]
Now == Moment(IF phase = "entered" THEN "update" ELSE phase, sim, updates, events, samples)
TakeOff == Moment("update", Ordinary!NewSim, 0, <<>>, Ordinary!NewArtifact.samples)
Landed(a) == Moment("returned", a.sim, a.updates, a.events, a.samples)

\* What a command and an outcome make of a moment.
Issued(m, c) ==
  Moment("step", [m.sim EXCEPT !.held = c], m.updates + 1,
         m.events \o Ordinary!Bounded!Stamped(<<"ControllerUpdated">>, m.sim.step), m.samples)
Moved(g, m, o) ==
  LET t == Ordinary!StepSim(g, m.sim, o)
  IN  Moment(Ordinary!AfterStep(t), t, m.updates,
             m.events \o Ordinary!Bounded!Stamped(Ordinary!StepEvents(g, m.sim, o), t.step),
             Ordinary!Bounded!Sampled(m.samples, t))

\* t is the moment after m: by the next entry of the log acts, in the world w.
After(g, acts, w, m, t) ==
  \/ /\ m.phase = "update" /\ m.updates + 1 \in 1..Len(acts)
     /\ acts[m.updates + 1].step = m.sim.step /\ acts[m.updates + 1].index = m.updates
     /\ t = Issued(m, acts[m.updates + 1].command)
  \/ /\ m.phase = "step" /\ m.sim.step + 1 \in 1..Len(w)
     /\ t = Moved(g, m, w[m.sim.step + 1])
Trail(g, acts, w, h, n) ==
  h[1] = TakeOff /\ \A i \in 1..(n - 1) : After(g, acts, w, h[i], h[i + 1])
Reached(g, acts, w, m) == \E n \in Nat \ {0} : \E h : Trail(g, acts, w, h, n) /\ h[n] = m
OnTrail(g, a, w, m) ==
  \E n \in Nat \ {0} : \E h :
    Trail(g, a.actions, w, h, n) /\ h[n] = Landed(a) /\ \E i \in 1..n : m = h[i]

\* What both passes keep: the craft is in the air until the loop returns.
LoopTypes ==
  /\ pass \in {"record", "replay"}
  /\ phase \in {"entered", "update", "step", "returned", "failed"}
  /\ pass = "replay" => phase # "entered"
  /\ pass = "record" => phase # "failed"
  /\ updates \in Nat /\ (phase = "entered" => updates = 0)
  /\ phase \in {"step", "returned"} => updates > 0
  /\ phase \in {"entered", "update", "step"} => InTheAir(sim) /\ sim.end = "Running"
  /\ world \in Seq(Ordinary!Outcomes)

\* A log of actions whose commands are in range.
InRange(acts) ==
  acts \in Seq(RecordEntries) /\ \A i \in 1..Len(acts) : Clamped[acts[i].command] = acts[i].command

\* The record has left a trail.
TrailLeft ==
  pass = "record" =>
    /\ InRange(actions) /\ Len(actions) = updates
    /\ phase # "returned" => Len(world) = sim.step
    /\ Reached(goal, actions, world, Now)

\* The replay has flown the entries it was given, one by one, each from its boundary.
EntriesFlown ==
  pass = "replay" =>
    /\ log \in Seq(LogEntries) /\ updates <= Len(log)
    /\ actions \in Seq(ReplayEntries) /\ Len(actions) = updates
    /\ \A i \in 1..updates :
         actions[i] = [step |-> (i - 1) * OrdinaryScenario.interval, index |-> i - 1,
                       command |-> Clamped[log[i].command]]
    /\ phase = "update" => sim.step = updates * OrdinaryScenario.interval
    /\ phase = "step" =>
         sim.step \in ((updates - 1) * OrdinaryScenario.interval)
                      ..(updates * OrdinaryScenario.interval - 1)
    /\ phase = "returned" => updates = Len(log)

\* The replay of an intact log is somewhere on the trail of the record.
TrailFollowed ==
  pass = "replay" =>
    /\ saved = [sim |-> saved.sim, updates |-> saved.updates, actions |-> saved.actions,
                events |-> saved.events, samples |-> saved.samples]
    /\ InRange(saved.actions) /\ Len(saved.actions) = saved.updates
    /\ log = Ordinary!SavedLog(saved.actions) =>
         /\ phase # "failed" /\ updates <= saved.updates
         /\ actions = SubSeq(saved.actions, 1, updates)
         /\ OnTrail(goal, saved, world, Now)

OrdinaryReplayInv == LoopTypes /\ TrailLeft /\ EntriesFlown /\ TrailFollowed

\* A moment is the moment of its parts.
LEMMA PartsOfMoment ==
  ASSUME NEW p, NEW s, NEW u, NEW e, NEW t
  PROVE  LET m == Moment(p, s, u, e, t)
         IN  m.phase = p /\ m.sim = s /\ m.updates = u /\ m.events = e /\ m.samples = t
BY DEF Moment

\* r is q, or longer by an element of S.
Extends(S, q, r) == r = q \/ \E x \in S : r = Append(q, x)

\* A trail goes on as the log and the world grow.
LEMMA TrailGoesOn ==
  ASSUME NEW g, NEW A, NEW W, NEW acts \in Seq(A), NEW w \in Seq(W), NEW bs, NEW v,
         Extends(A, acts, bs), Extends(W, w, v),
         NEW m, Reached(g, acts, w, m), NEW t, After(g, bs, v, m, t)
  PROVE  Reached(g, bs, v, t)
<1>1. PICK n \in Nat \ {0} : \E h : Trail(g, acts, w, h, n) /\ h[n] = m
  BY DEF Reached
<1>2. PICK h : Trail(g, acts, w, h, n) /\ h[n] = m
  BY <1>1
<1> DEFINE k == [i \in 1..(n + 1) |-> IF i <= n THEN h[i] ELSE t]
<1>3. ASSUME NEW S, NEW q \in Seq(S), NEW x \in S, NEW j \in 1..Len(q)
      PROVE  j \in 1..Len(Append(q, x)) /\ Append(q, x)[j] = q[j]
  OBVIOUS
<1>4. /\ \A j \in 1..Len(acts) : j \in 1..Len(bs) /\ bs[j] = acts[j]
      /\ \A j \in 1..Len(w) : j \in 1..Len(v) /\ v[j] = w[j]
  <2>1. \A a \in A : \A j \in 1..Len(acts) :
          j \in 1..Len(Append(acts, a)) /\ Append(acts, a)[j] = acts[j]
    BY <1>3
  <2>2. \A o \in W : \A j \in 1..Len(w) :
          j \in 1..Len(Append(w, o)) /\ Append(w, o)[j] = w[j]
    BY <1>3
  <2> QED BY <2>1, <2>2 DEF Extends
<1>5. ASSUME NEW y, NEW x, After(g, acts, w, y, x) PROVE After(g, bs, v, y, x)
  BY <1>4, <1>5 DEF After
<1>6. n + 1 \in Nat \ {0} /\ 1 \in 1..(n + 1) /\ 1 <= n /\ ~(n + 1 <= n) /\ n + 1 \in 1..(n + 1)
      /\ n + 1 - 1 = n
  OBVIOUS
<1>7. k[1] = TakeOff /\ k[n + 1] = t
  BY <1>6, <1>2 DEF Trail
<1>8. ASSUME NEW i \in 1..n PROVE After(g, bs, v, k[i], k[i + 1])
  <2>1. CASE i = n
    <3>1. k[i] = h[n] /\ k[i + 1] = t
      BY <1>6, <2>1
    <3> HIDE DEF k
    <3> QED BY <1>2, <3>1
  <2>2. CASE i \in 1..(n - 1)
    <3>1. k[i] = h[i] /\ k[i + 1] = h[i + 1]
      BY <2>2
    <3> HIDE DEF k
    <3> QED BY <1>5, <1>2, <2>2, <3>1 DEF Trail
  <2> QED BY <2>1, <2>2
<1> HIDE DEF k
<1>9. Trail(g, bs, v, k, n + 1)
  BY <1>6, <1>7, <1>8 DEF Trail
<1> QED BY <1>6, <1>7, <1>9 DEF Reached

\* A trail goes on from each of its moments, until the loop has returned.
LEMMA TrailContinues ==
  ASSUME NEW g, NEW a, NEW w, NEW m, OnTrail(g, a, w, m)
  PROVE  /\ m.phase = "returned" => m = Landed(a)
         /\ m.phase # "returned" => \E t : After(g, a.actions, w, m, t) /\ OnTrail(g, a, w, t)
<1>1. PICK n \in Nat \ {0} : \E h : Trail(g, a.actions, w, h, n) /\ h[n] = Landed(a)
                                 /\ \E i \in 1..n : m = h[i]
  BY DEF OnTrail
<1>2. PICK h : Trail(g, a.actions, w, h, n) /\ h[n] = Landed(a) /\ \E i \in 1..n : m = h[i]
  BY <1>1
<1>3. PICK i \in 1..n : m = h[i]
  BY <1>2
<1>4. CASE i = n
  <2>1. m.phase = "returned" /\ m = Landed(a)
    BY <1>2, <1>3, <1>4, PartsOfMoment DEF Landed
  <2> QED BY <2>1
<1>5. CASE i # n
  <2>1. i \in 1..(n - 1) /\ i + 1 \in 1..n
    BY <1>5
  <2>2. After(g, a.actions, w, m, h[i + 1])
    BY <1>2, <1>3, <2>1 DEF Trail
  <2>3. m.phase # "returned"
    BY <2>2 DEF After
  <2>4. OnTrail(g, a, w, h[i + 1])
    BY <1>2, <2>1 DEF OnTrail
  <2> QED BY <2>2, <2>3, <2>4
<1> QED BY <1>4, <1>5

\* The flight of either pass starts in the air.
LEMMA LoopStarts == InTheAir(Ordinary!NewSim) /\ Ordinary!NewSim.end = "Running"
                    /\ Ordinary!NewSim.step = 0
BY DEF InTheAir, Ordinary!NewSim

\* It starts on its trail.
LEMMA OrdinaryReplayStarts == Ordinary!Init => OrdinaryReplayInv
<1> SUFFICES ASSUME Ordinary!Init PROVE OrdinaryReplayInv
  OBVIOUS
<1>1. /\ pass = "record" /\ phase = "entered" /\ sim = Ordinary!NewSim /\ updates = 0
      /\ actions = <<>> /\ events = <<>> /\ samples = Ordinary!NewArtifact.samples /\ world = <<>>
  BY DEF Ordinary!Init
<1>2. LoopTypes
  BY <1>1, LoopStarts DEF LoopTypes
<1>3. InRange(actions) /\ Len(actions) = updates /\ Len(world) = sim.step
  BY <1>1, LoopStarts DEF InRange
<1>4. Reached(goal, actions, world, Now)
  <2> DEFINE h == [i \in {1} |-> TakeOff]
  <2>1. h[1] = TakeOff
    OBVIOUS
  <2> HIDE DEF h
  <2>2. Trail(goal, actions, world, h, 1)
    BY <2>1 DEF Trail
  <2>3. Now = TakeOff
    BY <1>1 DEF Now, TakeOff
  <2> QED BY <2>1, <2>2, <2>3 DEF Reached
<1>5. TrailLeft
  BY <1>3, <1>4 DEF TrailLeft
<1>6. EntriesFlown /\ TrailFollowed
  BY <1>1 DEF EntriesFlown, TrailFollowed
<1> QED BY <1>2, <1>5, <1>6 DEF OrdinaryReplayInv

\* Commands that are issued stay the record's.
LEMMA InRangeGrows ==
  ASSUME NEW acts, InRange(acts), NEW a \in RecordEntries, Clamped[a.command] = a.command
  PROVE  InRange(Append(acts, a)) /\ Len(Append(acts, a)) = Len(acts) + 1
         /\ Append(acts, a)[Len(acts) + 1] = a
<1>1. PICK bs : bs = Append(acts, a)
  OBVIOUS
<1>2. PICK k \in Nat : k = Len(acts)
  BY DEF InRange
<1>3. /\ bs \in Seq(RecordEntries) /\ Len(bs) = k + 1 /\ bs[k + 1] = a
      /\ \A i \in 1..k : bs[i] = acts[i]
  <2>1. ASSUME NEW S, NEW q \in Seq(S), NEW x \in S
        PROVE  /\ Append(q, x) \in Seq(S) /\ Len(Append(q, x)) = Len(q) + 1
               /\ Append(q, x)[Len(q) + 1] = x
               /\ \A i \in 1..Len(q) : Append(q, x)[i] = q[i]
    OBVIOUS
  <2>2. acts \in Seq(RecordEntries)
    BY DEF InRange
  <2> QED BY <1>1, <1>2, <2>1, <2>2
<1>4. ASSUME NEW i \in 1..(k + 1) PROVE Clamped[bs[i].command] = bs[i].command
  <2>1. CASE i \in 1..k
    BY <1>2, <1>3, <2>1 DEF InRange
  <2>2. CASE i = k + 1
    BY <1>3, <2>2
  <2> QED BY <2>1, <2>2
<1> QED BY <1>1, <1>2, <1>3, <1>4 DEF InRange

\* Every step of the record, once its loop is entered, is one more moment of its trail.
LEMMA RecordLeavesTrail ==
  ASSUME OrdinaryReplayInv,
         \/ Ordinary!Enter
         \/ \E raw \in OrdinaryScenario.rawCommands : Ordinary!Update(raw)
         \/ Ordinary!Step
  PROVE  OrdinaryReplayInv'
<1>1. /\ pass = "record" /\ pass' = "record" /\ goal' = goal
      /\ phase \in {"entered", "update", "step"}
  BY DEF Ordinary!Enter, Ordinary!Update, Ordinary!Step
<1>2. /\ InRange(actions) /\ Len(actions) = updates /\ Len(world) = sim.step /\ updates \in Nat
      /\ InTheAir(sim) /\ sim.end = "Running" /\ sim.step \in Nat /\ world \in Seq(Ordinary!Outcomes)
  BY <1>1 DEF OrdinaryReplayInv, LoopTypes, TrailLeft, InTheAir
<1>3. actions \in Seq(RecordEntries)
  BY <1>2 DEF InRange
<1>4. Reached(goal, actions, world, Now)
  BY <1>1 DEF OrdinaryReplayInv, TrailLeft
<1>5. PICK m : m = Now
  OBVIOUS
<1>6. EntriesFlown' /\ TrailFollowed'
  BY <1>1 DEF EntriesFlown, TrailFollowed
<1>7. ASSUME Ordinary!Enter PROVE OrdinaryReplayInv'
  <2>1. /\ phase = "entered" /\ phase' = "update"
        /\ UNCHANGED <<sim, updates, actions, events, samples, world>>
    BY <1>7 DEF Ordinary!Enter, Ordinary!flight
  <2>2. Now' = Now
    BY <2>1 DEF Now
  <2>3. TrailLeft'
    BY <1>1, <1>2, <1>4, <2>1, <2>2 DEF TrailLeft
  <2>4. LoopTypes'
    BY <1>1, <1>2, <2>1 DEF LoopTypes
  <2> QED BY <1>6, <2>3, <2>4 DEF OrdinaryReplayInv
<1>8. ASSUME NEW raw \in OrdinaryScenario.rawCommands, Ordinary!Update(raw)
      PROVE  OrdinaryReplayInv'
  <2> DEFINE a == [step |-> sim.step, index |-> updates, command |-> Clamped[raw]]
  <2>1. /\ phase = "update" /\ phase' = "step" /\ sim' = [sim EXCEPT !.held = Clamped[raw]]
        /\ actions' = Append(actions, a) /\ updates' = updates + 1
        /\ events' = events \o Ordinary!Bounded!Stamped(<<"ControllerUpdated">>, sim.step)
        /\ UNCHANGED <<samples, world>>
    BY <1>8 DEF Ordinary!Update, Ordinary!Issue
  <2>2. a \in RecordEntries /\ a.step = sim.step /\ a.index = updates /\ a.command = Clamped[raw]
        /\ Clamped[a.command] = a.command
    BY <1>2, OrdinaryAssumption DEF RecordEntries
  <2> HIDE DEF a
  <2>3. PICK bs : bs = actions'
    OBVIOUS
  <2>4. InRange(bs) /\ Len(bs) = updates + 1 /\ bs[updates + 1] = a
    <3>1. /\ InRange(Append(actions, a)) /\ Len(Append(actions, a)) = Len(actions) + 1
          /\ Append(actions, a)[Len(actions) + 1] = a
      BY <1>2, <2>2, InRangeGrows
    <3> QED BY <1>2, <2>1, <2>3, <3>1
  <2>5. m = Moment("update", sim, updates, events, samples)
    BY <1>5, <2>1 DEF Now
  <2>6. Now' = Issued(m, Clamped[raw])
    <3>1. m.sim = sim /\ m.updates = updates /\ m.events = events /\ m.samples = samples
      BY <2>5, PartsOfMoment
    <3>2. Now' = Moment("step", sim', updates', events', samples')
      BY <2>1 DEF Now
    <3> QED BY <2>1, <3>1, <3>2 DEF Issued
  <2>7. PICK t : t = Now'
    OBVIOUS
  <2>8. After(goal, bs, world, m, t)
    <3>1. m.phase = "update" /\ m.sim = sim /\ m.updates = updates
      BY <2>5, PartsOfMoment
    <3>2. updates + 1 \in 1..Len(bs)
      BY <1>2, <2>4
    <3> QED BY <2>2, <2>4, <2>6, <2>7, <3>1, <3>2 DEF After
  <2>9. Reached(goal, bs, world, t)
    <3>1. \E x \in RecordEntries : bs = Append(actions, x)
      BY <2>1, <2>2, <2>3
    <3>2. Reached(goal, actions, world, m) /\ world \in Seq(Ordinary!Outcomes)
      BY <1>2, <1>4, <1>5
    <3>3. Extends(RecordEntries, actions, bs) /\ Extends(Ordinary!Outcomes, world, world)
      BY <3>1 DEF Extends
    <3> QED BY <1>3, <2>8, <3>2, <3>3, TrailGoesOn
  <2>10. InTheAir(sim') /\ sim'.end = "Running" /\ sim'.step = sim.step
    BY <1>2, <2>1 DEF InTheAir
  <2>11. TrailLeft'
    BY <1>1, <1>2, <2>1, <2>3, <2>4, <2>7, <2>9, <2>10 DEF TrailLeft
  <2>12. LoopTypes'
    BY <1>1, <1>2, <2>1, <2>10 DEF LoopTypes
  <2> QED BY <1>6, <2>11, <2>12 DEF OrdinaryReplayInv
<1>9. ASSUME Ordinary!Step PROVE OrdinaryReplayInv'
  <2>1. PICK o \in Ordinary!Distinct : Ordinary!Fly(o) /\ world' = Append(world, o)
    BY <1>9 DEF Ordinary!Step
  <2>2. o \in Ordinary!Outcomes /\ phase = "step"
    BY <1>9, <2>1 DEF Ordinary!Distinct, Ordinary!Step
  <2> DEFINE flown == Ordinary!StepSim(goal, sim, o)
  <2>3. /\ sim' = flown /\ phase' = Ordinary!AfterStep(flown)
        /\ events' = events \o Ordinary!Bounded!Stamped(Ordinary!StepEvents(goal, sim, o), flown.step)
        /\ samples' = Ordinary!Bounded!Sampled(samples, flown) /\ UNCHANGED <<updates, actions>>
    BY <2>1 DEF Ordinary!Fly
  <2>4. /\ flown.step = sim.step + 1
        /\ ~Ordinary!Terminal(flown) => InTheAir(flown) /\ flown.end = "Running"
        /\ Ordinary!AfterStep(flown) \in {"returned", "update", "step"}
        /\ Ordinary!AfterStep(flown) # "returned" => ~Ordinary!Terminal(flown)
    BY <1>2, <2>2, OrdinaryStep DEF Ordinary!AfterStep, Ordinary!Terminal
  <2>5. m = Moment("step", sim, updates, events, samples)
    BY <1>5, <2>2 DEF Now
  <2>6. Now' = Moved(goal, m, o)
    <3>1. m.sim = sim /\ m.updates = updates /\ m.events = events /\ m.samples = samples
      BY <2>5, PartsOfMoment
    <3> HIDE DEF flown
    <3>2. phase' # "entered"
      BY <2>3, <2>4
    <3>3. Now' = Moment(phase', sim', updates', events', samples')
      BY <3>2 DEF Now
    <3> QED BY <2>3, <3>1, <3>3 DEF Moved, flown
  <2> HIDE DEF flown
  <2>7. PICK v : v = world'
    OBVIOUS
  <2>8. /\ v = Append(world, o) /\ v \in Seq(Ordinary!Outcomes)
        /\ Len(v) = Len(world) + 1 /\ v[Len(world) + 1] = o
    <3>1. ASSUME NEW S, NEW q \in Seq(S), NEW x \in S
          PROVE  /\ Append(q, x) \in Seq(S) /\ Len(Append(q, x)) = Len(q) + 1
                 /\ Append(q, x)[Len(q) + 1] = x
      OBVIOUS
    <3> QED BY <1>2, <2>1, <2>2, <2>7, <3>1
  <2>9. PICK t : t = Now'
    OBVIOUS
  <2>10. After(goal, actions, v, m, t)
    <3>1. m.phase = "step" /\ m.sim = sim
      BY <2>5, PartsOfMoment
    <3>2. sim.step + 1 \in 1..Len(v) /\ v[sim.step + 1] = o
      BY <1>2, <2>8
    <3> QED BY <2>6, <2>9, <3>1, <3>2 DEF After
  <2>11. Reached(goal, actions, v, t)
    <3>1. \E x \in Ordinary!Outcomes : v = Append(world, x)
      BY <2>2, <2>8
    <3>2. Reached(goal, actions, world, m) /\ world \in Seq(Ordinary!Outcomes)
      BY <1>2, <1>4, <1>5
    <3>3. Extends(RecordEntries, actions, actions) /\ Extends(Ordinary!Outcomes, world, v)
      BY <3>1 DEF Extends
    <3> QED BY <1>3, <2>10, <3>2, <3>3, TrailGoesOn
  <2>12. TrailLeft'
    BY <1>1, <1>2, <2>3, <2>4, <2>7, <2>8, <2>9, <2>11 DEF TrailLeft
  <2>13. LoopTypes'
    <3>1. updates > 0
      BY <2>2 DEF OrdinaryReplayInv, LoopTypes
    <3> QED BY <1>1, <1>2, <2>3, <2>4, <2>7, <2>8, <3>1 DEF LoopTypes
  <2> QED BY <1>6, <2>12, <2>13 DEF OrdinaryReplayInv
<1> QED BY <1>7, <1>8, <1>9

\* Whatever is done to the saved log on its way, its entries are entries.
LEMMA LogsOnTheirWay ==
  ASSUME NEW acts \in Seq(RecordEntries)
  PROVE  /\ Len(Ordinary!SavedLog(acts)) = Len(acts)
         /\ \A i \in 1..Len(acts) : Ordinary!SavedLog(acts)[i] =
              [step |-> acts[i].step, index |-> acts[i].index, command |-> acts[i].command,
               onTime |-> TRUE]
         /\ Ordinary!PresentedLogs(Ordinary!SavedLog(acts)) \subseteq Seq(LogEntries)
<1> DEFINE l == Ordinary!SavedLog(acts)
<1>1. l \in Seq(LogEntries) /\ Len(l) = Len(acts)
  <2> DEFINE e(i) == [step |-> acts[i].step, index |-> acts[i].index, command |-> acts[i].command,
                      onTime |-> TRUE]
  <2>1. ASSUME NEW i \in 1..Len(acts) PROVE e(i) \in LogEntries
    <3>1. ASSUME NEW S, NEW q \in Seq(S), NEW j \in 1..Len(q) PROVE q[j] \in S
      OBVIOUS
    <3>2. acts[i] \in RecordEntries
      BY <3>1
    <3> QED BY <3>2 DEF RecordEntries, LogEntries, LogCommands
  <2>2. ASSUME NEW S, NEW n \in Nat, NEW f \in [1..n -> S] PROVE f \in Seq(S) /\ Len(f) = n
    OBVIOUS
  <2>3. [i \in 1..Len(acts) |-> e(i)] \in [1..Len(acts) -> LogEntries] /\ Len(acts) \in Nat
    BY <2>1
  <2> QED BY <2>2, <2>3 DEF Ordinary!SavedLog
<1>2. \A i \in 1..Len(acts) : l[i] =
        [step |-> acts[i].step, index |-> acts[i].index, command |-> acts[i].command, onTime |-> TRUE]
  BY DEF Ordinary!SavedLog
<1> HIDE DEF l
<1>3. ASSUME NEW n \in 0..Len(l) PROVE SubSeq(l, 1, n) \in Seq(LogEntries)
  <2>1. ASSUME NEW S, NEW q \in Seq(S), NEW m \in 0..Len(q) PROVE SubSeq(q, 1, m) \in Seq(S)
    OBVIOUS
  <2> QED BY <1>1, <2>1
<1>4. Append(l, Ordinary!Extra(l)) \in Seq(LogEntries)
  <2>1. Len(l) * OrdinaryScenario.interval \in Nat /\ Len(l) \in Nat
    <3>1. ASSUME NEW a \in Nat, NEW b \in Nat PROVE a * b \in Nat
      BY <3>1, Z3
    <3> QED BY <1>1, <3>1, OrdinaryAssumption
  <2>2. Ordinary!Extra(l) \in LogEntries
    BY <2>1, PlantAssumption DEF Ordinary!Extra, LogEntries, LogCommands
  <2>3. ASSUME NEW S, NEW q \in Seq(S), NEW x \in S PROVE Append(q, x) \in Seq(S)
    OBVIOUS
  <2> QED BY <1>1, <2>2, <2>3
<1>5. ASSUME NEW i \in 1..Len(l), NEW q \in Ordinary!Altered(l, i) PROVE q \in Seq(LogEntries)
  <2>1. PICK e : e = l[i]
    OBVIOUS
  <2>2. e \in LogEntries
    BY <1>1, <2>1
  <2>3. ASSUME NEW x \in LogEntries PROVE [l EXCEPT ![i] = x] \in Seq(LogEntries)
    <3>1. ASSUME NEW S, NEW p \in Seq(S), NEW j \in 1..Len(p), NEW y \in S
          PROVE  [p EXCEPT ![j] = y] \in Seq(S)
      OBVIOUS
    <3> QED BY <1>1, <3>1
  <2>4. \A raw \in OrdinaryScenario.rawCommands : [e EXCEPT !.command = raw] \in LogEntries
    BY <2>2 DEF LogEntries, LogCommands
  <2>5. [e EXCEPT !.step = @ + 1] \in LogEntries
    BY <2>2 DEF LogEntries
  <2>6. [e EXCEPT !.index = @ + 1] \in LogEntries
    BY <2>2 DEF LogEntries
  <2>7. [e EXCEPT !.onTime = FALSE] \in LogEntries
    BY <2>2 DEF LogEntries
  <2>8. CASE \E raw \in OrdinaryScenario.rawCommands : q = [l EXCEPT ![i].command = raw]
    <3>1. PICK raw \in OrdinaryScenario.rawCommands : q = [l EXCEPT ![i].command = raw]
      BY <2>8
    <3>2. q = [l EXCEPT ![i] = [l[i] EXCEPT !.command = raw]]
      BY <3>1
    <3> QED BY <2>1, <2>3, <2>4, <3>2
  <2>9. CASE q = [l EXCEPT ![i].step = @ + 1]
    <3>1. q = [l EXCEPT ![i] = [l[i] EXCEPT !.step = @ + 1]]
      BY <2>9
    <3> QED BY <2>1, <2>3, <2>5, <3>1
  <2>10. CASE q = [l EXCEPT ![i].index = @ + 1]
    <3>1. q = [l EXCEPT ![i] = [l[i] EXCEPT !.index = @ + 1]]
      BY <2>10
    <3> QED BY <2>1, <2>3, <2>6, <3>1
  <2>11. CASE q = [l EXCEPT ![i].onTime = FALSE]
    <3>1. q = [l EXCEPT ![i] = [l[i] EXCEPT !.onTime = FALSE]]
      BY <2>11
    <3> QED BY <2>1, <2>3, <2>7, <3>1
  <2> QED BY <2>8, <2>9, <2>10, <2>11 DEF Ordinary!Altered
<1>6. Ordinary!PresentedLogs(l) \subseteq Seq(LogEntries)
  BY <1>3, <1>4, <1>5 DEF Ordinary!PresentedLogs
<1> QED BY <1>1, <1>2, <1>6 DEF l

\* A sequence and its beginnings.
LEMMA Beginnings ==
  ASSUME NEW S, NEW q \in Seq(S)
  PROVE  /\ SubSeq(q, 1, 0) = <<>> /\ SubSeq(q, 1, Len(q)) = q
         /\ \A k \in Nat : k < Len(q) => Append(SubSeq(q, 1, k), q[k + 1]) = SubSeq(q, 1, k + 1)
<1>1. SubSeq(q, 1, 0) = <<>> /\ SubSeq(q, 1, Len(q)) = q
  OBVIOUS
<1>2. ASSUME NEW k \in Nat, k < Len(q) PROVE Append(SubSeq(q, 1, k), q[k + 1]) = SubSeq(q, 1, k + 1)
  BY <1>2
<1> QED BY <1>1, <1>2

\* The log that arrives starts the replay over, at the first moment of the trail.
LEMMA PresentStartsReplay ==
  ASSUME OrdinaryReplayInv, Ordinary!Present
  PROVE  OrdinaryReplayInv'
<1>1. /\ pass = "record" /\ phase = "returned" /\ pass' = "replay" /\ saved' = Ordinary!Artifact
      /\ log' \in Ordinary!PresentedLogs(Ordinary!SavedLog(actions))
      /\ phase' = IF log' = <<>> THEN "failed" ELSE "update"
      /\ sim' = Ordinary!NewSim /\ updates' = 0 /\ actions' = <<>> /\ events' = <<>>
      /\ samples' = Ordinary!NewArtifact.samples /\ goal' = goal /\ world' = world
  BY DEF Ordinary!Present
<1>2. /\ InRange(actions) /\ Len(actions) = updates /\ updates > 0 /\ updates \in Nat
      /\ Reached(goal, actions, world, Now) /\ actions \in Seq(RecordEntries)
      /\ world \in Seq(Ordinary!Outcomes)
  BY <1>1 DEF OrdinaryReplayInv, LoopTypes, TrailLeft, InRange
<1>3. /\ log' \in Seq(LogEntries)
      /\ Len(Ordinary!SavedLog(actions)) = updates
  BY <1>1, <1>2, LogsOnTheirWay
<1>4. LoopTypes'
  BY <1>1, <1>2, LoopStarts DEF LoopTypes
<1>5. EntriesFlown'
  <2>1. 0 * OrdinaryScenario.interval = 0
    BY OrdinaryAssumption, TickOfTheClock
  <2>2. Len(log') \in Nat /\ 0 <= Len(log')
    BY <1>3
  <2> QED BY <1>1, <1>3, <2>1, <2>2, LoopStarts DEF EntriesFlown
<1>6. TrailFollowed'
  <2>1. PICK a : a = saved'
    OBVIOUS
  <2>2. /\ a.sim = sim /\ a.updates = updates /\ a.actions = actions /\ a.events = events
        /\ a.samples = samples
        /\ a = [sim |-> a.sim, updates |-> a.updates, actions |-> a.actions, events |-> a.events,
                samples |-> a.samples]
    BY <1>1, <2>1 DEF Ordinary!Artifact
  <2>3. Landed(a) = Now
    BY <1>1, <2>2 DEF Landed, Now
  <2>4. OnTrail(goal, a, world, TakeOff)
    <3>1. PICK n \in Nat \ {0} : \E h : Trail(goal, actions, world, h, n) /\ h[n] = Now
      BY <1>2 DEF Reached
    <3>2. PICK h : Trail(goal, actions, world, h, n) /\ h[n] = Now
      BY <3>1
    <3>3. 1 \in 1..n /\ h[1] = TakeOff
      BY <3>2 DEF Trail
    <3> QED BY <2>2, <2>3, <3>2, <3>3 DEF OnTrail
  <2>5. ASSUME log' = Ordinary!SavedLog(actions) PROVE phase' = "update"
    <3>1. Len(log') > 0
      BY <1>2, <1>3, <2>5
    <3>2. log' # <<>>
      BY <3>1
    <3> QED BY <1>1, <3>2
  <2>6. phase' = "update" => Now' = TakeOff
    BY <1>1 DEF Now, TakeOff
  <2>7. SubSeq(actions, 1, 0) = <<>>
    BY <1>2, Beginnings
  <2> QED BY <1>1, <1>2, <2>1, <2>2, <2>4, <2>5, <2>6, <2>7 DEF TrailFollowed
<1>7. TrailLeft'
  BY <1>1 DEF TrailLeft
<1> QED BY <1>4, <1>5, <1>6, <1>7 DEF OrdinaryReplayInv

\* Within an interval of n steps the boundary test finds its end, and no step before it.
LEMMA IntervalEnds ==
  ASSUME NEW n \in Nat \ {0}, NEW q \in Nat, NEW k \in Nat, k \in ((q - 1) * n)..(q * n - 1)
  PROVE  IF (k + 1) % n = 0 THEN k + 1 = q * n ELSE k + 1 \in ((q - 1) * n)..(q * n - 1)
<1>1. q * n \in Nat /\ (q * n) % n = 0 /\ q * n = (q - 1) * n + n /\ (q - 1) * n \in Int
  <2>1. q * n \in Nat /\ (q * n) % n = 0
    BY TickOfTheClock
  <2>2. q * n = (q - 1) * n + n /\ (q - 1) * n \in Int
    BY Z3
  <2> QED BY <2>1, <2>2
<1>2. PICK a \in Int, b \in Nat : a = (q - 1) * n /\ b = q * n
  BY <1>1
<1>3. b = a + n /\ k \in a..(b - 1)
  BY <1>1, <1>2
<1>4. ASSUME k + 1 # b PROVE (k + 1) % n # 0
  <2>1. PICK r \in 1..(n - 1) : r = k + 1 - a
    BY <1>3, <1>4
  <2>2. q # 0
    <3>1. 0 * n = 0
      BY TickOfTheClock
    <3> QED BY <1>2, <1>3, <3>1
  <2>3. PICK p \in Nat : p = q - 1
    BY <2>2
  <2>4. k + 1 = p * n + r
    BY <1>2, <2>1, <2>3
  <2> QED BY <2>4, WithinAnInterval
<1>5. k + 1 # b => k + 1 \in a..(b - 1)
  BY <1>3
<1>6. b % n = 0
  BY <1>1, <1>2
<1> QED BY <1>2, <1>4, <1>5, <1>6

\* The entry of an intact log that is due is there, is the record's, and leads along the trail.
LEMMA IntactEntryIsDue ==
  ASSUME OrdinaryReplayInv, pass = "replay", phase = "update",
         log = Ordinary!SavedLog(saved.actions)
  PROVE  LET entry == saved.actions[updates + 1]
         IN  /\ Ordinary!Expected(updates + 1) /\ updates + 1 \in 1..saved.updates
             /\ entry = [step |-> sim.step, index |-> updates,
                         command |-> Clamped[log[updates + 1].command]]
             /\ OnTrail(goal, saved, world, Issued(Now, entry.command))
<1> DEFINE entry == saved.actions[updates + 1]
<1>1. /\ InRange(saved.actions) /\ Len(saved.actions) = saved.updates
      /\ OnTrail(goal, saved, world, Now) /\ updates \in Nat
      /\ saved.actions \in Seq(RecordEntries)
  BY DEF OrdinaryReplayInv, LoopTypes, TrailFollowed, InRange
<1>2. Now.phase = "update" /\ Now.sim = sim /\ Now.updates = updates
  BY PartsOfMoment DEF Now
<1>3. PICK t : After(goal, saved.actions, world, Now, t) /\ OnTrail(goal, saved, world, t)
  BY <1>1, <1>2, TrailContinues
<1>4. /\ updates + 1 \in 1..Len(saved.actions) /\ entry.step = sim.step /\ entry.index = updates
      /\ t = Issued(Now, entry.command)
  BY <1>2, <1>3 DEF After
<1>5. entry \in RecordEntries
  <2>1. ASSUME NEW S, NEW q \in Seq(S), NEW j \in 1..Len(q) PROVE q[j] \in S
    OBVIOUS
  <2> QED BY <1>1, <1>4, <2>1
<1>6. entry = [step |-> sim.step, index |-> updates, command |-> entry.command]
  <2>1. entry = [step |-> entry.step, index |-> entry.index, command |-> entry.command]
    BY <1>5 DEF RecordEntries
  <2> QED BY <1>4, <2>1
<1>7. /\ Len(log) = Len(saved.actions)
      /\ log[updates + 1] = [step |-> entry.step, index |-> entry.index, command |-> entry.command,
                             onTime |-> TRUE]
  BY <1>1, <1>4, LogsOnTheirWay
<1>8. Clamped[entry.command] = entry.command
  BY <1>1, <1>4 DEF InRange
<1> HIDE DEF entry
<1>9. log[updates + 1].command = entry.command /\ log[updates + 1].step = sim.step
      /\ log[updates + 1].index = updates /\ log[updates + 1].onTime
  BY <1>4, <1>7
<1>10. Ordinary!Expected(updates + 1)
  <2>1. PICK i \in Nat : i = updates + 1
    BY <1>1
  <2>2. i <= Len(log) /\ i - 1 = updates
    BY <1>1, <1>4, <1>7, <2>1
  <2>3. log[i].step = sim.step /\ log[i].index = i - 1 /\ log[i].onTime
    BY <1>9, <2>1, <2>2
  <2>4. Ordinary!Expected(i)
    BY <2>2, <2>3 DEF Ordinary!Expected
  <2> QED BY <2>1, <2>4
<1> QED BY <1>1, <1>3, <1>4, <1>6, <1>8, <1>9, <1>10 DEF entry

\* The replay flies the entry that is due, or fails; never on an intact log.
LEMMA ConsumeFollowsLog ==
  ASSUME OrdinaryReplayInv, Ordinary!ConsumeAction
  PROVE  OrdinaryReplayInv'
<1>1. /\ pass = "replay" /\ pass' = "replay" /\ phase = "update"
      /\ UNCHANGED <<goal, world, saved, log>>
  BY DEF Ordinary!ConsumeAction
<1>2. TrailLeft'
  BY <1>1 DEF TrailLeft
<1>3. /\ log \in Seq(LogEntries) /\ updates <= Len(log) /\ actions \in Seq(ReplayEntries)
      /\ Len(actions) = updates /\ sim.step = updates * OrdinaryScenario.interval
      /\ updates \in Nat /\ InTheAir(sim) /\ sim.end = "Running" /\ sim.step \in Nat
  BY <1>1 DEF OrdinaryReplayInv, LoopTypes, EntriesFlown, InTheAir
<1>4. CASE ~Ordinary!Expected(updates + 1)
  <2>1. phase' = "failed" /\ UNCHANGED <<sim, updates, actions, events, samples>>
    BY <1>4 DEF Ordinary!ConsumeAction, Ordinary!flight
  <2>2. LoopTypes'
    BY <1>1, <1>3, <2>1 DEF OrdinaryReplayInv, LoopTypes
  <2>3. EntriesFlown'
    BY <1>1, <2>1 DEF OrdinaryReplayInv, EntriesFlown
  <2>4. log # Ordinary!SavedLog(saved.actions)
    BY <1>1, <1>4, IntactEntryIsDue
  <2>5. TrailFollowed'
    BY <1>1, <2>4 DEF OrdinaryReplayInv, TrailFollowed
  <2> QED BY <1>2, <2>2, <2>3, <2>5 DEF OrdinaryReplayInv
<1>5. CASE Ordinary!Expected(updates + 1)
  <2> DEFINE c == Clamped[log[updates + 1].command]
             a == [step |-> sim.step, index |-> updates, command |-> c]
  <2>1. /\ updates + 1 <= Len(log) /\ log[updates + 1].step = sim.step
        /\ log[updates + 1].index = updates
    BY <1>3, <1>5 DEF Ordinary!Expected
  <2>2. /\ phase' = "step" /\ sim' = [sim EXCEPT !.held = c] /\ updates' = updates + 1
        /\ actions' = Append(actions, a)
        /\ events' = events \o Ordinary!Bounded!Stamped(<<"ControllerUpdated">>, sim.step)
        /\ samples' = samples
    BY <1>5, <2>1 DEF Ordinary!ConsumeAction, Ordinary!Issue
  <2>3. a \in ReplayEntries
    <3>1. ASSUME NEW S, NEW q \in Seq(S), NEW j \in 1..Len(q) PROVE q[j] \in S
      OBVIOUS
    <3>2. log[updates + 1] \in LogEntries
      BY <1>3, <2>1, <3>1
    <3>3. log[updates + 1].command \in LogCommands
      BY <3>2 DEF LogEntries
    <3> QED BY <1>3, <3>3 DEF ReplayEntries
  <2>4. PICK bs : bs = actions'
    OBVIOUS
  <2>5. /\ bs \in Seq(ReplayEntries) /\ Len(bs) = updates + 1 /\ bs[updates + 1] = a
        /\ \A i \in 1..updates : bs[i] = actions[i]
    <3>1. ASSUME NEW S, NEW q \in Seq(S), NEW x \in S
          PROVE  /\ Append(q, x) \in Seq(S) /\ Len(Append(q, x)) = Len(q) + 1
                 /\ Append(q, x)[Len(q) + 1] = x
                 /\ \A i \in 1..Len(q) : Append(q, x)[i] = q[i]
      OBVIOUS
    <3> HIDE DEF a
    <3> QED BY <1>3, <2>2, <2>3, <2>4, <3>1
  <2>6. InTheAir(sim') /\ sim'.end = "Running" /\ sim'.step = sim.step
    BY <1>3, <2>2 DEF InTheAir
  <2>7. LoopTypes'
    BY <1>1, <1>3, <2>2, <2>6 DEF OrdinaryReplayInv, LoopTypes
  <2>8. EntriesFlown'
    <3>1. ASSUME NEW i \in 1..(updates + 1)
          PROVE  bs[i] = [step |-> (i - 1) * OrdinaryScenario.interval, index |-> i - 1,
                          command |-> Clamped[log[i].command]]
      <4>1. CASE i \in 1..updates
        BY <1>1, <2>5, <4>1 DEF OrdinaryReplayInv, EntriesFlown
      <4>2. CASE i = updates + 1
        <5>1. i - 1 = updates
          BY <1>3, <4>2
        <5> QED BY <1>3, <2>5, <4>2, <5>1
      <4> QED BY <1>3, <4>1, <4>2
    <3>2. sim'.step \in ((updates + 1 - 1) * OrdinaryScenario.interval)
                        ..((updates + 1) * OrdinaryScenario.interval - 1)
      <4>1. PICK n \in Nat \ {0} : n = OrdinaryScenario.interval
        BY OrdinaryAssumption
      <4>2. (updates + 1) * n = updates * n + n /\ updates * n \in Nat
        BY <1>3, TickOfTheClock
      <4>3. updates + 1 - 1 = updates
        BY <1>3
      <4>4. PICK k \in Nat : k = updates * n
        BY <4>2
      <4>5. sim'.step = k
        BY <1>3, <2>6, <4>1, <4>4
      <4>6. k \in k..(k + n - 1)
        OBVIOUS
      <4>7. sim'.step \in ((updates + 1 - 1) * n)..((updates + 1) * n - 1)
        BY <4>2, <4>3, <4>4, <4>5, <4>6
      <4> QED BY <4>1, <4>7
    <3> HIDE DEF a, c
    <3> QED BY <1>1, <1>3, <2>1, <2>2, <2>4, <2>5, <3>1, <3>2 DEF EntriesFlown
  <2>9. Now' = Issued(Now, c)
    <3>1. Now = Moment("update", sim, updates, events, samples)
      BY <1>1 DEF Now
    <3>2. Now.sim = sim /\ Now.updates = updates /\ Now.events = events /\ Now.samples = samples
      BY <3>1, PartsOfMoment
    <3>3. Now' = Moment("step", sim', updates', events', samples')
      BY <2>2 DEF Now
    <3> HIDE DEF c
    <3> QED BY <2>2, <3>2, <3>3 DEF Issued
  <2>10. ASSUME log = Ordinary!SavedLog(saved.actions)
         PROVE  /\ updates + 1 <= saved.updates /\ OnTrail(goal, saved, world, Issued(Now, c))
                /\ Append(actions, a) = SubSeq(saved.actions, 1, updates + 1)
    <3>1. /\ updates + 1 \in 1..saved.updates /\ saved.actions[updates + 1] = a
          /\ OnTrail(goal, saved, world, Issued(Now, saved.actions[updates + 1].command))
      BY <1>1, <2>10, IntactEntryIsDue
    <3>2. a.command = c
      OBVIOUS
    <3>3. /\ actions = SubSeq(saved.actions, 1, updates) /\ saved.actions \in Seq(RecordEntries)
          /\ Len(saved.actions) = saved.updates
      BY <1>1, <2>10 DEF OrdinaryReplayInv, TrailFollowed, InRange
    <3> HIDE DEF a, c
    <3>4. updates < Len(saved.actions)
      BY <1>3, <3>1, <3>3
    <3>5. Append(SubSeq(saved.actions, 1, updates), saved.actions[updates + 1])
            = SubSeq(saved.actions, 1, updates + 1)
      BY <1>3, <3>3, <3>4, Beginnings
    <3>6. Append(actions, a) = Append(SubSeq(saved.actions, 1, updates), saved.actions[updates + 1])
      BY <3>1, <3>3
    <3>7. saved.updates \in Nat /\ updates + 1 <= saved.updates
      BY <1>3, <3>3, <3>4
    <3> QED BY <3>1, <3>2, <3>5, <3>6, <3>7
  <2>11. TrailFollowed'
    <3>1. PICK t : t = Now'
      OBVIOUS
    <3> HIDE DEF a, c
    <3> QED BY <1>1, <2>2, <2>9, <2>10, <3>1 DEF OrdinaryReplayInv, TrailFollowed
  <2> QED BY <1>2, <2>7, <2>8, <2>11 DEF OrdinaryReplayInv
<1> QED BY <1>4, <1>5

\* The step of an intact replay is the record's, and leads along the trail.
LEMMA IntactStepIsTheRecords ==
  ASSUME OrdinaryReplayInv, pass = "replay", phase = "step",
         log = Ordinary!SavedLog(saved.actions)
  PROVE  \E o \in Ordinary!Outcomes :
           /\ Ordinary!ReplayOutcomes = {o} /\ OnTrail(goal, saved, world, Moved(goal, Now, o))
           /\ Ordinary!Terminal(Ordinary!StepSim(goal, sim, o)) => updates = Len(log)
<1>1. /\ InRange(saved.actions) /\ Len(saved.actions) = saved.updates
      /\ OnTrail(goal, saved, world, Now) /\ world \in Seq(Ordinary!Outcomes)
      /\ actions = SubSeq(saved.actions, 1, updates) /\ saved.actions \in Seq(RecordEntries)
  BY DEF OrdinaryReplayInv, LoopTypes, TrailFollowed, InRange
<1>2. Now.phase = "step" /\ Now.sim = sim /\ Now.updates = updates
  BY PartsOfMoment DEF Now
<1>3. PICK t : After(goal, saved.actions, world, Now, t) /\ OnTrail(goal, saved, world, t)
  BY <1>1, <1>2, TrailContinues
<1>4. sim.step + 1 \in 1..Len(world) /\ t = Moved(goal, Now, world[sim.step + 1])
  BY <1>2, <1>3 DEF After
<1>5. PICK o : o = world[sim.step + 1]
  OBVIOUS
<1>6. o \in Ordinary!Outcomes
  <2>1. ASSUME NEW S, NEW q \in Seq(S), NEW j \in 1..Len(q) PROVE q[j] \in S
    OBVIOUS
  <2> QED BY <1>1, <1>4, <1>5, <2>1
<1>7. Ordinary!ReplayOutcomes = {o}
  <2>1. sim.step \in Nat
    BY DEF OrdinaryReplayInv, LoopTypes, InTheAir
  <2>2. sim.step < Len(world)
    BY <1>1, <1>4, <2>1
  <2> QED BY <1>1, <1>5, <2>2 DEF Ordinary!ReplayOutcomes
<1>8. ASSUME Ordinary!Terminal(Ordinary!StepSim(goal, sim, o)) PROVE updates = Len(log)
  <2>1. t.phase = "returned" /\ t.updates = updates
    BY <1>2, <1>4, <1>5, <1>8, PartsOfMoment DEF Moved, Ordinary!AfterStep
  <2>2. t = Landed(saved)
    BY <1>3, <2>1, TrailContinues
  <2>3. updates = saved.updates
    BY <2>1, <2>2, PartsOfMoment DEF Landed
  <2> QED BY <1>1, <2>3, LogsOnTheirWay
<1> QED BY <1>3, <1>4, <1>5, <1>6, <1>7, <1>8

\* The replay flies on, returns with every entry used, or fails; never on an intact log.
LEMMA ReplayStepFollowsLog ==
  ASSUME OrdinaryReplayInv, Ordinary!ReplayStep
  PROVE  OrdinaryReplayInv'
<1>1. /\ pass = "replay" /\ pass' = "replay" /\ phase = "step"
      /\ UNCHANGED <<goal, world, saved, log>>
  BY DEF Ordinary!ReplayStep
<1>2. TrailLeft'
  BY <1>1 DEF TrailLeft
<1>3. /\ log \in Seq(LogEntries) /\ updates <= Len(log) /\ Len(log) \in Nat /\ updates \in Nat
      /\ sim.step \in ((updates - 1) * OrdinaryScenario.interval)
                      ..(updates * OrdinaryScenario.interval - 1)
      /\ InTheAir(sim) /\ sim.end = "Running" /\ sim.step \in Nat /\ updates > 0
      /\ world \in Seq(Ordinary!Outcomes)
  BY <1>1 DEF OrdinaryReplayInv, LoopTypes, EntriesFlown, InTheAir
<1>4. Ordinary!ReplayOutcomes \subseteq Ordinary!Outcomes
  <2>1. ASSUME sim.step < Len(world) PROVE world[sim.step + 1] \in Ordinary!Outcomes
    <3>1. ASSUME NEW S, NEW q \in Seq(S), NEW k \in Nat, k < Len(q) PROVE q[k + 1] \in S
      BY <3>1
    <3> QED BY <1>3, <2>1, <3>1
  <2>2. Ordinary!Distinct \subseteq Ordinary!Outcomes
    BY DEF Ordinary!Distinct
  <2> QED BY <2>1, <2>2 DEF Ordinary!ReplayOutcomes
<1>5. PICK o \in Ordinary!ReplayOutcomes :
        LET flown == Ordinary!StepSim(goal, sim, o)
        IN  IF Ordinary!Terminal(flown) /\ updates # Len(log)
            THEN phase' = "failed" /\ UNCHANGED Ordinary!flight ELSE Ordinary!Fly(o)
  BY DEF Ordinary!ReplayStep
<1> DEFINE flown == Ordinary!StepSim(goal, sim, o)
<1>6. CASE Ordinary!Terminal(flown) /\ updates # Len(log)
  <2>1. phase' = "failed" /\ UNCHANGED <<sim, updates, actions, events, samples>>
    BY <1>5, <1>6 DEF Ordinary!flight
  <2>2. LoopTypes'
    BY <1>1, <1>3, <2>1 DEF LoopTypes
  <2>3. EntriesFlown'
    BY <1>1, <2>1 DEF OrdinaryReplayInv, EntriesFlown
  <2>4. log # Ordinary!SavedLog(saved.actions)
    BY <1>1, <1>5, <1>6, IntactStepIsTheRecords
  <2>5. TrailFollowed'
    BY <1>1, <2>4 DEF OrdinaryReplayInv, TrailFollowed
  <2> QED BY <1>2, <2>2, <2>3, <2>5 DEF OrdinaryReplayInv
<1>7. CASE ~(Ordinary!Terminal(flown) /\ updates # Len(log))
  <2>1. /\ sim' = flown /\ phase' = Ordinary!AfterStep(flown)
        /\ events' = events \o Ordinary!Bounded!Stamped(Ordinary!StepEvents(goal, sim, o), flown.step)
        /\ samples' = Ordinary!Bounded!Sampled(samples, flown) /\ UNCHANGED <<updates, actions>>
    BY <1>5, <1>7 DEF Ordinary!Fly
  <2>2. /\ flown.step = sim.step + 1
        /\ ~Ordinary!Terminal(flown) => InTheAir(flown) /\ flown.end = "Running"
    BY <1>3, <1>4, <1>5, OrdinaryStep DEF Ordinary!Terminal
  <2> HIDE DEF flown
  <2>3. /\ Ordinary!Terminal(flown) => phase' = "returned"
        /\ ~Ordinary!Terminal(flown) =>
             phase' = IF Ordinary!ControlBoundary(flown.step) THEN "update" ELSE "step"
    BY <2>1 DEF Ordinary!AfterStep
  <2>4. LoopTypes'
    BY <1>1, <1>3, <2>1, <2>2, <2>3 DEF LoopTypes
  <2>5. EntriesFlown'
    <3>1. phase' = "returned" => updates = Len(log)
      BY <1>7, <2>3
    <3>2. /\ phase' = "update" => flown.step = updates * OrdinaryScenario.interval
          /\ phase' = "step" =>
               flown.step \in ((updates - 1) * OrdinaryScenario.interval)
                              ..(updates * OrdinaryScenario.interval - 1)
      <4>1. /\ OrdinaryScenario.interval \in Nat \ {0}
            /\ Ordinary!ControlBoundary(flown.step) <=> (sim.step + 1) % OrdinaryScenario.interval = 0
        BY <2>2, OrdinaryAssumption DEF Ordinary!ControlBoundary
      <4> QED BY <1>3, <2>2, <2>3, <4>1, IntervalEnds
    <3> QED BY <1>1, <2>1, <3>1, <3>2 DEF OrdinaryReplayInv, EntriesFlown
  <2>6. Now' = Moved(goal, Now, o)
    <3>1. Now = Moment("step", sim, updates, events, samples)
      BY <1>1 DEF Now
    <3>2. Now.sim = sim /\ Now.updates = updates /\ Now.events = events /\ Now.samples = samples
      BY <3>1, PartsOfMoment
    <3>3. Now' = Moment(phase', sim', updates', events', samples')
      BY <2>3 DEF Now
    <3> QED BY <2>1, <3>2, <3>3 DEF Moved, flown
  <2>7. log = Ordinary!SavedLog(saved.actions) => OnTrail(goal, saved, world, Moved(goal, Now, o))
    BY <1>1, <1>5, IntactStepIsTheRecords
  <2>8. phase' # "failed"
    BY <2>3
  <2>9. TrailFollowed'
    <3>1. PICK t : t = Now'
      OBVIOUS
    <3> QED BY <1>1, <2>1, <2>6, <2>7, <2>8, <3>1 DEF OrdinaryReplayInv, TrailFollowed
  <2> QED BY <1>2, <2>4, <2>5, <2>9 DEF OrdinaryReplayInv
<1> QED BY <1>6, <1>7

\* Every step of the two passes keeps the invariant.
LEMMA OrdinaryReplayStep ==
  OrdinaryReplayInv /\ [Ordinary!Next]_(Ordinary!vars) => OrdinaryReplayInv'
<1> SUFFICES ASSUME OrdinaryReplayInv, [Ordinary!Next]_(Ordinary!vars) PROVE OrdinaryReplayInv'
  OBVIOUS
<1>1. CASE UNCHANGED Ordinary!vars
  <2>1. UNCHANGED <<goal, pass, phase, sim, updates, actions, events, samples, world, saved, log>>
    BY <1>1 DEF Ordinary!vars
  <2>2. LoopTypes'
    BY <2>1 DEF OrdinaryReplayInv, LoopTypes, InTheAir
  <2>3. Now' = Now
    BY <2>1 DEF Now
  <2>4. PICK m : m = Now
    OBVIOUS
  <2>5. TrailLeft' /\ TrailFollowed'
    BY <2>1, <2>3, <2>4 DEF OrdinaryReplayInv, TrailLeft, TrailFollowed
  <2>6. EntriesFlown'
    BY <2>1 DEF OrdinaryReplayInv, EntriesFlown
  <2> QED BY <2>2, <2>5, <2>6 DEF OrdinaryReplayInv
<1>2. CASE Ordinary!Over
  BY <1>1, <1>2 DEF Ordinary!Over
<1> QED BY <1>1, <1>2, RecordLeavesTrail, PresentStartsReplay, ConsumeFollowsLog,
           ReplayStepFollowsLog DEF Ordinary!Next

\* An ordinary replay that returns has flown every entry it was given, in order, at its boundary,
\* and the intact log comes back as the artifact it was saved with, events, samples and all
\* (replay_simulation, consume_replay_action): for every interval, limit and controller whose
\* answers, once clamped, stay clamped.
THEOREM OrdinaryReplaysAreTheLog == CallersSpec => []OrdinaryReplayIsTheLog
<1> DEFINE Inv == caller = "ordinary" => OrdinaryReplayInv
<1>1. CallersInit => Inv
  BY OrdinaryReplayStarts DEF CallersInit
<1>2. Inv /\ [CallersNext]_allVars => Inv'
  <2> SUFFICES ASSUME Inv, [CallersNext]_allVars, caller' = "ordinary" PROVE OrdinaryReplayInv'
    OBVIOUS
  <2>1. caller = "ordinary" /\ [Ordinary!Next]_(Ordinary!vars)
    BY DEF CallersNext, LandingStep, allVars, vars, loopVars, Ordinary!vars
  <2> QED BY <2>1, OrdinaryReplayStep
<1>3. Inv => OrdinaryReplayIsTheLog
  <2> SUFFICES ASSUME OrdinaryReplayInv, pass = "replay" PROVE Ordinary!ReturnedReplayIsTheLog
    BY DEF OrdinaryReplayIsTheLog, Ordinary!ReturnedReplayIsTheLog
  <2>1. ASSUME log = Ordinary!SavedLog(saved.actions)
        PROVE  phase # "failed" /\ (phase = "returned" => Ordinary!Artifact = saved)
    <3>1. /\ phase # "failed" /\ OnTrail(goal, saved, world, Now)
          /\ saved = [sim |-> saved.sim, updates |-> saved.updates, actions |-> saved.actions,
                      events |-> saved.events, samples |-> saved.samples]
          /\ saved.actions \in Seq(RecordEntries) /\ Len(saved.actions) = saved.updates
          /\ actions = SubSeq(saved.actions, 1, updates)
      BY <2>1 DEF OrdinaryReplayInv, TrailFollowed, InRange
    <3>2. ASSUME phase = "returned" PROVE Ordinary!Artifact = saved
      <4>1. Now = Moment("returned", sim, updates, events, samples)
        BY <3>2 DEF Now
      <4>2. Now = Landed(saved)
        BY <3>1, <4>1, PartsOfMoment, TrailContinues
      <4>3. /\ sim = saved.sim /\ updates = saved.updates /\ events = saved.events
            /\ samples = saved.samples
        BY <4>1, <4>2, PartsOfMoment DEF Landed
      <4>4. actions = saved.actions
        BY <3>1, <4>3, Beginnings
      <4> QED BY <3>1, <4>3, <4>4 DEF Ordinary!Artifact
    <3> QED BY <3>1, <3>2
  <2>2. ASSUME phase = "returned"
        PROVE  actions = [i \in 1..Len(log) |->
                            [step |-> (i - 1) * OrdinaryScenario.interval, index |-> i - 1,
                             command |-> Clamped[log[i].command]]]
    <3> DEFINE f == [i \in 1..Len(log) |->
                       [step |-> (i - 1) * OrdinaryScenario.interval, index |-> i - 1,
                        command |-> Clamped[log[i].command]]]
    <3>1. /\ actions \in Seq(ReplayEntries) /\ Len(actions) = Len(log)
          /\ \A i \in 1..Len(log) : actions[i] = f[i]
      BY <2>2 DEF OrdinaryReplayInv, EntriesFlown
    <3>2. ASSUME NEW S, NEW q \in Seq(S) PROVE q = [i \in 1..Len(q) |-> q[i]]
      OBVIOUS
    <3>3. actions = [i \in 1..Len(log) |-> actions[i]]
      BY <3>1, <3>2
    <3>4. f = [i \in 1..Len(log) |-> f[i]]
      OBVIOUS
    <3> HIDE DEF f
    <3>5. [i \in 1..Len(log) |-> actions[i]] = [i \in 1..Len(log) |-> f[i]]
      BY <3>1
    <3>6. actions = f
      BY <3>3, <3>4, <3>5
    <3> QED BY <3>6 DEF f
  <2> QED BY <2>1, <2>2 DEF Ordinary!ReturnedReplayIsTheLog
<1> QED BY <1>1, <1>2, <1>3, CallersStep, PTL

----------------------------------------------------------------------------
(* The prepared program.                                                    *)

\* What the mission makes of a step leaves the clock alone.
LEMMA ProgramProgressKeepsClock ==
  ASSUME NEW g, NEW s, FlightState(s), NEW o
  PROVE  FlightState(Prepared!ApplyProgress(g, s, o)) /\ Prepared!ApplyProgress(g, s, o).step = s.step
<1> DEFINE Kept(t) == FlightState(t) /\ t.step = s.step
<1>1. ASSUME NEW t, Kept(t) PROVE Kept(Prepared!Satisfy(t)) /\ Kept(Prepared!Fail(t))
  BY <1>1 DEF Prepared!Satisfy, Prepared!Fail, FlightState
<1>2. ASSUME NEW i PROVE Kept(Prepared!WaypointProgress(g, s, i, o))
  <2> DEFINE open == [s EXCEPT !.window = IF o.capture THEN i ELSE @]
             closed == [s EXCEPT !.window = Prepared!NoIndex]
             failed == [closed EXCEPT !.failedAt = i]
             beyond == [closed EXCEPT !.passed = @ + 1]
  <2>1. Kept(open) /\ Kept(closed)
    BY DEF FlightState
  <2>2. Kept(failed) /\ Kept(beyond)
    BY DEF FlightState
  <2> HIDE DEF open, closed, failed, beyond, Kept
  <2> QED BY <1>1, <2>1, <2>2 DEF Prepared!WaypointProgress, open, closed, failed, beyond
<1>3. Kept(s)
  OBVIOUS
<1> HIDE DEF Kept
<1>4. Kept(Prepared!ApplyProgress(g, s, o))
  BY <1>1, <1>2, <1>3 DEF Prepared!ApplyProgress
<1> QED BY <1>4 DEF Kept

\* A transition takes one physics step.
LEMMA ProgramStep ==
  ASSUME NEW g, NEW s, FlightState(s), NEW o
  PROVE  FlightState(Prepared!StepSim(g, s, o)) /\ Prepared!StepSim(g, s, o).step = s.step + 1
<1> DEFINE moved == Prepared!PhysicsStep(s)
           landed == Prepared!ApplyContact(g, moved, o.contact)
           advanced == Prepared!ApplyProgress(g, moved, o)
           last == Prepared!ApplyMaxTime(advanced)
<1>1. FlightState(moved) /\ moved.step = s.step + 1
  BY DEF FlightState, Prepared!PhysicsStep
<1>2. FlightState(landed) /\ landed.step = moved.step
  BY <1>1 DEF Prepared!ApplyContact, FlightState
<1>3. FlightState(advanced) /\ advanced.step = moved.step
  BY <1>1, ProgramProgressKeepsClock
<1>4. FlightState(last) /\ last.step = moved.step
  BY <1>3 DEF Prepared!ApplyMaxTime, FlightState
<1> HIDE DEF landed, advanced, last
<1>5. Prepared!StepSim(g, s, o) \in {landed, advanced, last}
  BY DEF Prepared!StepSim, landed, advanced, last
<1> HIDE DEF moved
<1> QED BY <1>1, <1>2, <1>3, <1>4, <1>5

\* The entries flown so far, as the action log has them.
FlownOf(n) ==
  [i \in 1..n |-> [step |-> program.updates[i].step, index |-> i - 1,
                   command |-> program.updates[i].command]]

\* Validation and playback meet: an episode between two calls is at the boundary that the next entry
\* names, one that may go on has an entry left, and no more entries are flown than there are.
ProgramInv ==
  /\ program \in ProgramScenario.programs /\ Prepared!ValidProgram(program)
  /\ limits = program.limits
  /\ FlightState(sim) /\ updates \in 0..Len(program.updates) /\ next = updates + 1
  /\ failure.stage # "CommandSelection"
  /\ place = "created" => sim.step = 0 /\ updates = 0
  /\ place \in {"created", "between"} /\ stop = "None" =>
       /\ sim.step = updates * ProgramScenario.interval
       /\ sim.step < limits.coverage
  /\ place = "inside" =>
       /\ stop = "None" /\ left \in Nat \ {0}
       /\ sim.step + left = updates * ProgramScenario.interval
  /\ stop = "CoverageExhausted" => updates = Len(program.updates)
  /\ mode = "Captured" => actions = FlownOf(updates)

\* A valid program has an entry for each interval of its coverage, and no other.
LEMMA EntriesCoverIntervals ==
  ASSUME program \in ProgramScenario.programs, Prepared!ValidProgram(program)
  PROVE  /\ Len(program.updates) \in Nat /\ program.limits.coverage \in Nat
         /\ Len(program.updates) * ProgramScenario.interval = program.limits.coverage
         /\ program.updates \in Seq([step : Nat, command : Commands])
<1>1. /\ program.updates \in Seq([step : Nat, command : Commands]) /\ program.limits.coverage \in Nat
      /\ ProgramScenario.interval \in Nat \ {0}
  BY ProgramAssumption
<1>2. ASSUME NEW n \in Nat \ {0}, NEW k \in Nat, k % n = 0 PROVE (k \div n) * n = k
  BY <1>2, Z3
<1>3. /\ program.limits.coverage % ProgramScenario.interval = 0
      /\ Len(program.updates) = program.limits.coverage \div ProgramScenario.interval
  BY DEF Prepared!ValidProgram
<1>4. (program.limits.coverage \div ProgramScenario.interval) * ProgramScenario.interval
        = program.limits.coverage
  BY <1>1, <1>2, <1>3
<1> QED BY <1>1, <1>3, <1>4

\* Fewer intervals are fewer entries, and no fewer are no fewer.
LEMMA IntervalsOrdered ==
  ASSUME NEW n \in Nat \ {0}, NEW a \in Nat, NEW b \in Nat
  PROVE  a * n < b * n <=> a < b
<1>1. ASSUME NEW c \in Nat, NEW d \in Nat, c <= d PROVE c * n <= d * n
  <2>1. (d - c) \in Nat /\ d * n = c * n + (d - c) * n
    BY <1>1, Z3
  <2>2. (d - c) * n \in Nat /\ c * n \in Nat
    BY <1>1, <2>1, Z3
  <2> QED BY <2>1, <2>2
<1>2. a * n \in Nat /\ b * n \in Nat
  BY Z3
<1>3. ASSUME a < b PROVE a * n < b * n
  <2>1. (a + 1) * n <= b * n /\ (a + 1) * n = a * n + n
    BY <1>1, <1>3, TickOfTheClock
  <2> QED BY <1>2, <2>1
<1> QED BY <1>1, <1>2, <1>3

\* The driver stops for the coverage only at its end, and goes on only before it.
LEMMA CoverageStops ==
  ASSUME NEW s, s.step \in Nat, limits.coverage \in Nat
  PROVE  /\ Prepared!Bounded!BoundedStop(s) = "CoverageExhausted" => s.step >= limits.coverage
         /\ Prepared!Bounded!BoundedStop(s) = "None" => s.step < limits.coverage
         /\ Prepared!Bounded!TerminalStop(s) \notin {"None", "CoverageExhausted"}
BY DEF Prepared!Bounded!BoundedStop, Prepared!Bounded!TerminalStop

\* A program is created at its first entry.
LEMMA ProgramStarts == Prepared!PreparedInit => ProgramInv
<1> SUFFICES ASSUME Prepared!PreparedInit PROVE ProgramInv
  OBVIOUS
<1>1. /\ program \in ProgramScenario.programs /\ Prepared!ValidProgram(program)
      /\ limits = program.limits /\ next = 1 /\ updates = 0 /\ actions = <<>>
      /\ place = "created" /\ sim = Prepared!NewSim
      /\ stop = Prepared!Bounded!BoundedStop(Prepared!NewSim)
      /\ failure = Prepared!Bounded!NoFailure
  BY DEF Prepared!PreparedInit, Prepared!Init
<1>2. FlightState(sim) /\ sim.step = 0
  BY <1>1 DEF FlightState, Prepared!NewSim
<1>3. /\ Len(program.updates) \in Nat /\ limits.coverage \in Nat
      /\ Len(program.updates) * ProgramScenario.interval = limits.coverage
  BY <1>1, EntriesCoverIntervals
<1>4. ProgramScenario.interval \in Nat \ {0} /\ 0 * ProgramScenario.interval = 0
  BY ProgramAssumption, TickOfTheClock
<1>5. stop = "CoverageExhausted" => updates = Len(program.updates)
  <2> SUFFICES ASSUME stop = "CoverageExhausted" PROVE ~(0 < Len(program.updates))
    BY <1>1, <1>3
  <2>1. ~(0 < limits.coverage)
    BY <1>1, <1>2, <1>3, CoverageStops
  <2> QED BY <1>3, <1>4, <2>1, IntervalsOrdered
<1>6. stop = "None" => sim.step < limits.coverage
  <2>1. stop = Prepared!Bounded!BoundedStop(sim) /\ sim.step \in Nat
    BY <1>1, <1>2
  <2> QED BY <1>3, <2>1, CoverageStops
<1>7. FlownOf(0) = <<>>
  BY DEF FlownOf
<1> QED BY <1>1, <1>2, <1>3, <1>4, <1>5, <1>6, <1>7 DEF ProgramInv, Prepared!Bounded!NoFailure

\* The entry that is due is the next one, there is one, and its command is admitted.
LEMMA EntryIsDue ==
  ASSUME ProgramInv, place = "between", stop = "None"
  PROVE  /\ next <= Len(program.updates) /\ program.updates[next].step = sim.step
         /\ program.updates[next].command \in Commands
         /\ updates \in Nat /\ updates < Len(program.updates)
<1>1. /\ Len(program.updates) \in Nat /\ limits.coverage \in Nat
      /\ Len(program.updates) * ProgramScenario.interval = limits.coverage
      /\ program.updates \in Seq([step : Nat, command : Commands])
  BY EntriesCoverIntervals DEF ProgramInv
<1>2. /\ updates \in Nat
      /\ updates * ProgramScenario.interval < Len(program.updates) * ProgramScenario.interval
  BY <1>1 DEF ProgramInv
<1>3. updates < Len(program.updates)
  BY <1>1, <1>2, IntervalsOrdered, ProgramAssumption
<1>4. next = updates + 1 /\ next \in 1..Len(program.updates)
  BY <1>1, <1>2, <1>3 DEF ProgramInv
<1>5. /\ program.updates[next].step = (next - 1) * ProgramScenario.interval
      /\ program.updates[next].command \in Commands
  BY <1>4 DEF ProgramInv, Prepared!ValidProgram
<1>6. (next - 1) * ProgramScenario.interval = sim.step
  BY <1>2, <1>4 DEF ProgramInv
<1> QED BY <1>1, <1>2, <1>3, <1>4, <1>5, <1>6

\* One more entry flown is one more in the log.
LEMMA OneMoreFlown ==
  ASSUME NEW n \in Nat, n < Len(program.updates),
         program.updates \in Seq([step : Nat, command : Commands])
  PROVE  Append(FlownOf(n), [step |-> program.updates[n + 1].step, index |-> n,
                             command |-> program.updates[n + 1].command]) = FlownOf(n + 1)
<1> DEFINE Entry == [step : Nat, index : Nat, command : Commands]
           e(i) == [step |-> program.updates[i].step, index |-> i - 1,
                    command |-> program.updates[i].command]
<1>1. \A i \in 1..(n + 1) : e(i) \in Entry
  <2> SUFFICES ASSUME NEW i \in 1..(n + 1) PROVE e(i) \in Entry
    OBVIOUS
  <2>1. i \in 1..Len(program.updates) /\ i - 1 \in Nat
    OBVIOUS
  <2>2. ASSUME NEW S, NEW q \in Seq(S), NEW j \in 1..Len(q) PROVE q[j] \in S
    OBVIOUS
  <2> DEFINE Update == [step : Nat, command : Commands]
  <2>3. program.updates[i] \in Update
    <3>1. program.updates \in Seq(Update)
      OBVIOUS
    <3> HIDE DEF Update
    <3> QED BY <2>1, <2>2, <3>1
  <2> QED BY <2>1, <2>3
<1>2. FlownOf(n) \in Seq(Entry) /\ Len(FlownOf(n)) = n /\ FlownOf(n + 1) \in Seq(Entry)
      /\ Len(FlownOf(n + 1)) = n + 1
  <2> HIDE DEF Entry
  <2>1. /\ [i \in 1..n |-> e(i)] \in [1..n -> Entry]
        /\ [i \in 1..(n + 1) |-> e(i)] \in [1..(n + 1) -> Entry]
    BY <1>1
  <2>2. ASSUME NEW m \in Nat, NEW f \in [1..m -> Entry] PROVE f \in Seq(Entry) /\ Len(f) = m
    OBVIOUS
  <2>3. FlownOf(n) = [i \in 1..n |-> e(i)] /\ FlownOf(n + 1) = [i \in 1..(n + 1) |-> e(i)]
    BY DEF FlownOf
  <2> HIDE DEF e
  <2> QED BY <2>1, <2>2, <2>3
<1>3. e(n + 1) \in Entry /\ (n + 1) - 1 = n
  BY <1>1
<1> DEFINE longer == Append(FlownOf(n), e(n + 1))
<1> HIDE DEF Entry
<1>4. /\ longer \in Seq(Entry) /\ Len(longer) = n + 1
      /\ \A i \in 1..n : longer[i] = FlownOf(n)[i]
      /\ longer[n + 1] = e(n + 1)
  <2> HIDE DEF e
  <2> QED BY <1>2, <1>3, AppendProperties
<1> HIDE DEF longer
<1>5. \A i \in 1..(n + 1) : longer[i] = FlownOf(n + 1)[i]
  <2> SUFFICES ASSUME NEW i \in 1..(n + 1) PROVE longer[i] = FlownOf(n + 1)[i]
    OBVIOUS
  <2>1. CASE i \in 1..n
    <3>1. longer[i] = FlownOf(n)[i]
      BY <1>4, <2>1
    <3> QED BY <2>1, <3>1 DEF FlownOf
  <2>2. CASE i = n + 1
    BY <1>4, <2>2 DEF FlownOf
  <2> QED BY <2>1, <2>2
<1>6. longer = FlownOf(n + 1)
  BY <1>2, <1>4, <1>5, SeqEqual
<1> QED BY <1>3, <1>6 DEF longer

\* The agent plays the entry that is due, and is never out of step or out of entries.
LEMMA PlayKeepsProgram ==
  ASSUME ProgramInv, Prepared!Play
  PROVE  ProgramInv'
<1>1. place = "between" /\ stop = "None"
  BY DEF Prepared!Play, Prepared!StepFrame, Prepared!HoldFor, Prepared!RefuseFrame
<1>2. /\ next <= Len(program.updates) /\ program.updates[next].step = sim.step
      /\ program.updates[next].command \in Commands
      /\ updates \in Nat /\ updates < Len(program.updates)
  BY <1>1, EntryIsDue
<1>3. /\ Prepared!StepFrame(program.updates[next].command) /\ next' = next + 1
      /\ UNCHANGED program
  BY <1>2 DEF Prepared!Play
<1> DEFINE c == program.updates[next].command
<1>4. /\ place' = "inside" /\ left' = ProgramScenario.interval /\ sim' = [sim EXCEPT !.held = c]
      /\ updates' = updates + 1 /\ UNCHANGED <<limits, mode, stop, failure>>
      /\ mode = "Captured" =>
           actions' = Append(actions, [step |-> sim.step, index |-> updates, command |-> c])
  BY <1>2, <1>3 DEF Prepared!StepFrame, Prepared!HoldFor, Prepared!Keep, Prepared!Capturing,
     Prepared!ctx
<1>5. FlightState(sim') /\ sim'.step = sim.step
  BY <1>4 DEF ProgramInv, FlightState
<1>6. Len(program.updates) \in Nat /\ program.updates \in Seq([step : Nat, command : Commands])
  BY EntriesCoverIntervals DEF ProgramInv
<1>7. /\ updates + 1 \in 0..Len(program.updates) /\ ProgramScenario.interval \in Nat \ {0}
      /\ sim.step + ProgramScenario.interval = (updates + 1) * ProgramScenario.interval
  <2>1. sim.step = updates * ProgramScenario.interval /\ ProgramScenario.interval \in Nat \ {0}
    BY <1>1, ProgramAssumption DEF ProgramInv
  <2>2. updates + 1 \in 0..Len(program.updates)
    BY <1>2, <1>6
  <2>3. ASSUME NEW n \in Nat, NEW k \in Nat PROVE k * n + n = (k + 1) * n
    BY Z3
  <2>4. updates * ProgramScenario.interval + ProgramScenario.interval
          = (updates + 1) * ProgramScenario.interval
    BY <1>2, <2>1, <2>3
  <2> QED BY <2>1, <2>2, <2>4
<1>8. mode' = "Captured" => actions' = FlownOf(updates')
  <2>1. next = updates + 1
    BY DEF ProgramInv
  <2> QED BY <1>2, <1>4, <1>6, <2>1, OneMoreFlown DEF ProgramInv
<1> HIDE DEF c
<1>9. (FlownOf(updates))' = FlownOf(updates')
  BY <1>3 DEF FlownOf
<1>10. Prepared!ValidProgram(program)'
  BY <1>3 DEF ProgramInv, Prepared!ValidProgram
<1> QED BY <1>1, <1>3, <1>4, <1>5, <1>7, <1>8, <1>9, <1>10 DEF ProgramInv

\* One iteration of the loop stays within the entries flown.
LEMMA AdvanceKeepsProgram ==
  ASSUME ProgramInv, NEW o, Prepared!Advance(o), UNCHANGED <<program, next>>
  PROVE  ProgramInv'
<1> DEFINE flown == Prepared!StepSim(goal, sim, o)
           cause == IF Prepared!Terminal(flown) THEN Prepared!Bounded!TerminalStop(flown)
                    ELSE Prepared!Bounded!BoundedStop(flown)
<1>1. /\ place = "inside" /\ left \in Nat \ {0} /\ FlightState(sim)
      /\ sim.step + left = updates * ProgramScenario.interval
  BY DEF ProgramInv, Prepared!Advance
<1>2. /\ sim' = flown /\ stop' = cause
      /\ UNCHANGED <<limits, mode, failure, updates, actions>>
      /\ IF cause # "None" \/ left = 1
         THEN place' = "between" /\ left' = 0
         ELSE left' = left - 1 /\ UNCHANGED place
  BY DEF Prepared!Advance, Prepared!ctx
<1>3. FlightState(flown) /\ flown.step = sim.step + 1
  BY <1>1, ProgramStep
<1>4. /\ Len(program.updates) \in Nat /\ limits.coverage \in Nat
      /\ Len(program.updates) * ProgramScenario.interval = limits.coverage
  BY EntriesCoverIntervals DEF ProgramInv
<1> HIDE DEF flown
<1>5. /\ cause = "CoverageExhausted" => flown.step >= limits.coverage
      /\ cause = "None" => flown.step < limits.coverage
  BY <1>3, <1>4, CoverageStops DEF FlightState
<1> HIDE DEF cause
<1>6. updates \in Nat /\ updates <= Len(program.updates)
  BY <1>4 DEF ProgramInv
<1>7. stop' = "CoverageExhausted" => updates = Len(program.updates)
  <2> SUFFICES ASSUME stop' = "CoverageExhausted" PROVE ~(updates < Len(program.updates))
    BY <1>4, <1>6
  <2>1. flown.step >= limits.coverage /\ sim.step \in Nat /\ flown.step <= sim.step + left
    BY <1>1, <1>2, <1>3, <1>5 DEF FlightState
  <2>2. updates * ProgramScenario.interval \in Nat
    BY <1>1, <2>1
  <2>3. ~(updates * ProgramScenario.interval < Len(program.updates) * ProgramScenario.interval)
    BY <1>1, <1>3, <1>4, <2>1, <2>2 DEF FlightState
  <2> QED BY <1>4, <1>6, <2>3, IntervalsOrdered, ProgramAssumption
<1>8. place' \in {"between", "inside"}
  BY <1>1, <1>2
<1>9. place' = "between" /\ stop' = "None" =>
        sim'.step = updates' * ProgramScenario.interval /\ sim'.step < limits'.coverage
  BY <1>1, <1>2, <1>3, <1>5 DEF FlightState
<1>10. place' = "inside" =>
         /\ stop' = "None" /\ left' \in Nat \ {0}
         /\ sim'.step + left' = updates' * ProgramScenario.interval
  BY <1>1, <1>2, <1>3 DEF FlightState
<1>11. (FlownOf(updates))' = FlownOf(updates)
  BY <1>2 DEF FlownOf
<1>12. Prepared!ValidProgram(program)'
  BY DEF ProgramInv, Prepared!ValidProgram
<1> QED BY <1>2, <1>3, <1>7, <1>8, <1>9, <1>10, <1>11, <1>12 DEF ProgramInv

\* A program that passed the validation is flown as written (PreparedProgramV1::validate against
\* PreparedAgent::update): no command selection ever fails, and what was flown is its beginning, or
\* all of it when the coverage ran out.
THEOREM ProgramsAreFlown == CallersSpec => []PreparedProgramIsFlown
<1> DEFINE Inv == caller = "program" => ProgramInv
<1>1. CallersInit => Inv
  BY ProgramStarts DEF CallersInit
<1>2. Inv /\ [CallersNext]_allVars => Inv'
  <2> SUFFICES ASSUME Inv, [CallersNext]_allVars, caller' = "program" PROVE ProgramInv'
    OBVIOUS
  <2>1. caller = "program" /\ (Prepared!PreparedNext \/ UNCHANGED <<vars, programVars>>)
    BY DEF CallersNext, LandingStep, allVars, vars, programVars
  <2>2. ProgramInv
    BY <2>1
  <2>3. ASSUME UNCHANGED <<program, next, limits, sim, updates, actions, mode>>,
               failure'.stage # "CommandSelection",
               \/ UNCHANGED <<place, left, stop, failure>>
               \/ place = "created" /\ place' = "between" /\ UNCHANGED <<left, stop, failure>>
               \/ stop' \notin {"None", "CoverageExhausted"} /\ place' = "between"
               \/ place' = "taken" /\ UNCHANGED stop
        PROVE  ProgramInv'
    <3>1. (FlownOf(updates))' = FlownOf(updates)
      BY <2>3 DEF FlownOf
    <3>2. Prepared!ValidProgram(program)'
      BY <2>2, <2>3 DEF ProgramInv, Prepared!ValidProgram
    <3> QED BY <2>2, <2>3, <3>1, <3>2 DEF ProgramInv
  <2>4. ASSUME \/ Prepared!ResetAccepted \/ Prepared!LoseStep \/ Prepared!Finish \/ Prepared!Returned
               \/ UNCHANGED vars,
               UNCHANGED <<program, next>>
        PROVE  ProgramInv'
    BY <2>2, <2>3, <2>4 DEF ProgramInv, Prepared!ResetAccepted, Prepared!LoseStep, Prepared!Refused,
       Prepared!Finish, Prepared!Returned, Prepared!vars, Prepared!ctx, Prepared!recording, vars
  <2> QED BY <2>1, <2>2, <2>4, PlayKeepsProgram, AdvanceKeepsProgram
      DEF Prepared!PreparedNext, Prepared!programVars, programVars
<1>3. Inv => PreparedProgramIsFlown
  BY DEF PreparedProgramIsFlown, Prepared!ProgramIsFlown, Prepared!Capturing, ProgramInv, FlownOf
<1> QED BY <1>1, <1>2, <1>3, CallersStep, PTL
=============================================================================

------------------------------ MODULE Maneuver ------------------------------
(***************************************************************************)
(* The maneuver controller of pd-control (maneuver/contract.rs and          *)
(* maneuver/landing.rs) and the harness that flies it (run_with_controller, *)
(* examples/maneuver-policy): a request is admitted at a command boundary,  *)
(* a frame is produced for it, the episode flies the frame, and the native  *)
(* end closes the controller.                                               *)
(*                                                                         *)
(* The planner is any client of the interface: it may ask again for what it *)
(* has, ask for something else, or name a boundary that is not now.         *)
(***************************************************************************)
EXTENDS Integers

CONSTANTS
  Interval,   \* physics steps of a command interval
  Horizon,    \* hard end of the episode
  Ids         \* request identities

ManeuverAssumption == Interval \in Nat \ {0} /\ Horizon \in Nat \ {0}

Goals == {"Target", "OtherPad", "UnknownPad", "Cancel"}
Requests == [id : Ids, goal : Goals, wellFormed : BOOLEAN]
None == [id |-> "None", goal |-> "Cancel", wellFormed |-> FALSE]
NoStep == -1

VARIABLES
  \* the facade: Lifecycle and TerminalLandingController
  accepted,        \* the accepted request, None before
  activation,      \* its physics step
  owner,           \* command owner: "UprightCoast" or a request id
  nextTick, commandUpdates, backendUpdates,
  resets,          \* how often a backend has been constructed and reset
  nativeEnd,       \* NoStep until closed
  \* the episode the harness flies
  step, stopped,
  place,           \* of the harness: "boundary" or "flying"
  answer           \* what the last submission returned

facade == <<accepted, activation, owner, nextTick, commandUpdates, backendUpdates, resets,
            nativeEnd>>
episode == <<step, stopped, place>>
vars == <<facade, episode, answer>>

Closed == nativeEnd # NoStep

\* The boundaries a client may name: the one before, this one, the next.
Ticks == {step - Interval, step, step + Interval} \cap Nat

----------------------------------------------------------------------------
Init ==
  /\ accepted = None /\ activation = NoStep /\ owner = "UprightCoast"
  /\ nextTick = 0 /\ commandUpdates = 0 /\ backendUpdates = 0 /\ resets = 0
  /\ nativeEnd = NoStep
  /\ step = 0 /\ stopped = FALSE /\ place = "boundary"
  /\ answer = "None"

\* Lifecycle::accept on a request whose identity is the active one, or another.
Recognise(r) ==
  IF r.id = accepted.id
  THEN (IF r = accepted THEN "AlreadyActive" ELSE "InvalidRequest")
  ELSE "Busy"

\* submit: the tick, the wire form, the identity of the active request, the
\* goal, and only then whether anything is active.
Disposition(r, tick) ==
  IF tick # nextTick THEN "InvalidRequest"
  ELSE IF ~r.wellFormed THEN "Error"
  ELSE IF accepted # None /\ r.id = accepted.id THEN Recognise(r)
  ELSE CASE r.goal = "Cancel"     -> "Unsupported"
         [] r.goal = "UnknownPad" -> "InvalidRequest"
         [] r.goal = "OtherPad"   -> "Unsupported"
         [] OTHER -> IF accepted = None THEN "Accepted" ELSE Recognise(r)

\* Fault: a duplicate of the active request resets the backend.
SubmitResetting(r, tick) ==
  /\ place = "boundary" /\ ~Closed
  /\ answer' = Disposition(r, tick)
  /\ IF answer' \in {"Accepted", "AlreadyActive"}
     THEN accepted' = r /\ activation' = tick /\ owner' = r.id /\ resets' = resets + 1
     ELSE UNCHANGED <<accepted, activation, owner, resets>>
  /\ UNCHANGED <<nextTick, commandUpdates, backendUpdates, nativeEnd, episode>>

Submit(r, tick) ==
  /\ place = "boundary" /\ ~Closed
  /\ answer' = Disposition(r, tick)
  /\ IF answer' = "Accepted"
     THEN accepted' = r /\ activation' = tick /\ owner' = r.id /\ resets' = resets + 1
     ELSE UNCHANGED <<accepted, activation, owner, resets>>
  /\ UNCHANGED <<nextTick, commandUpdates, backendUpdates, nativeEnd, episode>>

\* frame on the actual observation: the backend flies if there is one, the
\* facade coasts upright otherwise.
Frame ==
  /\ place = "boundary" /\ ~stopped /\ ~Closed
  /\ step = nextTick
  /\ nextTick' = nextTick + Interval
  /\ commandUpdates' = commandUpdates + 1
  /\ backendUpdates' = backendUpdates + (IF resets > 0 THEN 1 ELSE 0)
  /\ place' = "flying"
  /\ UNCHANGED <<accepted, activation, owner, resets, nativeEnd, step, stopped, answer>>

\* A frame or a submission that errs fails the decision and ends the episode.
FailDecision ==
  /\ place = "boundary" /\ ~stopped
  /\ stopped' = TRUE
  /\ UNCHANGED <<facade, step, place, answer>>

\* step_frame flies the interval, or part of it when something ends the
\* episode, or nothing of it when it refuses the command.
Fly(n) ==
  /\ place = "flying"
  /\ place' = "boundary"
  /\ step + n <= Horizon
  /\ step' = step + n
  /\ stopped' \in {TRUE, n < Interval \/ step + n = Horizon}
  /\ UNCHANGED <<facade, answer>>

\* Fault: the end has to be a command boundary.
EndInIntervalOnBoundary(k) ==
  k \in {IF nextTick > Interval THEN nextTick - Interval ELSE 0, nextTick}

\* Lifecycle::close accepts an end within the last command interval.
EndInInterval(k) ==
  k >= (IF nextTick > Interval THEN nextTick - Interval ELSE 0) /\ k <= nextTick

\* native_end with the step the episode actually ended at.
NativeEnd ==
  /\ place = "boundary" /\ stopped /\ ~Closed
  /\ EndInInterval(step)
  /\ nativeEnd' = step
  /\ UNCHANGED <<accepted, activation, owner, nextTick, commandUpdates, backendUpdates, resets,
                 episode, answer>>

\* Everything on a closed facade is an error and changes nothing.
Over == Closed /\ UNCHANGED vars

Next ==
  \/ \E r \in Requests, tick \in Ticks : Submit(r, tick)
  \/ Frame
  \/ FailDecision
  \/ \E n \in 0..Interval : Fly(n)
  \/ NativeEnd
  \/ Over

Spec == Init /\ [][Next]_vars

\* One thread: the harness flies until the episode stops, and then says so.
FairSpec == Spec /\ WF_vars(Frame) /\ WF_vars(\E n \in 0..Interval : Fly(n)) /\ WF_vars(NativeEnd)

----------------------------------------------------------------------------
\* One landing, on its own clock: whatever is submitted again, refused or named for another
\* boundary, an active landing keeps its request, its activation and its one backend, and has
\* been updated at every boundary since its activation and at no other ("Repeated submission
\* ... must not reset controller state or replenish time", maneuver_execution_design.md).
OneLanding ==
  /\ commandUpdates * Interval = nextTick
  /\ accepted = None =>
       resets = 0 /\ backendUpdates = 0 /\ owner = "UprightCoast"
  /\ accepted # None =>
       /\ resets = 1 /\ owner = accepted.id
       /\ activation % Interval = 0 /\ activation <= nextTick
       /\ backendUpdates * Interval = nextTick - activation

\* However the episode stops, in the middle of an interval, on a refused command or a failed
\* decision, the facade admits its true end and is closed: "close once".
ClosesOnce == <>[](Closed /\ nativeEnd = step)
=============================================================================

--------------------------- MODULE BallisticFlight ---------------------------
(***************************************************************************)
(* The ballistic candidate: one loop that owns the live plant, picks goals   *)
(* and holds engine-off coasts or powered corrections to them, one control   *)
(* pair per turn (pd-planner, ballistic_feedback.rs, execute).  The loop's    *)
(* body is cut into the places below; in most of them several answers of the *)
(* geometry are possible.  Time counts control pairs.  Neither positions     *)
(* nor the evidence (refresh records, probes) are kept, and the clocks that   *)
(* only pace probes are left out: what they would allow may happen at any     *)
(* turn.                                                                     *)
(***************************************************************************)
EXTENDS Naturals, Sequences

CONSTANTS
  Deadline,        \* original_deadline of the mission
  Refresh,         \* REFRESH_TICKS
  MaxRecovery,     \* MAX_RECOVERY_TICKS
  MaxProposals,    \* MAX_LOCAL_PROPOSALS
  Cap,             \* correction_cap
  Experiments,     \* sets of abilities of WaypointExperiment
  Never            \* None

VARIABLES
  experiment, neutral,
  place,            \* where in the body of the loop
  now,              \* physics_step
  engineOff,        \* the held command has no throttle
  ended,            \* the plant is terminal
  target,           \* the active goal
  correction,       \* the goal revision the finite correction was built for
  nextRefresh, nextRevision,
  handoffRevisions, \* handoffs and handoff_goal_revisions
  landing, sourceCleared,
  coastStarted,     \* when, and under which goal revision
  recoveryStarted,
  pendingCoast,     \* pending_terminal_coast
  declinedAt,       \* coast_declined_at
  coast, due,       \* this turn's accepted coast and coast_refresh_due
  verdict           \* stop

fixed == <<experiment, neutral>>
plant == <<now, engineOff, ended>>
plan == <<target, correction, nextRefresh, nextRevision, coastStarted>>
ballisticVars == <<fixed, place, plant, plan, handoffRevisions, landing, sourceCleared,
                   recoveryStarted, pendingCoast, declinedAt, coast, due, verdict>>

Abilities == {"recovery", "early", "piecewise", "coastTerminal", "finite"}

BallisticAssumption ==
  /\ Deadline \in Nat /\ Refresh \in Nat \ {0} /\ MaxRecovery \in Nat \ {0}
  /\ MaxProposals \in Nat \ {0} /\ Cap \in Nat \ {0}
  /\ Experiments \subseteq SUBSET Abilities

Able(ability) == ability \in experiment
Destination(r) == [destination |-> TRUE, revision |-> r]
Waypoint(r) == [destination |-> FALSE, revision |-> r]
\* A destination that was issued again after a waypoint.
FiniteDestination == Able("finite") /\ target.destination /\ target.revision > 0

\* execute_from_source, execute: a neutral diagnostic needs a retained prefix, which may itself
\* end before the first control pair.
BallisticInit ==
  /\ experiment \in Experiments /\ neutral \in BOOLEAN
  /\ place = "top" /\ now \in {0, 1} /\ engineOff \in BOOLEAN /\ ended = FALSE
  /\ target = Destination(0) /\ correction = Never
  /\ nextRefresh = now /\ nextRevision = 1
  /\ handoffRevisions = << >>
  /\ landing = FALSE /\ sourceCleared = (now > 0)
  /\ coastStarted = Never /\ recoveryStarted = Never
  /\ pendingCoast = FALSE /\ declinedAt = Never
  /\ coast = FALSE /\ due = FALSE /\ verdict = "flying"

At(p) == place = p
Goto(p) == place' = p /\ UNCHANGED verdict
Stop(reason) == place' = "stopped" /\ verdict' = reason

\* advance_one: the pair is flown, and may end the flight; the next turn begins.
Advance(off) ==
  /\ now' = now + 1 /\ engineOff' = off /\ ended' \in BOOLEAN
  /\ Goto("top")

----------------------------------------------------------------------------
(* One turn.                                                                *)

\* The checks at the head of the loop, in their order; the wall clock may run out at any turn.
StopAtTop ==
  /\ At("top")
  /\ \/ Stop("case_wall_bound")
     \/ ended /\ Stop("physical_terminal")
     \/ ~ended /\ Stop("original_budget")       \* the fuel is spent, or the deadline is near
     \/ ~ended /\ now + Refresh < Deadline /\ ~neutral
        /\ Stop("actual_body_reserve")          \* or "actual_terrain_domain"
  /\ UNCHANGED <<fixed, plant, plan, handoffRevisions, landing, sourceCleared, recoveryStarted,
                 pendingCoast, declinedAt, coast, due>>

\* A turn begins; what was planned before the source was cleared is dropped when it is.
Begin ==
  /\ At("top") /\ ~ended /\ now + Refresh < Deadline
  /\ \/ UNCHANGED <<sourceCleared, correction, nextRefresh>>
     \/ ~sourceCleared /\ sourceCleared' = TRUE /\ correction' = Never /\ nextRefresh' = now
  /\ coast' = FALSE /\ due' = FALSE
  /\ Goto(IF recoveryStarted = Never THEN "handoff" ELSE "recovery")
  /\ UNCHANGED <<fixed, plant, target, nextRevision, coastStarted, handoffRevisions, landing,
                 recoveryStarted, pendingCoast, declinedAt>>

\* The ensure at the head of a recovery.
RecoveryOwned == ~landing /\ sourceCleared /\ ~neutral

Recover ==
  /\ At("recovery") /\ RecoveryOwned
  /\ \/ /\ now - recoveryStarted >= MaxRecovery
        /\ Stop("terrain_recovery_budget")
        /\ UNCHANGED <<plant, plan, recoveryStarted>>
     \/ /\ now - recoveryStarted < MaxRecovery      \* resume
        /\ recoveryStarted' = Never /\ correction' = Never /\ coastStarted' = Never
        /\ nextRefresh' = now
        /\ Goto("handoff")
        /\ UNCHANGED <<plant, target, nextRevision>>
     \/ /\ now - recoveryStarted < MaxRecovery
        /\ Stop("terrain_recovery_no_safe_command")
        /\ UNCHANGED <<plant, plan, recoveryStarted>>
     \/ /\ now - recoveryStarted < MaxRecovery      \* every recovery command is full throttle
        /\ nextRefresh' = IF now >= nextRefresh THEN now + Refresh ELSE nextRefresh
        /\ Advance(FALSE)
        /\ UNCHANGED <<target, correction, nextRevision, coastStarted, recoveryStarted>>
  /\ UNCHANGED <<fixed, handoffRevisions, landing, sourceCleared, pendingCoast, declinedAt, coast,
                 due>>

\* The correction is left to the next refresh.
HandoffKeepsCorrection ==
  /\ At("handoff") /\ ~target.destination /\ engineOff
  /\ handoffRevisions' = Append(handoffRevisions, target.revision)
  /\ target' = Destination(nextRevision)
  /\ nextRevision' = nextRevision + 1
  /\ coastStarted' = Never /\ nextRefresh' = now
  /\ Goto("pending")
  /\ UNCHANGED <<fixed, plant, correction, landing, sourceCleared, recoveryStarted, pendingCoast,
                 declinedAt, coast, due>>

\* The waypoint is passed with the engine off: the destination is the goal again, unless the
\* coast does not stay clear.
Handoff ==
  /\ At("handoff") /\ ~target.destination /\ engineOff
  /\ \/ /\ Stop("waypoint_continuation_rejected")
        /\ UNCHANGED <<plan, handoffRevisions>>
     \/ /\ handoffRevisions' = Append(handoffRevisions, target.revision)
        /\ target' = Destination(nextRevision)
        /\ nextRevision' = nextRevision + 1
        /\ correction' = Never /\ coastStarted' = Never
        /\ nextRefresh' = now
        /\ Goto("pending")
  /\ UNCHANGED <<fixed, plant, landing, sourceCleared, recoveryStarted, pendingCoast, declinedAt,
                 coast, due>>

NotPassed ==
  /\ At("handoff") /\ Goto("pending")
  /\ UNCHANGED <<fixed, plant, plan, handoffRevisions, landing, sourceCleared, recoveryStarted,
                 pendingCoast, declinedAt, coast, due>>

\* The ensure at the head of a pending coast to the terminal.
CoastTerminalOwned == ~landing /\ target.destination

NoCoastPending ==
  /\ At("pending") /\ ~pendingCoast /\ Goto("coast")
  /\ UNCHANGED <<fixed, plant, plan, handoffRevisions, landing, sourceCleared, recoveryStarted,
                 pendingCoast, declinedAt, coast, due>>

\* Behind the feature the entry is previewed again; before it the coast is held while it is safe.
CoastToTerminal ==
  /\ At("pending") /\ pendingCoast /\ CoastTerminalOwned
  /\ \/ /\ landing' = TRUE /\ correction' = Never /\ pendingCoast' = FALSE
        /\ Goto("coast")
        /\ UNCHANGED <<plant, nextRefresh, declinedAt>>
     \/ /\ declinedAt' = now /\ correction' = Never /\ nextRefresh' = now /\ pendingCoast' = FALSE
        /\ Goto("coast")
        /\ UNCHANGED <<plant, landing>>
     \/ /\ Advance(TRUE)
        /\ UNCHANGED <<correction, nextRefresh, landing, declinedAt, pendingCoast>>
  /\ UNCHANGED <<fixed, target, nextRevision, coastStarted, handoffRevisions, sourceCleared,
                 recoveryStarted, coast, due>>

\* local_replan: up to MaxProposals waypoints, each a new revision except the one that proposes
\* the active waypoint again (duplicates end it); the last one proposed becomes the goal.
LocalReplan(firstRevision) ==
  \E tried \in 1..MaxProposals, again \in 0..MaxProposals :
    /\ again <= tried /\ (target.destination => again = 0)
    /\ nextRevision' = firstRevision + tried - (IF again = 0 THEN 0 ELSE 1)
    /\ target' = Waypoint(IF again = tried THEN target.revision ELSE nextRevision' - 1)

\* accepted_coast of the active goal, and whether a refresh is due.
QueryCoast ==
  /\ At("coast")
  /\ coast' \in BOOLEAN
  /\ due' = (now >= nextRefresh \/ (~Able("finite") /\ correction # Never))
  /\ Goto("obstruction")
  /\ UNCHANGED <<fixed, plant, plan, handoffRevisions, landing, sourceCleared, recoveryStarted,
                 pendingCoast, declinedAt>>

CoastQueried == ~neutral /\ ~landing /\ coast /\ (now >= nextRefresh \/ correction # Never)

CoastClear ==
  /\ At("obstruction")
  /\ nextRefresh' = IF CoastQueried THEN now + Refresh ELSE nextRefresh
  /\ Goto("preview")
  /\ UNCHANGED <<fixed, plant, target, correction, nextRevision, coastStarted, handoffRevisions,
                 landing, sourceCleared, recoveryStarted, pendingCoast, declinedAt, coast, due>>

\* The coast of now is obstructed, while the correction still establishes its own.
AcquisitionContinues ==
  /\ At("obstruction") /\ CoastQueried /\ correction # Never
  /\ Able("recovery") /\ (target.destination => FiniteDestination)
  /\ nextRefresh' = IF now >= nextRefresh THEN now + Refresh ELSE nextRefresh
  /\ coast' = FALSE
  /\ Goto("preview")
  /\ UNCHANGED <<fixed, plant, target, correction, nextRevision, coastStarted, handoffRevisions,
                 landing, sourceCleared, recoveryStarted, pendingCoast, declinedAt, due>>

\* A replan that comes to nothing stops the flight: no_local_waypoint, a duplicate goal, a miss,
\* no repair, or no proposal left.
ReplanStops ==
  /\ Stop("local_replan")
  /\ UNCHANGED <<target, correction, nextRefresh, nextRevision, coastStarted, coast>>

CapPassed == Len(handoffRevisions) > Cap     \* one more than the cap

CapReached == Len(handoffRevisions) >= Cap

CoastObstructed ==
  /\ At("obstruction") /\ CoastQueried
  /\ \/ /\ CapReached /\ Stop("correction_budget")
        /\ UNCHANGED <<plan, coast>>
     \/ ~CapReached /\ ReplanStops
     \/ /\ ~CapReached /\ LocalReplan(nextRevision)
        /\ correction' = target'.revision
        /\ nextRefresh' = now + Refresh /\ coastStarted' = Never /\ coast' = FALSE
        /\ Goto("preview")
  /\ UNCHANGED <<fixed, plant, handoffRevisions, landing, sourceCleared, recoveryStarted,
                 pendingCoast, declinedAt, due>>

\* Before a waypoint is reached, its coast may be given up for the destination; with "piecewise"
\* an obstructed destination is replanned at once, whatever the number of handoffs.
EarlyDestination ==
  /\ At("preview")
  /\ Able("early") /\ ~neutral /\ ~landing /\ ~target.destination /\ engineOff /\ due /\ coast
  /\ \/ /\ target' = Destination(nextRevision)
        /\ nextRevision' = nextRevision + 1
        /\ correction' \in {Never, target'.revision}
        /\ coast' \in {c \in BOOLEAN : correction' # Never => ~c}
        /\ nextRefresh' = now + Refresh /\ coastStarted' = Never
        /\ Goto("acceptance")
     \/ Able("piecewise") /\ ReplanStops
     \/ /\ Able("piecewise")
        /\ LocalReplan(nextRevision + 1)
        /\ correction' = target'.revision /\ coast' = FALSE
        /\ nextRefresh' = now + Refresh /\ coastStarted' = Never
        /\ Goto("acceptance")
  /\ UNCHANGED <<fixed, plant, handoffRevisions, landing, sourceCleared, recoveryStarted,
                 pendingCoast, declinedAt, due>>

NoPreview ==
  /\ At("preview") /\ Goto("acceptance")
  /\ UNCHANGED <<fixed, plant, plan, handoffRevisions, landing, sourceCleared, recoveryStarted,
                 pendingCoast, declinedAt, coast, due>>

\* An accepted coast ends the correction and starts its clock; a coast to the destination that
\* was held with the engine off for a pair may become the landing.
CoastOn == [at |-> now, for |-> target.revision]
AcceptCoast ==
  /\ At("acceptance") /\ ~landing /\ coast
  /\ correction' = Never
  /\ coastStarted' = IF coastStarted = Never THEN CoastOn ELSE coastStarted
  /\ \/ /\ neutral /\ engineOff /\ now >= coastStarted'.at + Refresh
        /\ Stop("ballistic_established_diagnostic") /\ UNCHANGED landing
     \/ /\ ~(neutral /\ engineOff /\ now >= coastStarted'.at + Refresh)
        /\ Goto("command") /\ UNCHANGED landing
     \/ /\ ~neutral /\ target.destination /\ engineOff /\ now > coastStarted'.at
        /\ landing' = TRUE /\ Goto("command")
  /\ UNCHANGED <<fixed, plant, target, nextRefresh, nextRevision, handoffRevisions, sourceCleared,
                 recoveryStarted, pendingCoast, declinedAt, coast, due>>

NoCoast ==
  /\ At("acceptance") /\ (landing \/ ~coast)
  /\ coastStarted' = IF coast THEN coastStarted ELSE Never
  /\ Goto(IF ~landing /\ (now >= nextRefresh \/ correction = Never) THEN "acquire" ELSE "command")
  /\ UNCHANGED <<fixed, plant, target, correction, nextRefresh, nextRevision, handoffRevisions,
                 landing, sourceCleared, recoveryStarted, pendingCoast, declinedAt, coast, due>>

\* The powered correction, retained or constructed anew; none may exist.
Acquire ==
  /\ At("acquire")
  /\ \/ Stop("no_ballistic_aim") /\ UNCHANGED plan
     \/ /\ ~neutral /\ FiniteDestination
        /\ Stop("finite_destination_acquisition_rejected") /\ UNCHANGED plan
     \/ /\ correction' = target.revision /\ nextRefresh' = now + Refresh
        /\ Goto("command") /\ UNCHANGED <<target, nextRevision, coastStarted>>
  /\ UNCHANGED <<fixed, plant, handoffRevisions, landing, sourceCleared, recoveryStarted,
                 pendingCoast, declinedAt, coast, due>>

\* A coast that was declined at this state is proposed again.
ForgetsDecline ==
  Able("coastTerminal") /\ target.destination /\ handoffRevisions # << >> /\ engineOff

MayCoastThrough ==
  /\ Able("coastTerminal") /\ target.destination /\ handoffRevisions # << >> /\ engineOff
  /\ declinedAt # now

\* An obstructed aim: coast through to the terminal, in the next turn at the same state ...
CoastThrough ==
  /\ At("acquire") /\ ~neutral /\ MayCoastThrough
  /\ pendingCoast' = TRUE /\ correction' = Never
  /\ Goto("top")
  /\ UNCHANGED <<fixed, plant, target, nextRefresh, nextRevision, coastStarted, handoffRevisions,
                 landing, sourceCleared, recoveryStarted, declinedAt, coast, due>>

\* ... or plan a waypoint around the obstruction.
AimObstructed ==
  /\ At("acquire") /\ ~neutral
  /\ \/ CapReached /\ Stop("correction_budget") /\ UNCHANGED <<plan, coast>>
     \/ ~CapReached /\ ReplanStops
     \/ /\ ~CapReached /\ LocalReplan(nextRevision)
        /\ correction' = target'.revision
        /\ nextRefresh' = now + Refresh /\ coastStarted' = Never
        /\ Goto("command") /\ UNCHANGED coast
  /\ UNCHANGED <<fixed, plant, handoffRevisions, landing, sourceCleared, recoveryStarted,
                 pendingCoast, declinedAt, due>>

\* The command of the turn; a correction is off outside its burn.
CommandOff(off) ==
  IF landing \/ (sourceCleared /\ correction # Never) THEN off \in BOOLEAN ELSE off = sourceCleared

Command ==
  /\ At("command")
  /\ \/ \E off \in BOOLEAN : CommandOff(off) /\ Advance(off)
     \/ /\ ~landing /\ sourceCleared /\ correction # Never
        /\ Stop("correction_actuator") /\ UNCHANGED plant
  /\ UNCHANGED <<fixed, plan, handoffRevisions, landing, sourceCleared, recoveryStarted,
                 pendingCoast, declinedAt, coast, due>>

\* The command would run into the terrain: a recovery begins, if there is one and it may.
CommandConflict ==
  /\ At("command") /\ ~neutral
  /\ \/ /\ landing \/ ~sourceCleared
        /\ Stop("short_command_rejected") /\ UNCHANGED <<plant, plan, recoveryStarted>>
     \/ /\ ~landing /\ sourceCleared
        /\ Stop("terrain_recovery_no_safe_command") /\ UNCHANGED <<plant, plan, recoveryStarted>>
     \/ /\ ~landing /\ sourceCleared
        /\ recoveryStarted' = now /\ correction' = Never /\ coastStarted' = Never
        /\ nextRefresh' = now + Refresh
        /\ Advance(FALSE)
        /\ UNCHANGED <<target, nextRevision>>
  /\ UNCHANGED <<fixed, handoffRevisions, landing, sourceCleared, pendingCoast, declinedAt, coast,
                 due>>

\* Any query of the terrain, any prediction and any advance may fail, and an ensure may.
FlightFails ==
  /\ ~At("stopped")
  /\ Stop("prediction_terrain_domain")          \* or the error
  /\ UNCHANGED <<fixed, plant, plan, handoffRevisions, landing, sourceCleared, recoveryStarted,
                 pendingCoast, declinedAt, coast, due>>

\* The execution is returned.
Returned == At("stopped") /\ UNCHANGED ballisticVars

BallisticNext ==
  \/ StopAtTop \/ Begin
  \/ Recover
  \/ Handoff \/ NotPassed
  \/ NoCoastPending \/ CoastToTerminal
  \/ QueryCoast \/ CoastClear \/ AcquisitionContinues \/ CoastObstructed
  \/ EarlyDestination \/ NoPreview
  \/ AcceptCoast \/ NoCoast
  \/ Acquire \/ CoastThrough \/ AimObstructed
  \/ Command \/ CommandConflict
  \/ FlightFails
  \/ Returned

----------------------------------------------------------------------------
(* Properties                                                               *)

\* A plan is for the goal it was made for: no correction and no coast clock outlives the goal it
\* was begun under, whichever of the five places replaced the goal; a landing is of the
\* destination, with neither correction, recovery nor pending coast; and the two ensures of the
\* loop hold where they stand.
PlanOfTheGoal ==
  /\ correction \in {Never, target.revision}
  /\ coastStarted # Never => coastStarted.for = target.revision
  /\ landing =>
       /\ target.destination /\ correction = Never
       /\ recoveryStarted = Never /\ ~pendingCoast
  /\ At("recovery") => RecoveryOwned
  /\ At("pending") /\ pendingCoast => CoastTerminalOwned

\* Each handoff is of a goal issued after the goal of the handoff before it, never the active one
\* again, and the cap holds, also where a replan does not ask for it.
HandoffsAdvance ==
  /\ Len(handoffRevisions) <= Cap
  /\ \A i, j \in DOMAIN handoffRevisions : i < j => handoffRevisions[i] < handoffRevisions[j]
  /\ \A i \in DOMAIN handoffRevisions : handoffRevisions[i] < target.revision
  /\ target.revision < nextRevision

\* The flight ends: no cycle of plans, declined coasts and replans keeps the loop turning over
\* one state of the plant.
FlightStops == <>(At("stopped"))
==============================================================================

-------------------------- MODULE TransferGuidance --------------------------
(***************************************************************************)
(* The transfer controller (TransferPdgController of pd-control), one step   *)
(* per controller update.  While waypoints remain it follows the active leg  *)
(* with a plan it keeps, replaces or searches anew; after the last one, and   *)
(* on direct routes, it chooses between takeoff, boost, coast and terminal.   *)
(*                                                                         *)
(* Positions, velocities and predictions are f64 mechanics: what the code    *)
(* asks of them at one update is a record of BOOLEANs.  A controller that     *)
(* does not use waypoints is one whose first leg is degenerate.              *)
(***************************************************************************)
EXTENDS Integers, FiniteSetsExt

CONSTANTS
  Routes,      \* waypoint counts of the missions flown; NoRoute for none at all
  Degenerate,  \* legs without a direction: two of its points coincide
  GateTicks,   \* terminal_gate_hysteresis_ticks
  MaxReplans   \* bound: replans of one leg

NoRoute == -1

ASSUME TransferAssumption ==
  /\ Routes \subseteq Nat \cup {NoRoute}
  /\ Degenerate \subseteq Nat /\ GateTicks \in Nat \ {0} /\ MaxReplans \in Nat

VARIABLES
  legs,      \* waypoints of the mission's route
  early,     \* sim_time_s < max_takeoff_time_s
  index,     \* waypoint_active_index
  phase,
  anchor,    \* the leg boost_anchor was set on
  ticks,     \* transfer_gate_ready_ticks
  window,    \* the leg waypoint_window_entry was latched on
  guide,     \* the active leg's plan and everything kept about it
  capture,   \* last_waypoint_capture
  markers    \* waypoint/handoff markers emitted

vars == <<legs, early, index, phase, anchor, ticks, window, guide, capture, markers>>

NoLeg == -1
None == -1
NoPlan == [leg |-> NoLeg, revision |-> None, reason |-> "none", recoverable |-> "unknown"]
NoSnapshot == [revision |-> None, own |-> FALSE]
NoCapture == [leg |-> NoLeg, status |-> "none", reason |-> "none", audit |-> "none"]

\* own, failing and searches are history: was a snapshot taken for the plan in
\* hand, did that plan fail at the last update, how often was it searched for?
NewGuide ==
  [plan |-> NoPlan, replans |-> 0, fails |-> 0, searched |-> None, attempt |-> None,
   passEver |-> FALSE, snapshot |-> NoSnapshot,
   failing |-> FALSE, searches |-> 0]

Init ==
  /\ legs \in Routes
  /\ early = TRUE
  /\ index = 0 /\ phase = "Takeoff" /\ anchor = NoLeg /\ ticks = 0 /\ window = NoLeg
  /\ guide = NewGuide /\ capture = NoCapture /\ markers = 0

(***************************************************************************)
(* The plan of the active leg: current_waypoint_guidance_candidate.          *)
(***************************************************************************)
FailureTicks == 2

\* One assessment of a plan: its prediction passes the contract, fails it within the
\* horizon or further off; it has control authority; its actuated rollout passes.
Looks == [contract : {"pass", "fail", "far"}, authority : BOOLEAN, reach : BOOLEAN]

Final(i) == i + 1 = legs
Recoverable(i) == IF Final(i) THEN {"yes", "no", "unknown"} ELSE {"unknown"}

\* Fault: a replan keeps the revision.
InstallSameRevision(g, i, reason, recoverable) ==
  [g EXCEPT !.plan = [leg |-> i, revision |-> g.replans, reason |-> reason,
                      recoverable |-> recoverable],
            !.fails = 0, !.snapshot.own = FALSE,
            !.failing = FALSE, !.searches = 0]

Install(g, i, reason, recoverable) ==
  LET n == g.replans + (IF g.plan = NoPlan THEN 0 ELSE 1) IN
  [g EXCEPT !.plan = [leg |-> i, revision |-> n, reason |-> reason,
                      recoverable |-> recoverable],
            !.replans = n, !.fails = 0, !.snapshot.own = FALSE,
            !.failing = FALSE, !.searches = 0]

\* A plan of another leg goes, and what was known about it.
Current(g, i) ==
  IF g.plan.leg = i THEN g
  ELSE [g EXCEPT !.plan = NoPlan, !.fails = 0, !.searched = None, !.attempt = None,
                 !.snapshot = NoSnapshot]

\* A plan just made, under the first look at it: a failure only counts from the next,
\* and of contract and authority it only matters whether both hold.
FirstLooks == {l \in Looks : l.contract = IF l.authority THEN "pass" ELSE "far"}
Made(g, i, reason, recoverables, confirmed) ==
  {[guide |-> Install(g, i, reason, r), look |-> l, confirmed |-> confirmed] :
     r \in recoverables, l \in FirstLooks}

\* Fault: the failure count survives an update at which the plan passed.
SeenCounting(g, look, failing) ==
  [g EXCEPT !.passEver = @ \/ look.contract = "pass", !.failing = failing,
            !.fails = IF failing THEN Min({@ + 1, FailureTicks}) ELSE @]

Seen(g, look, failing) ==
  [g EXCEPT !.passEver = @ \/ look.contract = "pass", !.failing = failing,
            !.fails = IF failing THEN Min({@ + 1, FailureTicks}) ELSE 0]

\* The plan in hand is kept, or replaced because it expired, lost control authority
\* or failed its contract twice; every replacement may turn out no better.
Review(g, i, look) ==
  LET failing == look.contract = "fail"
      seen == Seen(g, look, failing)
      confirmed == failing /\ seen.fails = FailureTicks
      preserve == /\ seen.passEver /\ g.plan.reason = "ReachableRecovery"
                  /\ look.contract = "pass" /\ look.reach
      Replaced(reason) == Made(seen, i, reason, Recoverable(i), confirmed)
  IN  {[guide |-> seen, look |-> look, confirmed |-> confirmed]}
      \cup Replaced("Expired")
      \cup (IF ~look.authority /\ ~preserve THEN Replaced("AuthorityRecovery") ELSE {})
      \cup (IF look.authority /\ confirmed THEN Replaced("ContractRecovery") ELSE {})

Recheck(g, i) ==
  LET now == Current(g, i) IN
  IF now.plan = NoPlan THEN Made(now, i, "Initial", Recoverable(i), FALSE)
  ELSE UNION {Review(now, i, look) : look \in Looks}

\* An unrecoverable final plan is searched for again once material progress is made.
FinalSearch(s, i) ==
  LET g == s.guide IN
  IF ~( /\ Final(i) /\ g.plan.reason = "AuthorityRecovery" /\ g.plan.recoverable = "no"
        /\ s.look.authority /\ s.look.contract = "pass" )
  THEN {s}
  ELSE (IF g.attempt = g.plan.revision THEN {s} ELSE {})
       \cup {[s EXCEPT !.guide.attempt = g.plan.revision]}
       \cup Made([g EXCEPT !.attempt = None], i, "ReachableRecovery", {"yes"}, s.confirmed)

\* A plan confirmed as failing that never passed is searched for once.
ReachSearch(s, i) ==
  LET g == s.guide IN
  IF ~( s.confirmed /\ ~s.look.reach /\ ~g.passEver /\ g.searched # g.plan.revision )
  THEN {s}
  ELSE {s, [s EXCEPT !.guide.searched = g.plan.revision, !.guide.searches = @ + 1]}
       \cup Made([g EXCEPT !.searched = None, !.attempt = None], i, "ReachableRecovery",
                 Recoverable(i), s.confirmed)

\* The continuation over the next leg, kept per plan revision; the joint search is
\* kept beside it under the same conditions.
Snapshots(s, i) ==
  LET g == s.guide
      next == i + 1 < legs /\ i + 1 \notin Degenerate
  IN  IF g.snapshot.revision # g.plan.revision /\ s.look.reach /\ next
      THEN [g EXCEPT !.snapshot = [revision |-> g.plan.revision, own |-> TRUE]] ELSE g

Guided(g, i) ==
  {Snapshots(s, i) :
     s \in UNION {ReachSearch(t, i) : t \in UNION {FinalSearch(u, i) : u \in Recheck(g, i)}}}

(***************************************************************************)
(* The direct transfer: choose_phase.                                       *)
(***************************************************************************)
\* The terminal gate: too late to wait, nominal for long enough, or pending.
Gates(t) ==
  LET n == Min({t + 1, GateTicks}) IN
  {[ready |-> TRUE, ticks |-> 0], [ready |-> n = GateTicks, ticks |-> n],
   [ready |-> FALSE, ticks |-> 0]}

\* Below the takeoff clearance, below its vertical speed; the route calls for a burn;
\* the terrain ahead for a hold; boost, coast and pre-target capture conditions.
Views == [low : BOOLEAN, slow : BOOLEAN, burn : BOOLEAN, hold : BOOLEAN, boost : BOOLEAN,
          coast : BOOLEAN, capture : BOOLEAN]

Completed(i) == legs > 0 /\ i >= legs

\* Fault: a coasting craft may boost again.
ChoosePhaseReburn(i, from, anchored, ready, see, soon) ==
  LET burning == see.burn \/ anchored \/ from \in {"Boost", "Coast"} IN
  IF legs = NoRoute THEN "Terminal"
  ELSE IF see.low /\ see.slow /\ soon THEN "Takeoff"
  ELSE IF from = "Terminal" /\ Completed(i) THEN "Terminal"
  ELSE IF ~burning /\ see.low /\ see.hold THEN "Takeoff"
  ELSE IF from = "Terminal" \/ ~burning THEN "Terminal"
  ELSE IF see.boost THEN "Boost"
  ELSE IF ready \/ (from = "Coast" /\ see.capture) THEN "Terminal"
  ELSE IF see.coast \/ from = "Coast" THEN "Coast"
  ELSE "Boost"

ChoosePhase(i, from, anchored, ready, see, soon) ==
  LET burning == see.burn \/ anchored \/ from \in {"Boost", "Coast"} IN
  IF legs = NoRoute THEN "Terminal"
  ELSE IF see.low /\ see.slow /\ soon THEN "Takeoff"
  ELSE IF from = "Terminal" /\ Completed(i) THEN "Terminal"
  ELSE IF ~burning /\ see.low /\ see.hold THEN "Takeoff"
  ELSE IF from = "Terminal" \/ ~burning THEN "Terminal"
  ELSE IF from # "Coast" /\ see.boost THEN "Boost"
  ELSE IF ready \/ (from = "Coast" /\ see.capture) THEN "Terminal"
  ELSE IF see.coast \/ from = "Coast" THEN "Coast"
  ELSE "Boost"

Anchor(i, old, next) == IF next = "Boost" /\ old = NoLeg THEN i ELSE old

\* update_transfer_frame, entered with the phase, anchor and ticks given.
TransferFrame(i, from, anchored, t) ==
  \E gate \in Gates(t) :
    /\ ticks' = gate.ticks
    /\ phase' \in {ChoosePhase(i, from, anchored # NoLeg, gate.ready, see, early') : see \in Views}
    /\ anchor' = Anchor(i, anchored, phase')

\* update_active_waypoint_frame: off the ground first, then guided.
ActiveFrame(i, anchored, g) ==
  /\ ticks' = 0
  /\ \/ /\ phase' = "Takeoff" /\ anchor' = anchored /\ guide' = g
     \/ /\ phase' = "Boost" /\ anchor' = Anchor(i, anchored, "Boost")
        /\ guide' \in {h \in Guided(g, i) : h.replans <= MaxReplans}

(***************************************************************************)
(* One update.                                                             *)
(***************************************************************************)
\* assess_handoff; within the capture radius the spatial test is passed.
Sightings ==
  {o \in [capture : BOOLEAN, deadline : BOOLEAN, spatial : BOOLEAN, envelope : BOOLEAN] :
     o.capture => o.spatial}

\* Fault: the window closes when the craft leaves the capture radius.
OpenedNow(o) == o.capture

\* waypoint_window_entry outlives the capture radius.
Opened(o) == o.capture \/ window # NoLeg

Passes(o) == (o.capture \/ o.deadline \/ Opened(o)) /\ o.spatial /\ o.envelope
Resolved(o) == Passes(o) \/ o.deadline

Clock == early' \in {early, FALSE}
OnLeg == index < legs /\ index \notin Degenerate

\* No waypoints, all of them behind, or a leg without geometry.
Direct ==
  /\ ~OnLeg
  /\ Clock
  /\ TransferFrame(index, phase, anchor, ticks)
  /\ UNCHANGED <<legs, index, window, guide, capture, markers>>

\* Nothing resolved yet, whichever of the sightings it is.
Track(sightings) ==
  /\ OnLeg
  /\ ActiveFrame(index, anchor, guide)
  /\ window' \in {IF o.capture /\ window = NoLeg THEN index ELSE window :
                   o \in {x \in sightings : ~Resolved(x)}}
  /\ Clock
  /\ UNCHANGED <<legs, index, capture, markers>>

\* The capture record: its audit is the continuation cached for the plan flown.
Captured(o) ==
  LET kept == guide.plan.leg = index /\ guide.snapshot.revision = guide.plan.revision IN
  [leg |-> index, status |-> IF o.spatial THEN "captured" ELSE "missed",
   reason |-> IF Passes(o) THEN "contract_pass" ELSE "plane_deadline",
   audit |-> IF ~kept THEN "none" ELSE IF guide.snapshot.own THEN "plan" ELSE "other"]

\* Only a final waypoint passed on a recoverable plan goes straight to terminal.
PostCapture(o) ==
  IF Final(index) /\ Passes(o) /\ guide.plan.leg = index /\ guide.plan.recoverable = "yes"
  THEN {"Boost", "Terminal"} ELSE {"Boost"}

\* The handoff: everything kept for the leg goes.  Without geometry for the next leg
\* the update falls back to a plain transfer, and its marker is lost.
HandOff(sightings) ==
  /\ OnLeg /\ Clock
  /\ index' = index + 1 /\ window' = NoLeg
  /\ LET direct == Final(index) \/ index + 1 \in Degenerate IN
     \E end \in {<<Captured(o), PostCapture(o)>> : o \in {x \in sightings : Resolved(x)}} :
       /\ capture' = end[1]
       /\ markers' = markers + (IF ~Final(index) /\ direct THEN 0 ELSE 1)
       /\ IF direct
          THEN /\ \E from \in end[2] : TransferFrame(index + 1, from, NoLeg, 0)
               /\ guide' = NewGuide
          ELSE ActiveFrame(index + 1, NoLeg, NewGuide)
  /\ UNCHANGED legs

Update(o) == Direct \/ Track({o}) \/ HandOff({o})

Reset ==
  /\ early' = TRUE /\ index' = 0 /\ phase' = "Takeoff" /\ anchor' = NoLeg /\ ticks' = 0
  /\ window' = NoLeg /\ guide' = NewGuide /\ capture' = NoCapture /\ markers' = 0
  /\ UNCHANGED legs

Next ==
  \/ Direct
  \/ Track(Sightings)
  \/ HandOff(Sightings)
  \/ Reset

Spec == Init /\ [][Next]_vars

(***************************************************************************)
(* Properties.                                                              *)
(***************************************************************************)
\* The active leg has no direction: its waypoint can be neither flown to nor passed.
Stalled == index < legs /\ index \in Degenerate

\* Everything kept about a leg is about the active one; of a leg without a direction nothing is.
FreshPerLeg ==
  /\ anchor \in {NoLeg, index} /\ window \in {NoLeg, index} /\ guide.plan.leg \in {NoLeg, index}
  /\ guide.plan = NoPlan => guide = [NewGuide EXCEPT !.replans = guide.replans]
  /\ Stalled => guide = NewGuide /\ window = NoLeg
\* A snapshot that would be served was taken for the plan in hand; the reachable
\* search runs at most once for a plan.
SnapshotsSpeakForPlan ==
  /\ guide.plan # NoPlan /\ guide.snapshot.revision = guide.plan.revision => guide.snapshot.own
  /\ capture.audit # "other" /\ guide.searches <= 1

(* Nothing of one leg speaks for another and nothing of one plan for another: *)
(* anchor, window and plan are the active leg's, every cached prediction that *)
(* would be served or audited was made for the plan in hand, and no plan is    *)
(* searched for twice (waypoint_update_context, current_waypoint_guidance_    *)
(* candidate, the two caches keyed by plan revision).                        *)
LegRecords == FreshPerLeg /\ SnapshotsSpeakForPlan

(* A plan is given up for its contract only after failing at two updates in a *)
(* row, and by a reachable search only if it never once passed: one bad       *)
(* prediction never costs a leg its plan                                    *)
(* (waypoint_guidance_contract_failure_ticks, current_waypoint_guidance_      *)
(* candidate).                                                             *)
PatientReplacement ==
  LET p == guide.plan
      q == guide'.plan IN
  p # NoPlan /\ q.leg = p.leg /\ q.revision # p.revision =>
    /\ q.reason = "ContractRecovery" => guide.failing
    /\ q.reason = "ReachableRecovery" /\ ~Final(q.leg) => guide.failing /\ ~guide.passEver

(* A craft that coasts or lands never relights its transfer burn but through   *)
(* a takeoff or a handoff; and terminal ownership of a completed waypoint      *)
(* route is kept once the takeoff time is over (choose_phase,                *)
(* docs/transfer_suite.md: completed waypoint routes retain terminal ownership). *)
PhaseLegal ==
  /\ phase \in {"Coast", "Terminal"} /\ phase' = "Boost" => index' # index
  /\ phase = "Terminal" /\ Completed(index) /\ ~early => phase' = "Terminal" \/ early'

(* While a waypoint is active its leg stays under powered guidance, and every  *)
(* waypoint passed has had its marker (docs/transfer_suite.md: "While a       *)
(* waypoint is active, it keeps the leg under powered guidance, blocks         *)
(* direct-transfer coast/terminal handoff"; update_active_waypoint_frame).    *)
(* The exception is a leg without a direction: the handoff to it is abandoned  *)
(* half done, so its own marker, and no other, is lost, and from then on a     *)
(* plain transfer is flown (the ? after next_geometry).                      *)
LegPowered ==
  /\ OnLeg => phase \in {"Takeoff", "Boost"}
  /\ markers = index - (IF Stalled /\ index > 0 THEN 1 ELSE 0)

(* Together: an active leg is flown under its own guidance, from its own        *)
(* records, and told once it is over.                                        *)
LegKept == LegRecords /\ LegPowered
=============================================================================

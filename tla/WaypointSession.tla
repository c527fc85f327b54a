--------------------------- MODULE WaypointSession ---------------------------
(***************************************************************************)
(* The waypoint V2 planning session (pd-planner/src/waypoint_v2.rs): a      *)
(* flight planned and flown piece by piece.  A piece is either a direct     *)
(* landing or one correction: fly the nominal to an entry E, then a local   *)
(* clearing to its handoff H, or to an earlier exit X whose landing was     *)
(* checked beforehand and is queued for the next piece.                     *)
(*                                                                         *)
(* What the numeric searches and audits answer is chosen; what the session  *)
(* does with the answers, and with an error at any point of a piece, is     *)
(* modelled.  Steps are physics steps; a command lasts two of them.         *)
(***************************************************************************)
EXTENDS Integers, Sequences, FiniteSets

CONSTANTS
  Deadlines,        \* values original_deadline may have
  MaxCorrections,   \* policy.maximum_corrections
  MinPowered,       \* shortest powered phase of a clearing template
  Continuation      \* policy.continuation_ticks: guarded coast after a handoff

ASSUME SessionAssumption ==
  /\ Deadlines \subseteq Nat
  /\ MaxCorrections \in Nat
  /\ MinPowered \in Nat \ {0} /\ MinPowered % 2 = 0
  /\ Continuation \in Nat \ {0} /\ Continuation % 2 = 0

VARIABLES
  flying,      \* the session owns a simulation: preflight accepted the request
  deadline,    \* absolute_deadline_physics_step
  live,        \* the only plant: [step, craft]
  stage,       \* where advance_piece is, "idle" between calls
  pending,     \* the piece's cycle so far, kept for the error path
  queued,      \* queued_nominal: the step it was checked at, or NoStep
  cycles, segments, corrections,      \* WaypointV2FlightResult ...
  stop, integrity, replayed,          \* planning_stop, integrity_passed, final_source_replay_passed
  terminal,    \* terminal_stop, "None" while the session is active
  progress,    \* the last WaypointV2SessionProgress returned
  finalized

given == <<flying, deadline>>
verdict == <<stop, integrity, replayed, terminal, progress, finalized>>
records == <<cycles, segments, corrections>>
vars == <<given, live, stage, pending, queued, records, verdict>>

NoStep == -1
Steps == Nat \cup {NoStep}
Crafts == {"Pad", "Flying", "Coasting", "Landed", "Lost"}
Stages == {"idle", "planning", "planned", "accepted", "blocked", "selected", "entered", "leaving"}
Audits == {"None", "Passed", "Rejected", "Blocked"}
Decisions == {"NoNominal", "Unsupported", "NominalRejected", "Direct",
              "TerrainBlocked", "LocalCleared", "CorrectionLimit", "NoClearing"}
Refusals == {"UnsupportedContinuation", "NoNominal", "TerrainBlocked", "NominalRejected"}
Exits == Refusals \cup {"None", "NoEarlierBoundary", "ClearReady", "Committed"}
PreflightStops == {"InvalidInput", "Unsupported"}
Stops == PreflightStops \cup {"Landed", "NoNominal", "NominalRejected", "NoClearing",
                              "CorrectionLimit", "Deadline", "ImplementationError"}
Kinds == {"InitialNominal", "AirborneNominal", "LocalCorrection"}

Last(s) == s[Len(s)]

\* A selected clearing: its entry, its handoff, and the first settled coast
\* boundary before the handoff, if there is one.
NoProposal == [E |-> NoStep, X |-> NoStep, H |-> NoStep]

\* A cycle before anything is known of it.  "nominal" is the step its search was
\* made at (the search's identity binds its incoming state), "query" the step an
\* early exit was asked for at, "proven" both source replays of its correction.
NewCycle ==
  [index |-> Len(cycles), entry |-> live.step, nominal |-> NoStep, audit |-> "None",
   decision |-> "NoNominal", proposal |-> NoProposal, exit |-> "None",
   query |-> NoStep, proven |-> FALSE]
NoCycle == [index |-> NoStep]

----------------------------------------------------------------------------
(* The ledger of flown segments.                                            *)

NominalKind == IF pending.index = 0 THEN "InitialNominal" ELSE "AirborneNominal"

\* append_segment: an empty segment is not recorded.
AppendSegment(kind, from, to) ==
  /\ (from # to /\ segments # <<>>) => Last(segments).to = from
  /\ segments' = IF from = to THEN segments
                 ELSE Append(segments, [kind |-> kind, from |-> from, to |-> to])

\* The segments own every step of the flight, each exactly once.
LedgerCovers(step) ==
  IF segments = <<>> THEN step = 0
  ELSE /\ segments[1].from = 0
       /\ Last(segments).to = step
       /\ \A i \in 1..Len(segments) : segments[i].from < segments[i].to
       /\ \A i \in 1..(Len(segments) - 1) : segments[i].to = segments[i + 1].from

\* What prove_accumulated needs to succeed: a ledger that reaches the live state,
\* and either a contact or a control boundary short of the deadline (at the
\* deadline the bounded run stops for the hard end, not for its coverage).
Provable ==
  /\ LedgerCovers(live.step)
  /\ live.craft \in {"Landed", "Lost"} \/ (live.step % 2 = 0 /\ live.step < deadline)

----------------------------------------------------------------------------
(* How a call of advance_piece ends.                                        *)

TerminalProgress(piece, entry, cause, step) ==
  [kind |-> "Terminal", piece |-> piece, entry |-> entry, stop |-> cause,
   corrections |-> corrections, step |-> step]

\* Ok(Terminal) with the cycle pushed: it is the last one of the flight.
EndWith(cause, cycle) ==
  /\ stage' = "idle" /\ pending' = NoCycle
  /\ cycles' = Append(cycles, cycle)
  /\ stop' = cause /\ terminal' = cause
  /\ progress' = TerminalProgress(cycle.index, cycle.entry, cause, live'.step)
  /\ UNCHANGED <<given, corrections, integrity, replayed, finalized>>

\* Ok(Handoff): the next piece starts from the live state.
HandOver(cycle) ==
  /\ stage' = "idle" /\ pending' = cycle
  /\ cycles' = Append(cycles, cycle)
  /\ corrections' = corrections + 1
  /\ progress' = [kind |-> "Handoff", piece |-> cycle.index, entry |-> cycle.entry,
                  stop |-> "None", corrections |-> corrections + 1, step |-> live'.step]
  /\ UNCHANGED <<given, stop, integrity, replayed, terminal, finalized>>

\* The piece goes on, and the cycle so far is kept in case of an error.
GoOn(next, cycle) == stage' = next /\ pending' = cycle /\ UNCHANGED <<given, verdict>>

----------------------------------------------------------------------------
\* start: preflight refuses the request and creates no simulation, or the craft
\* stands on its pad.
Init ==
  /\ live = [step |-> 0, craft |-> "Pad"]
  /\ stage = "idle" /\ pending = NoCycle /\ queued = NoStep
  /\ cycles = <<>> /\ segments = <<>> /\ corrections = 0
  /\ integrity = TRUE /\ replayed = FALSE /\ finalized = FALSE
  /\ \/ /\ flying = TRUE /\ deadline \in Deadlines
        /\ stop = "NoNominal" /\ terminal = "None"
        /\ progress = [kind |-> "None"]
     \/ /\ flying = FALSE /\ deadline = 0
        /\ stop \in PreflightStops /\ terminal = stop
        /\ progress = [kind |-> "Terminal", piece |-> NoStep, entry |-> NoStep, stop |-> stop,
                       corrections |-> 0, step |-> NoStep]

\* Fault: an ended session starts another piece.
BeginAnyTime ==
  /\ stage = "idle"
  /\ IF live.step < deadline THEN GoOn("planning", NewCycle)
     ELSE stop' = "Deadline" /\ terminal' = "Deadline"
          /\ UNCHANGED <<given, stage, pending, integrity, replayed, progress, finalized>>
  /\ UNCHANGED <<live, queued, records>>

\* advance_piece on an active session: no time left, or a new cycle.
Begin ==
  /\ stage = "idle" /\ terminal = "None"
  /\ IF live.step >= deadline
     THEN /\ stop' = "Deadline" /\ terminal' = "Deadline"
          /\ pending' = NoCycle
          /\ progress' = TerminalProgress(NoStep, live.step, "Deadline", live.step)
          /\ UNCHANGED <<given, stage, integrity, replayed, finalized>>
     ELSE GoOn("planning", NewCycle)
  /\ UNCHANGED <<live, queued, records>>

\* A nominal landing was found from the live state, and audited against terrain.
NominalFound(step, audit) ==
  /\ GoOn("planned", [pending EXCEPT !.nominal = step, !.audit = audit])
  /\ UNCHANGED records

NominalMissing(cause) ==
  /\ EndWith(cause, [pending EXCEPT !.nominal = live.step, !.decision = cause])
  /\ UNCHANGED segments

\* build_initial_nominal, from the pad.
BuildInitialNominal(audit) ==
  /\ stage = "planning" /\ cycles = <<>>
  /\ UNCHANGED <<live, queued>>
  /\ IF audit = "None" THEN NominalMissing("NoNominal") ELSE NominalFound(live.step, audit)

\* build_acquisition_nominal: the nominal queued by an early exit, whose audit
\* has passed, or a new search from the live state.
BuildAcquisitionNominal(audit) ==
  /\ stage = "planning" /\ cycles # <<>>
  /\ UNCHANGED live
  /\ queued' = NoStep
  /\ IF queued # NoStep
     THEN queued = live.step /\ audit = "Passed" /\ NominalFound(queued, audit)
     ELSE IF live.craft # "Coasting" THEN NominalMissing("Unsupported")
     ELSE IF audit = "None" THEN NominalMissing("NoNominal")
     ELSE NominalFound(live.step, audit)

CanCorrect == corrections < MaxCorrections

\* prove_fixed_consumed_prefix, and what the audit makes of the piece.
ProvePrefix ==
  /\ stage = "planned"
  /\ UNCHANGED <<live, queued, segments>>
  /\ IF pending.audit = "Rejected"
     THEN EndWith("NominalRejected", [pending EXCEPT !.decision = "NominalRejected"])
     ELSE IF pending.audit = "Passed"
     THEN /\ GoOn("accepted", [pending EXCEPT !.decision = "NominalRejected"])
          /\ UNCHANGED <<cycles, corrections>>
     ELSE IF CanCorrect
     THEN /\ GoOn("blocked", [pending EXCEPT !.decision = "TerrainBlocked"])
          /\ UNCHANGED <<cycles, corrections>>
     ELSE EndWith("CorrectionLimit", [pending EXCEPT !.decision = "CorrectionLimit"])

\* execute_direct_piece, to the landing the audit has seen.
ExecuteDirect(landing) ==
  /\ stage = "accepted"
  /\ live' = [step |-> landing, craft |-> "Landed"]
  /\ AppendSegment(NominalKind, pending.entry, landing)
  /\ EndWith("Landed", [pending EXCEPT !.decision = "Direct"])
  /\ UNCHANGED queued

Boundaries == {k \in live.step..deadline : k % 2 = 0}

\* Fault: the guarded continuation may run past the deadline.
ClearingsUnguarded ==
  {p \in [E : Boundaries \ {0}, X : Boundaries \cup {NoStep}, H : Boundaries] :
     /\ p.H > p.E + MinPowered
     /\ p.X # NoStep => p.E + MinPowered < p.X /\ p.X < p.H}

\* The proposals the search may accept: on the control clock, the handoff and the
\* exit after a powered phase, the guarded continuation before the deadline.
Clearings ==
  {p \in [E : Boundaries \ {0}, X : Boundaries \cup {NoStep}, H : Boundaries] :
     /\ p.H > p.E + MinPowered /\ p.H + Continuation <= deadline
     /\ p.X # NoStep => p.E + MinPowered < p.X /\ p.X < p.H}

\* search_local_clearing: the best proposal of the grid, or none.
SelectClearing(proposal) ==
  /\ stage = "blocked"
  /\ GoOn("selected", [pending EXCEPT !.proposal = proposal])
  /\ UNCHANGED <<live, queued, records>>

FindNoClearing ==
  /\ stage = "blocked"
  /\ UNCHANGED <<live, queued, segments>>
  /\ EndWith("NoClearing", [pending EXCEPT !.decision = "NoClearing"])

\* execute_correction up to the entry, then early_exit::prepare on clones.
EnterCorrection(exit) ==
  LET p == pending.proposal
  IN  /\ stage = "selected"
      /\ exit = "NoEarlierBoundary" <=> p.X = NoStep
      /\ live' = [step |-> p.E, craft |-> "Flying"]
      /\ AppendSegment(NominalKind, pending.entry, p.E)
      /\ GoOn(IF exit = "ClearReady" THEN "leaving" ELSE "entered",
              [pending EXCEPT !.exit = exit, !.query = p.X])
      /\ UNCHANGED <<queued, cycles, corrections>>

\* Fault: the correction's segment is recorded from the piece's entry.
ExecuteCorrectionFromPieceEntry ==
  /\ stage = "entered"
  /\ live' = [step |-> pending.proposal.H, craft |-> "Coasting"]
  /\ segments' = Append(segments, [kind |-> "LocalCorrection", from |-> pending.entry,
                                    to |-> pending.proposal.H])
  /\ HandOver([pending EXCEPT !.decision = "LocalCleared", !.proven = TRUE])
  /\ UNCHANGED queued

\* execute_correction from the entry to the handoff, both source replays passed.
ExecuteCorrection ==
  /\ stage = "entered"
  /\ live' = [step |-> pending.proposal.H, craft |-> "Coasting"]
  /\ AppendSegment("LocalCorrection", pending.proposal.E, pending.proposal.H)
  /\ HandOver([pending EXCEPT !.decision = "LocalCleared", !.proven = TRUE])
  /\ UNCHANGED queued

\* execute_early_exit: the same, to the checked boundary, and the checked nominal
\* is queued for the next piece.
ExecuteEarlyExit ==
  /\ stage = "leaving" /\ queued = NoStep
  /\ live' = [step |-> pending.query, craft |-> "Coasting"]
  /\ AppendSegment("LocalCorrection", pending.proposal.E, pending.query)
  /\ queued' = pending.query
  /\ HandOver([pending EXCEPT !.decision = "LocalCleared", !.exit = "Committed", !.proven = TRUE])

----------------------------------------------------------------------------
(* Errors, and the end of the session.                                      *)

\* The step a stage flies to, and the step its segment starts from.
Target ==
  CASE stage = "accepted" -> deadline
    [] stage = "selected" -> pending.proposal.E
    [] stage = "entered"  -> pending.proposal.H
    [] stage = "leaving"  -> pending.query
    [] OTHER              -> live.step
FlownFrom == IF stage = "selected" THEN pending.entry ELSE pending.proposal.E
FlownKind == IF stage = "selected" THEN NominalKind ELSE "LocalCorrection"

\* Fault: the call that failed may be made again.
FailRetried(step, craft, recorded) ==
  /\ stage # "idle" /\ stage' = "idle" /\ pending' = NoCycle
  /\ UNCHANGED <<given, live, queued, records, verdict>>

\* Err at any point of a piece.  The live flight stays where the error found it;
\* the segment it was flying is recorded only if its end was reached; the cycle
\* so far becomes the last one, and the error is the session's stop.
Fail(step, craft, recorded) ==
  /\ stage # "idle"
  /\ step \in live.step..Target
  /\ live' = [step |-> step, craft |-> IF step = live.step THEN live.craft ELSE craft]
  /\ IF recorded
     THEN /\ stage \in {"selected", "entered", "leaving"} /\ step = Target
          /\ AppendSegment(FlownKind, FlownFrom, step)
     ELSE UNCHANGED segments
  /\ stage' = "idle" /\ pending' = NoCycle
  /\ queued' = IF stage = "planning" THEN NoStep ELSE queued
  /\ cycles' = Append(cycles, pending)
  /\ stop' = "ImplementationError" /\ terminal' = "ImplementationError" /\ integrity' = FALSE
  /\ progress' = TerminalProgress(pending.index, pending.entry, "ImplementationError", step)
  /\ UNCHANGED <<given, corrections, replayed, finalized>>

\* validate_records: what a saved early exit must agree with, given the stop and
\* the integrity the result is to have.
ValidExit(i, finalStop, sound) ==
  LET c == cycles[i]
      e == c.exit
      flown == {s \in {segments[j] : j \in 1..Len(segments)} :
                  s.kind = "LocalCorrection" /\ s.from = c.proposal.E}
  IN  /\ (e = "NoEarlierBoundary") <=> (c.proposal.X = NoStep)
      /\ c.query = c.proposal.X
      /\ e = "ClearReady" => ~sound
      /\ e = "Committed" =>
           /\ c.proven /\ c.decision = "LocalCleared"
           /\ \E s \in flown : s.to = c.query
           /\ IF i < Len(cycles)
              THEN LET next == cycles[i + 1]
                   IN  next.entry = c.query /\ next.nominal = c.query /\ next.audit = "Passed"
              ELSE finalStop # "Landed"

ValidRecords(finalStop, sound) ==
  \A i \in 1..Len(cycles) : cycles[i].exit # "None" => ValidExit(i, finalStop, sound)

\* Fault: a failed proof is noted, and the stop stays.
FinishLenient(proof) ==
  /\ stage = "idle" /\ terminal # "None" /\ ~finalized
  /\ proof => Provable
  /\ finalized' = TRUE
  /\ replayed' = (flying /\ proof)
  /\ integrity' = (integrity /\ proof)
  /\ UNCHANGED <<given, live, stage, pending, queued, records, stop, terminal, progress>>

\* finish: the whole flight is proved from its source, then the early exits are
\* validated; either failure replaces the stop.  A session without a flight has
\* nothing to prove.
Finish(proof) ==
  LET proved == ~flying \/ proof
      stopAfterProof == IF proved THEN stop ELSE "ImplementationError"
      sound == integrity /\ proved
      valid == ~flying \/ ValidRecords(stopAfterProof, sound)
      final == IF valid THEN stopAfterProof ELSE "ImplementationError"
  IN  /\ stage = "idle" /\ terminal # "None" /\ ~finalized
      /\ proof => flying /\ Provable
      /\ replayed' = proof
      /\ integrity' = (sound /\ valid)
      /\ stop' = final
      /\ terminal' = IF proved /\ valid THEN terminal ELSE "ImplementationError"
      /\ progress' = [progress EXCEPT !.stop = final]
      /\ finalized' = TRUE
      /\ UNCHANGED <<given, live, stage, pending, queued, records>>

\* A terminal session answers with the progress it retained.
AskAgain == stage = "idle" /\ terminal # "None" /\ UNCHANGED vars

\* The steps of advance_piece on an active session.
Advance ==
  \/ Begin
  \/ \E a \in Audits : BuildInitialNominal(a)
  \/ \E a \in Audits : BuildAcquisitionNominal(a)
  \/ ProvePrefix
  \/ \E k \in (live.step + 1)..deadline : ExecuteDirect(k)
  \/ \E p \in Clearings : SelectClearing(p)
  \/ FindNoClearing
  \/ \E x \in Exits \ {"None", "Committed"} : EnterCorrection(x)
  \/ ExecuteCorrection
  \/ ExecuteEarlyExit
  \/ \E k \in live.step..deadline, c \in Crafts \ {"Pad"}, r \in BOOLEAN : Fail(k, c, r)

Next ==
  \/ Advance
  \/ \E proof \in BOOLEAN : Finish(proof)
  \/ AskAgain

Spec == Init /\ [][Next]_vars

\* run_waypoint_v2_flight: one thread advances until a terminal progress, then
\* finishes; every search and every replay of it is finite.
FairSpec == Spec /\ WF_vars(Next)

----------------------------------------------------------------------------
(* What a session promises.                                                 *)

\* Whoever holds the result between two calls finds every step of the live
\* flight owned by exactly one segment, unless an implementation error was
\* reported (append_segment, and the exclusive ownership the replay proofs of
\* execution.rs rely on).
LedgerCoversFlight ==
  stage = "idle" /\ integrity => LedgerCovers(live.step)

\* The cycles tell the pieces: numbered in order, each entered where the one
\* before handed over, all but the last a counted correction.
CyclesTellPieces ==
  /\ \A i \in 1..Len(cycles) : cycles[i].index = i - 1
  /\ \A i \in 1..(Len(cycles) - 1) :
       LET c == cycles[i]
       IN  /\ c.decision = "LocalCleared"
           /\ cycles[i + 1].entry = IF c.exit = "Committed" THEN c.query ELSE c.proposal.H
           /\ cycles[i + 1].entry > c.entry
  /\ corrections = Cardinality({i \in 1..Len(cycles) : cycles[i].decision = "LocalCleared"})

\* Together: the segments and the cycles of a result are two accounts of one flight.
RecordsTellFlight == LedgerCoversFlight /\ CyclesTellPieces

\* A committed early exit is honoured: the checked landing is what the very next
\* piece flies, from the state it was checked at, so no third piece follows and
\* the flight ends in that landing or in an error, in nothing else.
EarlyExitHonoured ==
  \A i \in 1..Len(cycles) :
    cycles[i].exit = "Committed" =>
      /\ Len(cycles) <= i + 1
      /\ Len(cycles) = i + 1 => cycles[i + 1].entry = cycles[i].query
      /\ terminal \in {"None", "Landed", "ImplementationError"}

\* A correction never strands the flight: every handoff leaves guarded time
\* before the deadline and a state the next search supports, so neither stop
\* can follow a correction.
NeverStranded == corrections > 0 => terminal \notin {"Deadline", "Unsupported"}

\* A landing verdict that is final was proved: the craft is down, the whole
\* flight was replayed from its source over a complete ledger, and its last
\* piece was a direct landing whose audit had passed.  And the two ways to
\* say "error" agree.
VerdictProved ==
  /\ finalized /\ stop = "Landed" =>
       /\ live.craft = "Landed" /\ replayed /\ integrity /\ LedgerCovers(live.step)
       /\ Last(cycles).decision = "Direct" /\ Last(cycles).audit = "Passed"
  /\ ~integrity <=> stop = "ImplementationError"

\* Together: whatever the searches say, a flight that claims an early exit or a landing has
\* been checked and flown to it.
ClaimsEarned == EarlyExitHonoured /\ VerdictProved

\* The end is the end: once a terminal stop was reported, no call moves the craft
\* or rewrites what was flown, and only finish may change the verdict, once, and
\* only to an implementation error.
FinishOnlyOverturns ==
  [][terminal # "None" =>
       /\ UNCHANGED <<live, queued, records>>
       /\ finalized => UNCHANGED verdict
       /\ stop' \in {stop, "ImplementationError"}]_vars

\* The comment on finish (waypoint_v2.rs:1209): the failure of the final replay
\* "overrides an earlier landed planning stop".  A deadline stop is no landing.
DeadlineStands == [][terminal = "Deadline" => terminal' = "Deadline"]_vars
=============================================================================

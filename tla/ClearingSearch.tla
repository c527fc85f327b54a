---------------------------- MODULE ClearingSearch ----------------------------
(***************************************************************************)
(* The search for a local clearing (pd-planner, waypoint_v2.rs,             *)
(* search_local_clearing): every entry boundary of the primary clocks, and,  *)
(* if nothing was accepted there, of the fallback clocks, is tried with      *)
(* every template of the grid.  What a row's flight answers is chosen.       *)
(***************************************************************************)
EXTENDS EntryClock, Sequences, SequencesExt, FiniteSets

CONSTANT
  Queries         \* the searches asked for, each with the policy it keeps to

NoSource == -1
Rooms == {"unknown", "short", "enough"}       \* the sign of braking_room_at_handoff

\* Of a query: the live origin, the nominal's handoff if the origin is the launch, the first
\* conflict and the deadline.  Of its policy, which the code seals and a small search scales down:
\* the powered ticks of the templates, the coast and continuation ticks, the first boundary a
\* nominal may be left at.  And the fuel a row may burn to its handoff.
SearchAssumption ==
  \A q \in Queries :
    /\ {q.current, q.conflict, q.deadline} \subseteq Nat
    /\ q.current % 2 = 0
    /\ q.source \in Nat \cup {NoSource} /\ ((q.source = NoSource) <=> (q.current > 0))
    /\ q.powered \in Seq(Nat \ {0}) /\ q.powered # <<>>
    /\ \A i \in DOMAIN q.powered : q.powered[i] % 2 = 0
    /\ {q.maxCoast, q.continuation, q.launchHold} \subseteq Nat \ {0}
    /\ q.maxCoast % 2 = 0 /\ q.continuation % 2 = 0 /\ q.launchHold % 2 = 0
    /\ q.fuels \subseteq Nat

VARIABLES
  query,          \* what is searched
  place,          \* "asked", "entry", "row", "chosen", "ended"
  round,          \* the pass of the loop: 0 primary, 1 fallback
  queue,          \* entries still to try: [id, tick]
  entries,        \* local.entries: [id, tick, round, admitted]
  rowCount,       \* local.row_count
  selected, selectedEntry,     \* the best proposal so far, and the entry state kept for it
  roomy,          \* the best of those with braking room, and its entry
  accepted,       \* the proposals behind accepted_row_count
  kept,           \* pending_cycle.local_search: what an error leaves on record
  failedRow,      \* result.failed_local_row
  outcome         \* "None", "Selected", "NoClearing", "Error"

found == <<selected, selectedEntry, roomy, accepted>>
searchVars == <<query, place, round, queue, entries, rowCount, found, kept, failedRow, outcome>>

Nothing == [tick |-> NoSource]
Powered == query.powered
MaxCoast == query.maxCoast
ContinuationTicks == query.continuation
LaunchHold == query.launchHold
Rows == Len(Powered)
Horizon == MaxCoast + (CHOOSE p \in {Powered[i] : i \in DOMAIN Powered} :
                         \A i \in DOMAIN Powered : Powered[i] <= p)

\* Names of initial entries sort against the order they are tried in, names of quarters along it.
Named(ticks, IdOf(_)) == [i \in DOMAIN ticks |-> [id |-> IdOf(i), tick |-> ticks[i]]]
Sorted(ticks) ==
  CHOOSE s \in [1..Cardinality(ticks) -> ticks] : \A i, j \in DOMAIN s : i < j => s[i] < s[j]
Ascending(ticks) == Named(Sorted(ticks), LAMBDA i : i)

PrimaryRefused ==
  IF query.source = NoSource THEN LaterRefused(query.current, query.conflict)
  ELSE InitialRefused(LaunchHold, query.source)
PrimaryEntries ==
  IF query.source = NoSource THEN Ascending(LaterTicks(query.current, query.conflict))
  ELSE Named(InitialTicks(LaunchHold, query.source), LAMBDA i : 5 - i)

Tested == {entries[i].tick : i \in DOMAIN entries}

\* Fault: the fallback does not know what the primary search has tested.
FallbackRetests ==
  Ascending(FallbackTicks(query.current, query.conflict, Horizon, {}))

FallbackEntries ==
  Ascending(FallbackTicks(query.current, query.conflict, Horizon, Tested))

\* local_rank: the latest entry, then the earliest handoff, the least fuel, the row's name.
Ranks(a, b) ==
  LET key(p) == <<-p.tick, p.handoff, p.fuel, p.id, p.row>>
  IN  \E i \in 1..5 : key(a)[i] < key(b)[i] /\ \A j \in 1..(i - 1) : key(a)[j] = key(b)[j]

Entry == Last(entries)
Row == rowCount - Rows * (Len(entries) - 1) + 1      \* the template tried next at Entry
NoneKept == [entries |-> <<>>, rowCount |-> 0, accepted |-> 0, selected |-> Nothing]

\* checkpoint_local_search: the pending cycle holds the search as it now is.
Checkpoint ==
  kept' = [entries |-> entries', rowCount |-> rowCount', accepted |-> Cardinality(accepted'),
           selected |-> selected']

----------------------------------------------------------------------------
SearchInit ==
  /\ query \in Queries
  /\ place = "asked" /\ round = 0 /\ queue = <<>> /\ entries = <<>> /\ rowCount = 0
  /\ selected = Nothing /\ selectedEntry = NoSource /\ roomy = Nothing /\ accepted = {}
  /\ kept = NoneKept /\ failedRow = Nothing /\ outcome = "None"

\* The conflict is known; its clock may have no entry at all.
Ask ==
  /\ place = "asked"
  /\ IF PrimaryRefused
     THEN place' = "ended" /\ outcome' = "Error" /\ UNCHANGED queue
     ELSE place' = "entry" /\ queue' = PrimaryEntries /\ UNCHANGED outcome
  /\ UNCHANGED <<query, round, entries, rowCount, found, kept, failedRow>>

\* The next entry: before the conflict, a supported state with the whole body's reserve.  On its
\* pad, at step 0, a craft has none.
TryEntry(admitted) ==
  LET next == Head(queue)
  IN  /\ place = "entry" /\ queue # <<>>
      /\ admitted => next.tick < query.conflict /\ next.tick > 0
      /\ queue' = Tail(queue)
      /\ entries' = Append(entries, [id |-> next.id, tick |-> next.tick, round |-> round,
                                     admitted |-> admitted])
      /\ place' = "row"
      /\ UNCHANGED <<query, round, rowCount, found, failedRow, outcome>>
      /\ Checkpoint

NextRow ==
  /\ rowCount' = rowCount + 1
  /\ place' = IF Row = Rows THEN "entry" ELSE "row"
  /\ UNCHANGED <<query, round, queue, entries, failedRow, outcome>>

\* search_row finds no handoff, or the entry was excluded.
RejectRow == place = "row" /\ NextRow /\ UNCHANGED found /\ Checkpoint

\* What search_row may answer: the first eligible coast boundary, its continuation before the
\* deadline, the fuel burnt to it and the room it leaves for braking.
Proposals ==
  {[id |-> Entry.id, tick |-> Entry.tick, row |-> Row, round |-> round, fuel |-> f, room |-> r,
    handoff |-> Entry.tick + Powered[Row] + 2 * k] :
      f \in query.fuels, r \in Rooms,
      k \in {k \in 1..(MaxCoast \div 2) :
               Entry.tick + Powered[Row] + 2 * k + ContinuationTicks <= query.deadline}}

\* Fault: the alternative is compared with the winner.
AcceptRowAgainstWinner(p) ==
  /\ place = "row" /\ Entry.admitted
  /\ accepted' = accepted \cup {p}
  /\ IF p.room = "enough" /\ (roomy = Nothing \/ (selected # Nothing /\ Ranks(p, selected)))
     THEN roomy' = p ELSE UNCHANGED roomy
  /\ IF selected = Nothing \/ Ranks(p, selected)
     THEN selected' = p /\ selectedEntry' = Entry.tick
     ELSE UNCHANGED <<selected, selectedEntry>>
  /\ NextRow /\ Checkpoint

\* An accepted row: the best so far, and the best so far of those with braking room.
AcceptRow(p) ==
  /\ place = "row" /\ Entry.admitted
  /\ accepted' = accepted \cup {p}
  /\ roomy' = IF p.room = "enough" /\ (roomy = Nothing \/ Ranks(p, roomy)) THEN p ELSE roomy
  /\ IF selected = Nothing \/ Ranks(p, selected)
     THEN selected' = p /\ selectedEntry' = Entry.tick
     ELSE UNCHANGED <<selected, selectedEntry>>
  /\ NextRow /\ Checkpoint

\* Nothing was accepted at the primary entries: the fallback clocks.
FallBack ==
  /\ place = "entry" /\ queue = <<>> /\ round = 0 /\ selected = Nothing
  /\ IF FallbackRefused(query.current, query.conflict)
     THEN place' = "ended" /\ outcome' = "Error" /\ UNCHANGED <<round, queue>>
     ELSE round' = 1 /\ queue' = FallbackEntries /\ UNCHANGED <<place, outcome>>
  /\ UNCHANGED <<query, entries, rowCount, found, kept, failedRow>>

\* Both clocks are exhausted.
FindNothing ==
  /\ place = "entry" /\ queue = <<>> /\ round = 1 /\ selected = Nothing
  /\ place' = "ended" /\ outcome' = "NoClearing"
  /\ UNCHANGED <<query, round, queue, entries, rowCount, found, failedRow>>
  /\ Checkpoint

\* A winner that leaves too little room for braking yields to the best that leaves enough.
Choose ==
  /\ place = "entry" /\ queue = <<>> /\ selected # Nothing
  /\ place' = "chosen"
  /\ IF selected.room = "short" /\ roomy # Nothing
     THEN selected' = roomy /\ selectedEntry' = roomy.tick
     ELSE UNCHANGED <<selected, selectedEntry>>
  /\ UNCHANGED <<query, round, queue, entries, rowCount, roomy, accepted, failedRow, outcome>>
  /\ Checkpoint

\* validate_local_clearing_proposal agrees with the row.
Accept ==
  /\ place = "chosen"
  /\ place' = "ended" /\ outcome' = "Selected"
  /\ UNCHANGED <<query, round, queue, entries, rowCount, found, kept, failedRow>>

\* Any query, row or validation may fail; a row whose flight is not finite is kept apart.
Break(nonfinite) ==
  /\ place \notin {"asked", "ended"}
  /\ nonfinite => place = "row" /\ Entry.admitted
  /\ failedRow' = IF nonfinite THEN [tick |-> Entry.tick, row |-> Row] ELSE failedRow
  /\ place' = "ended" /\ outcome' = "Error"
  /\ UNCHANGED <<query, round, queue, entries, rowCount, found, kept>>

Ended == place = "ended" /\ UNCHANGED searchVars

SearchNext ==
  \/ Ask \/ FallBack \/ FindNothing \/ Choose \/ Accept \/ RejectRow \/ Ended
  \/ \E admitted \in BOOLEAN : TryEntry(admitted)
  \/ place = "row" /\ Entry.admitted /\ \E p \in Proposals : AcceptRow(p)
  \/ \E nonfinite \in BOOLEAN : Break(nonfinite)

SearchSpec == SearchInit /\ [][SearchNext]_searchVars

----------------------------------------------------------------------------
(* What a search promises.                                                  *)

Best(ps) == CHOOSE p \in ps : \A other \in ps \ {p} : Ranks(p, other)

\* The rule that the loop's comments state, over all accepted rows at once: the best by rank; one
\* that is short of braking room yields to the best that has it.
Chosen ==
  LET withRoom == {p \in accepted : p.room = "enough"}
  IN  IF Best(accepted).room = "short" /\ withRoom # {} THEN Best(withRoom) ELSE Best(accepted)

\* The incremental choice is the rule, its entry state is its own, its schedule is one the
\* validator admits, and a fallback proposal never displaced a primary one.
SelectionIsTheBest ==
  outcome = "Selected" =>
    /\ selected = Chosen
    /\ selectedEntry = selected.tick
    /\ \A p \in accepted : p.round = round
    /\ ValidSchedule(RowSchedule(selected.tick, Powered[selected.row], ContinuationTicks,
                                 query.deadline,
                                 (selected.handoff - selected.tick - Powered[selected.row]) \div 2),
                     Powered[selected.row], MaxCoast, ContinuationTicks)

TicksOf(r) == {entries[i].tick : i \in {i \in DOMAIN entries : entries[i].round = r}}

\* Exhausted means exhausted: every row of every entry of both clocks was tried, none of the
\* fallback entries twice, all within the work the policy allows; and an error anywhere leaves
\* the search on record exactly as far as it went (pending_cycle, failed_local_row).
SearchIsOnRecord ==
  /\ TicksOf(0) \cap TicksOf(1) = {}
  /\ Len(entries) <= 8 /\ rowCount <= 8 * Rows
  /\ outcome = "NoClearing" =>
       /\ rowCount = Rows * Len(entries) /\ accepted = {}
       /\ \A t \in FallbackTicks(query.current, query.conflict, Horizon, {}) : t \in Tested
  /\ place # "asked" /\ entries # <<>> =>
       kept = [entries |-> entries, rowCount |-> rowCount, accepted |-> Cardinality(accepted),
               selected |-> selected]
  /\ failedRow # Nothing => failedRow.tick = Entry.tick /\ outcome = "Error"
=============================================================================

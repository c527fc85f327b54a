--------------------------- MODULE Planner_proofs ---------------------------
(***************************************************************************)
(* Theorems about the planner: its clock rules for every clock, the search   *)
(* for a local clearing for every query and policy, the planning session,     *)
(* and a recorded one, for every policy and deadline, wherever the recording  *)
(* process dies.                                                            *)
(***************************************************************************)
EXTENDS MCWaypointSession, EntryClock, SequenceTheorems, FiniteSetTheorems, TLAPS

----------------------------------------------------------------------------
(* What the clock rules promise for every clock, not only for the few that   *)
(* the tests of pd-plan and the runs name.                                  *)

\* Dividing before multiplying loses nothing: it is the rounded eighth, and never larger than
\* what is divided, so no clock that fits its type is left on the way.
LEMMA EighthsRoundDown ==
  ASSUME NEW d \in Nat, NEW n \in 0..3
  PROVE  /\ Eighths(d, n) \in Nat
         /\ 8 * Eighths(d, n) <= d * n
         /\ d * n < 8 * Eighths(d, n) + 8
<1>1. n = 0 \/ n = 1 \/ n = 2 \/ n = 3
  OBVIOUS
<1>2. CASE n = 0
  BY <1>2 DEF Eighths
<1>3. CASE n = 1
  BY <1>3 DEF Eighths
<1>4. CASE n = 2
  BY <1>4 DEF Eighths
<1>5. CASE n = 3
  BY <1>5 DEF Eighths
<1> QED
  BY <1>1, <1>2, <1>3, <1>4, <1>5

\* A quarter clock lies between the origin and the conflict, on the origin's side of three
\* quarters, and on the control clock.
LEMMA QuarterAhead ==
  ASSUME NEW from \in Nat, NEW conflict \in Nat, conflict > from, from % 2 = 0,
         NEW n \in 0..3
  PROVE  /\ Quarter(from, conflict, n) \in Nat
         /\ from <= Quarter(from, conflict, n)
         /\ Quarter(from, conflict, n) < conflict
         /\ Quarter(from, conflict, n) % 2 = 0
<1> DEFINE d == conflict - from
           e == Eighths(d, n)
<1>1. d \in Nat /\ d > 0
  OBVIOUS
<1>2. e \in Nat /\ 8 * e <= d * n
  BY <1>1, EighthsRoundDown
<1>3. d * n <= 3 * d
  <2>1. n = 0 \/ n = 1 \/ n = 2 \/ n = 3
    OBVIOUS
  <2> QED
    BY <1>1, <2>1
<1>4. Quarter(from, conflict, n) = from + 2 * e
  BY DEF Quarter
<1>5. 2 * e < d
  <2>1. 8 * e <= 3 * d
    BY <1>1, <1>2, <1>3
  <2> QED
    BY <1>1, <1>2, <2>1
<1>6. (from + 2 * e) % 2 = 0
  BY <1>2
<1> QED
  BY <1>1, <1>2, <1>4, <1>5, <1>6

\* The four quarters are reached in order, so leaving out a tick that repeats the last one, as the
\* loop does, leaves each tick once, in increasing order.
LEMMA QuartersGrow ==
  ASSUME NEW from \in Nat, NEW conflict \in Nat, conflict > from,
         NEW n \in 0..3, NEW m \in 0..3, n <= m
  PROVE  Quarter(from, conflict, n) <= Quarter(from, conflict, m)
<1> DEFINE d == conflict - from
<1>1. d \in Nat
  OBVIOUS
<1>2. Eighths(d, n) <= Eighths(d, m)
  <2>1. /\ Eighths(d, n) \in Nat /\ 8 * Eighths(d, n) <= d * n
        /\ Eighths(d, m) \in Nat /\ d * m < 8 * Eighths(d, m) + 8
    BY <1>1, EighthsRoundDown
  <2>2. d * n <= d * m
    <3>1. n = 0 \/ n = 1 \/ n = 2 \/ n = 3
      OBVIOUS
    <3>2. m = 0 \/ m = 1 \/ m = 2 \/ m = 3
      OBVIOUS
    <3> QED
      BY <1>1, <3>1, <3>2
  <2>3. 8 * Eighths(d, n) < 8 * Eighths(d, m) + 8
    BY <1>1, <2>1, <2>2
  <2> QED
    BY <2>1, <2>3
<1>3. Eighths(d, n) \in Nat /\ Eighths(d, m) \in Nat
  BY <1>1, EighthsRoundDown
<1> QED
  BY <1>2, <1>3 DEF Quarter

\* A correction is entered at the live origin or after it, before the conflict, on the control
\* clock, and the origin itself is always one of the entries (later_intervention_boundaries).
THEOREM LaterEntriesAhead ==
  ASSUME NEW current \in Nat, NEW conflict \in Nat, ~LaterRefused(current, conflict)
  PROVE  /\ current \in LaterTicks(current, conflict)
         /\ \A t \in LaterTicks(current, conflict) :
              t \in Nat /\ current <= t /\ t < conflict /\ t % 2 = 0
<1>1. conflict > current /\ current % 2 = 0
  BY DEF LaterRefused
<1>2. \A n \in 0..3 : /\ Quarter(current, conflict, n) \in Nat
                      /\ current <= Quarter(current, conflict, n)
                      /\ Quarter(current, conflict, n) < conflict
                      /\ Quarter(current, conflict, n) % 2 = 0
  BY <1>1, QuarterAhead
<1>3. Quarter(current, conflict, 0) = current
  BY DEF Quarter, Eighths
<1>4. \A t \in LaterTicks(current, conflict) :
        t \in Nat /\ current <= t /\ t < conflict /\ t % 2 = 0
  BY <1>2 DEF LaterTicks
<1>5. current \in LaterTicks(current, conflict)
  <2>1. 0 \in 0..3
    OBVIOUS
  <2> QED
    BY <1>1, <1>3, <2>1 DEF LaterTicks
<1> QED
  BY <1>4, <1>5

\* The fallback never tests a tick again, never goes back behind the live origin, and enters at
\* most one local horizon, and the step it rounds down by, before the conflict
\* (fallback_intervention_boundaries; its test near the overflow states 1681 for a horizon of 1680).
THEOREM FallbackEntriesBounded ==
  ASSUME NEW current \in Nat, NEW conflict \in Nat, NEW horizon \in Nat, NEW tested,
         ~FallbackRefused(current, conflict), horizon > 0
  PROVE  \A t \in FallbackTicks(current, conflict, horizon, tested) :
           /\ t \in Nat /\ t \notin tested
           /\ current <= t /\ t < conflict /\ t % 2 = 0
           /\ conflict - t <= horizon + 1
<1> DEFINE start == FallbackStart(current, conflict, horizon)
<1>1. conflict > current /\ current % 2 = 0
  BY DEF FallbackRefused
<1>2. /\ start \in Nat /\ start % 2 = 0 /\ current <= start /\ start < conflict
      /\ conflict - start <= horizon + 1
  <2>1. CASE conflict > horizon
    <3> DEFINE half == (conflict - horizon) \div 2
    <3>1. half \in Nat /\ 2 * half <= conflict - horizon /\ conflict - horizon <= 2 * half + 1
      BY <2>1
    <3>2. start = IF half * 2 > current THEN half * 2 ELSE current
      BY <2>1 DEF FallbackStart
    <3>3. (half * 2) % 2 = 0
      BY <3>1
    <3>4. CASE half * 2 > current
      BY <1>1, <2>1, <3>1, <3>2, <3>3, <3>4
    <3>5. CASE ~(half * 2 > current)
      BY <1>1, <2>1, <3>1, <3>2, <3>5
    <3> QED
      BY <3>4, <3>5
  <2>2. CASE ~(conflict > horizon)
    <3>1. start = current
      BY <2>2 DEF FallbackStart
    <3> QED
      BY <1>1, <2>2, <3>1
  <2> QED
    BY <2>1, <2>2
<1>3. \A n \in 0..3 : /\ Quarter(start, conflict, n) \in Nat
                      /\ start <= Quarter(start, conflict, n)
                      /\ Quarter(start, conflict, n) < conflict
                      /\ Quarter(start, conflict, n) % 2 = 0
  BY <1>2, QuarterAhead
<1> SUFFICES ASSUME NEW t \in FallbackTicks(current, conflict, horizon, tested)
             PROVE  /\ t \in Nat /\ t \notin tested
                    /\ current <= t /\ t < conflict /\ t % 2 = 0
                    /\ conflict - t <= horizon + 1
  OBVIOUS
<1>4. t \in LaterTicks(start, conflict) /\ t \notin tested
  BY DEF FallbackTicks
<1>5. PICK n \in 0..3 : t = Quarter(start, conflict, n)
  BY <1>4 DEF LaterTicks
<1>6. t \in Nat /\ start <= t /\ t < conflict /\ t % 2 = 0
  BY <1>3, <1>5
<1>7. current <= t /\ conflict - t <= horizon + 1
  <2> HIDE DEF start
  <2> QED
    BY <1>2, <1>6
<1> QED
  BY <1>4, <1>6, <1>7

\* The entries on the way to the nominal's handoff are after the launch hold, before the handoff,
\* on the control clock, and tried from the latest to the earliest
\* (initial_intervention_boundaries).
THEOREM InitialEntriesOnTheWay ==
  ASSUME NEW launch \in Nat, NEW handoff \in Nat, launch % 2 = 0,
         ~InitialRefused(launch, handoff)
  PROVE  /\ \A i \in 1..4 : LET t == InitialTicks(launch, handoff)[i]
                            IN  t \in Nat /\ launch <= t /\ t < handoff /\ t % 2 = 0
         /\ \A i \in 1..3 :
              InitialTicks(launch, handoff)[i + 1] <= InitialTicks(launch, handoff)[i]
<1> DEFINE b == handoff - launch
           tick(n) == launch + 2 * ((b * n) \div 16)
<1>1. b \in Nat /\ b > 0
  BY DEF InitialRefused
<1>2. /\ InitialTicks(launch, handoff)[1] = tick(6)
      /\ InitialTicks(launch, handoff)[2] = tick(5)
      /\ InitialTicks(launch, handoff)[3] = tick(4)
      /\ InitialTicks(launch, handoff)[4] = tick(3)
  BY DEF InitialTicks, InitialTick
<1>3. /\ tick(6) \in Nat /\ tick(6) < handoff /\ tick(6) % 2 = 0
      /\ tick(5) \in Nat /\ tick(5) <= tick(6) /\ tick(5) % 2 = 0
      /\ tick(4) \in Nat /\ tick(4) <= tick(5) /\ tick(4) % 2 = 0
      /\ tick(3) \in Nat /\ launch <= tick(3) /\ tick(3) <= tick(4) /\ tick(3) % 2 = 0
  BY <1>1
<1> HIDE DEF tick
<1>4. \A i \in 1..4 : i = 1 \/ i = 2 \/ i = 3 \/ i = 4
  OBVIOUS
<1>5. \A i \in 1..4 : LET t == InitialTicks(launch, handoff)[i]
                      IN  t \in Nat /\ launch <= t /\ t < handoff /\ t % 2 = 0
  BY <1>2, <1>3, <1>4
<1>6. \A i \in 1..3 : InitialTicks(launch, handoff)[i + 1] <= InitialTicks(launch, handoff)[i]
  <2>1. \A i \in 1..3 : i = 1 \/ i = 2 \/ i = 3
    OBVIOUS
  <2> QED
    BY <1>2, <1>3, <2>1
<1> QED
  BY <1>5, <1>6

\* Segments that meet on the control clock own their commands exactly once: split anywhere on the
\* clock, the counts of the parts are the count of the whole, also where the whole ends on an odd
\* step (command_count; the replay proofs of execution.rs count segment by segment).
THEOREM CommandsOwnedOnce ==
  ASSUME NEW a \in Nat, NEW b \in Nat, NEW c \in Nat,
         a <= b, b <= c, a % 2 = 0, b % 2 = 0
  PROVE  CommandCount(a, c) = CommandCount(a, b) + CommandCount(b, c)
<1>1. PICK p \in Nat : a = 2 * p
  <2>1. a = 2 * (a \div 2) /\ a \div 2 \in Nat
    OBVIOUS
  <2> QED
    BY <2>1
<1>2. PICK q \in Nat : b = 2 * q
  <2>1. b = 2 * (b \div 2) /\ b \div 2 \in Nat
    OBVIOUS
  <2> QED
    BY <2>1
<1> QED
  BY <1>1, <1>2 DEF CommandCount

\* Whatever boundary a row hands over at, the schedule it saves is one its validator admits, if its
\* entry is on the clock and not the pad, its template's and its policy's phases are whole
\* commands, and the continuation ends by the deadline (search_row against
\* LocalClearingScheduleV1::validate).
THEOREM RowScheduleIsValid ==
  ASSUME NEW entry \in Nat, NEW powered \in Nat, NEW continuation \in Nat, NEW limit \in Nat,
         NEW maxCoast \in Nat, NEW k \in Nat,
         entry > 0, entry % 2 = 0, powered % 2 = 0, continuation % 2 = 0,
         k > 0, 2 * k <= maxCoast,
         entry + powered + 2 * k + continuation <= limit
  PROVE  ValidSchedule(RowSchedule(entry, powered, continuation, limit, k),
                       powered, maxCoast, continuation)
<1> DEFINE s == RowSchedule(entry, powered, continuation, limit, k)
<1>1. /\ s.entry = entry /\ s.poweredEnd = entry + powered
      /\ s.handoff = entry + powered + 2 * k
      /\ s.end = entry + powered + 2 * k + continuation
      /\ s.deadline = limit /\ s.updates = CommandCount(s.entry, s.end)
  BY DEF RowSchedule
<1>2. (entry + powered + 2 * k) % 2 = 0
  OBVIOUS
<1>3. CommandCount(s.entry, s.end) = (s.end - s.entry) \div 2
  <2>1. s.end - s.entry = powered + 2 * k + continuation
    BY <1>1
  <2>2. (powered + 2 * k + continuation + 1) \div 2 = (powered + 2 * k + continuation) \div 2
    OBVIOUS
  <2> QED
    BY <2>1, <2>2 DEF CommandCount
<1>4. ValidSchedule(s, powered, maxCoast, continuation)
  <2> HIDE DEF s
  <2> QED
    BY <1>1, <1>2, <1>3 DEF ValidSchedule
<1> QED
  BY <1>4

----------------------------------------------------------------------------
(* The inductive invariant of a search.                                     *)

Places == {"asked", "entry", "row", "chosen", "ended"}
EntryNames == [id : Nat, tick : Nat]
EntryStates == [id : Nat, tick : Nat, round : {0, 1}, admitted : BOOLEAN]
ProposedRows ==
  [id : Nat, tick : Nat, row : Nat, round : {0, 1}, fuel : Nat, room : Search!Rooms,
   handoff : Nat]

SearchTypes ==
  /\ query \in SearchScenario /\ place \in Places /\ round \in {0, 1} /\ rowCount \in Nat
  /\ queue \in Seq(EntryNames) /\ tried \in Seq(EntryStates) /\ accepted \subseteq ProposedRows

\* No boundary is tried, or waits to be tried, twice under one name; all are on the control
\* clock; one that is admitted is before the conflict, and none is the pad.
Waiting(ahead) ==
  /\ \A i \in DOMAIN ahead : ahead[i].tick % 2 = 0
  /\ \A i, j \in DOMAIN ahead : i # j => ahead[i].id # ahead[j].id
EntriesAreApart(conflict, pass, ahead, done) ==
  /\ \A i \in DOMAIN done : done[i].round <= pass
  /\ \A i, j \in DOMAIN done : i # j /\ done[i].round = done[j].round => done[i].id # done[j].id
  /\ \A i \in DOMAIN done, j \in DOMAIN ahead : done[i].round = pass => done[i].id # ahead[j].id
  /\ \A i \in DOMAIN done :
       done[i].admitted => done[i].tick > 0 /\ done[i].tick < conflict /\ done[i].tick % 2 = 0

\* Each pass has at most four entries; the second retries none of the first, and leaves none of
\* its clock out.
TicksIn(pass, done) == {done[i].tick : i \in {i \in DOMAIN done : done[i].round = pass}}
PassesAreApart(pass, ahead, done) ==
  /\ Len(done) + Len(ahead) <= IF pass = 0 THEN 4 ELSE 8
  /\ TicksIn(0, done) \cap TicksIn(1, done) = {}
  /\ pass = 1 => \A i \in DOMAIN ahead : ahead[i].tick \notin TicksIn(0, done)
FallbackClock == Search!FallbackTicks(query.current, query.conflict, Search!Horizon, {})
FallbackIsAhead(all, pass, ahead, done) ==
  pass = 1 => \A t \in all : \/ \E i \in DOMAIN done : done[i].tick = t
                             \/ \E i \in DOMAIN ahead : ahead[i].tick = t

\* Every entry but the one underway, which is of this pass, has had all its rows.
RowsAreCounted(at, rows, pass, done, count) ==
  /\ at = "asked" => done = <<>> /\ pass = 0
  /\ at = "row" => /\ done # <<>> /\ done[Len(done)].round = pass
                   /\ rows * (Len(done) - 1) <= count /\ count < rows * Len(done)
  /\ at \in {"entry", "chosen"} => count = rows * Len(done)
  /\ count <= rows * Len(done)

\* An accepted row belongs to an entry of this pass that was admitted, and was tried there; its
\* handoff is on one of its coast boundaries, in time.
RowOf(q, p, pass, done, count) ==
  \E i \in DOMAIN done :
    /\ done[i].id = p.id /\ done[i].tick = p.tick /\ done[i].round = pass /\ done[i].admitted
    /\ p.row \in DOMAIN q.powered
    /\ Len(q.powered) * (i - 1) + p.row <= count
InTime(q, p) ==
  \E k \in 1..(q.maxCoast \div 2) :
    /\ p.handoff = p.tick + q.powered[p.row] + 2 * k
    /\ p.handoff + q.continuation <= q.deadline
RowsAreApart(ps) == \A p, o \in ps : p.id = o.id /\ p.row = o.row => p = o
AcceptedOnce(q, pass, done, count, ps) ==
  /\ \A p \in ps : p.round = pass /\ RowOf(q, p, pass, done, count) /\ InTime(q, p)
  /\ RowsAreApart(ps)

\* The best of some rows, or nothing of none.
IsBest(p, ps) ==
  \/ ps = {} /\ p = Search!Nothing
  \/ p \in ps /\ \A o \in ps \ {p} : Search!Ranks(p, o)
Roomy(ps) == {p \in ps : p.room = "enough"}
ChosenOf(ps) ==
  IF Search!Best(ps).room = "short" /\ Roomy(ps) # {} THEN Search!Best(Roomy(ps))
  ELSE Search!Best(ps)
BestSoFar(at, result, ps, best, entry, alternative) ==
  /\ entry = best.tick
  /\ at \in {"asked", "entry", "row"} => IsBest(best, ps) /\ IsBest(alternative, Roomy(ps))
  /\ at = "chosen" \/ result = "Selected" => ps # {} /\ best \in ps /\ best = ChosenOf(ps)

OnRecord ==
  /\ place # "asked" /\ tried # <<>> =>
       kept = [entries |-> tried, rowCount |-> rowCount,
               accepted |-> Search!Cardinality(accepted), selected |-> selected]
  /\ failedRow # Search!Nothing =>
       place = "ended" /\ outcome = "Error" /\ failedRow.tick = Search!Entry.tick
  /\ outcome # "None" => place = "ended"
  /\ outcome = "NoClearing" =>
       round = 1 /\ queue = <<>> /\ accepted = {} /\ rowCount = Len(query.powered) * Len(tried)

EntriesHold(conflict, all, pass, ahead, done) ==
  /\ Waiting(ahead) /\ EntriesAreApart(conflict, pass, ahead, done)
  /\ PassesAreApart(pass, ahead, done) /\ FallbackIsAhead(all, pass, ahead, done)
EntriesInv == EntriesHold(query.conflict, FallbackClock, round, queue, tried)
RowsInv ==
  /\ RowsAreCounted(place, Len(query.powered), round, tried, rowCount)
  /\ AcceptedOnce(query, round, tried, rowCount, accepted)
SearchInv ==
  /\ SearchTypes /\ EntriesInv /\ RowsInv
  /\ BestSoFar(place, outcome, accepted, selected, selectedEntry, roomy)
  /\ OnRecord
SearchInvariant == setting = "search" => SearchInv

----------------------------------------------------------------------------
(* The order the rows of a search are ranked in.                            *)

\* local_rank, spelt out: the latest entry, the earliest handoff, the least fuel, the name.
Before(a, b) ==
  \/ b.tick < a.tick
  \/ /\ a.tick = b.tick
     /\ \/ a.handoff < b.handoff
        \/ /\ a.handoff = b.handoff
           /\ \/ a.fuel < b.fuel
              \/ /\ a.fuel = b.fuel
                 /\ a.id < b.id \/ (a.id = b.id /\ a.row < b.row)

\* The rank compares field by field, the first that differs deciding.
LEMMA RankIsLexicographic ==
  ASSUME NEW a \in ProposedRows, NEW b \in ProposedRows
  PROVE  Search!Ranks(a, b) <=> Before(a, b)
<1> DEFINE key(p) == <<-p.tick, p.handoff, p.fuel, p.id, p.row>>
           first(i) == key(a)[i] < key(b)[i] /\ \A j \in 1..(i - 1) : key(a)[j] = key(b)[j]
<1>1. Search!Ranks(a, b) <=> \E i \in 1..5 : first(i)
  BY DEF Search!Ranks
<1>2. /\ a.tick \in Nat /\ a.handoff \in Nat /\ a.fuel \in Nat /\ a.id \in Nat /\ a.row \in Nat
      /\ b.tick \in Nat /\ b.handoff \in Nat /\ b.fuel \in Nat /\ b.id \in Nat /\ b.row \in Nat
  BY DEF ProposedRows
<1>3. /\ key(a)[1] = -a.tick /\ key(a)[2] = a.handoff /\ key(a)[3] = a.fuel
      /\ key(a)[4] = a.id /\ key(a)[5] = a.row
      /\ key(b)[1] = -b.tick /\ key(b)[2] = b.handoff /\ key(b)[3] = b.fuel
      /\ key(b)[4] = b.id /\ key(b)[5] = b.row
  OBVIOUS
<1> HIDE DEF key
<1>4. first(1) <=> b.tick < a.tick
  BY <1>2, <1>3
<1>5. first(2) <=> a.handoff < b.handoff /\ a.tick = b.tick
  <2>1. \A j \in 1..(2 - 1) : j = 1
    OBVIOUS
  <2>2. 1 \in 1..(2 - 1)
    OBVIOUS
  <2> QED BY <1>2, <1>3, <2>1, <2>2
<1>6. first(3) <=> a.fuel < b.fuel /\ a.handoff = b.handoff /\ a.tick = b.tick
  <2>1. \A j \in 1..(3 - 1) : j = 1 \/ j = 2
    OBVIOUS
  <2>2. 1 \in 1..(3 - 1) /\ 2 \in 1..(3 - 1)
    OBVIOUS
  <2> QED BY <1>2, <1>3, <2>1, <2>2
<1>7. first(4) <=> /\ a.id < b.id /\ a.fuel = b.fuel /\ a.handoff = b.handoff
                   /\ a.tick = b.tick
  <2>1. \A j \in 1..(4 - 1) : j = 1 \/ j = 2 \/ j = 3
    OBVIOUS
  <2>2. 1 \in 1..(4 - 1) /\ 2 \in 1..(4 - 1) /\ 3 \in 1..(4 - 1)
    OBVIOUS
  <2> QED BY <1>2, <1>3, <2>1, <2>2
<1>8. first(5) <=> /\ a.row < b.row /\ a.id = b.id /\ a.fuel = b.fuel
                   /\ a.handoff = b.handoff /\ a.tick = b.tick
  <2>1. \A j \in 1..(5 - 1) : j = 1 \/ j = 2 \/ j = 3 \/ j = 4
    OBVIOUS
  <2>2. 1 \in 1..(5 - 1) /\ 2 \in 1..(5 - 1) /\ 3 \in 1..(5 - 1) /\ 4 \in 1..(5 - 1)
    OBVIOUS
  <2> QED BY <1>2, <1>3, <2>1, <2>2
<1> HIDE DEF first
<1>9. (\E i \in 1..5 : first(i)) <=> first(1) \/ first(2) \/ first(3) \/ first(4) \/ first(5)
  <2>1. \A i \in 1..5 : i = 1 \/ i = 2 \/ i = 3 \/ i = 4 \/ i = 5
    OBVIOUS
  <2>2. 1 \in 1..5 /\ 2 \in 1..5 /\ 3 \in 1..5 /\ 4 \in 1..5 /\ 5 \in 1..5
    OBVIOUS
  <2> QED BY <2>1, <2>2
<1> QED
  BY <1>1, <1>2, <1>4, <1>5, <1>6, <1>7, <1>8, <1>9 DEF Before

\* It is a strict order, and decides between any two rows that differ in entry or template.
LEMMA RanksAreAnOrder ==
  ASSUME NEW a \in ProposedRows, NEW b \in ProposedRows, NEW c \in ProposedRows
  PROVE  /\ Search!Ranks(a, b) => ~Search!Ranks(b, a)
         /\ Search!Ranks(a, b) /\ Search!Ranks(b, c) => Search!Ranks(a, c)
         /\ a.id # b.id \/ a.row # b.row => Search!Ranks(a, b) \/ Search!Ranks(b, a)
<1>1. /\ Search!Ranks(a, b) <=> Before(a, b)
      /\ Search!Ranks(b, a) <=> Before(b, a)
      /\ Search!Ranks(b, c) <=> Before(b, c)
      /\ Search!Ranks(a, c) <=> Before(a, c)
  BY RankIsLexicographic
<1>2. /\ a.tick \in Nat /\ a.handoff \in Nat /\ a.fuel \in Nat /\ a.id \in Nat /\ a.row \in Nat
      /\ b.tick \in Nat /\ b.handoff \in Nat /\ b.fuel \in Nat /\ b.id \in Nat /\ b.row \in Nat
      /\ c.tick \in Nat /\ c.handoff \in Nat /\ c.fuel \in Nat /\ c.id \in Nat /\ c.row \in Nat
  BY DEF ProposedRows
<1>3. Before(a, b) => ~Before(b, a)
  BY <1>2 DEF Before
<1>4. Before(a, b) /\ Before(b, c) => Before(a, c)
  BY <1>2 DEF Before
<1>5. a.id # b.id \/ a.row # b.row => Before(a, b) \/ Before(b, a)
  BY <1>2 DEF Before
<1> QED
  BY <1>1, <1>3, <1>4, <1>5

\* Nothing is no row, and no row is nothing.
LEMMA NothingIsNoRow ==
  ASSUME NEW p \in ProposedRows
  PROVE  p # Search!Nothing /\ Search!Nothing.tick = Search!NoSource /\ p.tick # Search!NoSource
<1>1. p.tick \in Nat
  BY DEF ProposedRows
<1>2. Search!Nothing.tick = -1 /\ Search!NoSource = -1
  BY DEF Search!Nothing, Search!NoSource
<1> QED
  BY <1>1, <1>2

\* There is one best row, so what is best is what Best chooses.
LEMMA BestIsUnique ==
  ASSUME NEW ps \in SUBSET ProposedRows, NEW p \in ps, IsBest(p, ps)
  PROVE  Search!Best(ps) = p
<1> DEFINE best(x) == \A o \in ps \ {x} : Search!Ranks(x, o)
<1>1. p # Search!Nothing
  BY NothingIsNoRow
<1>2. best(p)
  BY <1>1 DEF IsBest
<1>3. ASSUME NEW o \in ps, best(o) PROVE o = p
  <2> SUFFICES ASSUME o # p PROVE FALSE
    OBVIOUS
  <2>1. Search!Ranks(p, o) /\ Search!Ranks(o, p)
    BY <1>2, <1>3
  <2>2. o \in ProposedRows /\ p \in ProposedRows
    OBVIOUS
  <2> QED
    BY <2>1, <2>2, RanksAreAnOrder
<1>4. Search!Best(ps) = CHOOSE x \in ps : best(x)
  BY DEF Search!Best
<1> HIDE DEF best
<1> QED
  BY <1>2, <1>3, <1>4

\* One more row: the better of it and the best so far is the best.
LEMMA BetterOfTwo ==
  ASSUME NEW ps \in SUBSET ProposedRows, NEW p \in ProposedRows, NEW best,
         RowsAreApart(ps \cup {p}), IsBest(best, ps)
  PROVE  /\ best = Search!Nothing \/ Search!Ranks(p, best) => IsBest(p, ps \cup {p})
         /\ ~(best = Search!Nothing \/ Search!Ranks(p, best)) => IsBest(best, ps \cup {p})
<1>1. CASE ps = {}
  <2>1. best = Search!Nothing
    BY <1>1 DEF IsBest
  <2>2. IsBest(p, ps \cup {p})
    BY <1>1 DEF IsBest
  <2> QED
    BY <2>1, <2>2
<1>2. CASE ps # {}
  <2>1. best \in ps /\ best \in ProposedRows /\ \A o \in ps \ {best} : Search!Ranks(best, o)
    BY <1>2 DEF IsBest
  <2>2. best # Search!Nothing
    BY <2>1, NothingIsNoRow
  <2>3. ASSUME Search!Ranks(p, best) PROVE IsBest(p, ps \cup {p})
    <3>1. ASSUME NEW o \in (ps \cup {p}) \ {p} PROVE Search!Ranks(p, o)
      <4>1. o \in ps /\ o \in ProposedRows
        BY <3>1
      <4>2. CASE o = best
        BY <2>3, <4>2
      <4>3. CASE o # best
        <5>1. Search!Ranks(best, o)
          BY <2>1, <4>1, <4>3
        <5> QED
          BY <2>1, <2>3, <4>1, <5>1, RanksAreAnOrder
      <4> QED BY <4>2, <4>3
    <3> QED
      BY <3>1 DEF IsBest
  <2>4. ASSUME ~Search!Ranks(p, best) PROVE IsBest(best, ps \cup {p})
    <3>1. ASSUME NEW o \in (ps \cup {p}) \ {best} PROVE Search!Ranks(best, o)
      <4>1. CASE o \in ps
        BY <2>1, <3>1, <4>1
      <4>2. CASE o = p
        <5>1. p # best
          BY <3>1, <4>2
        <5>2. p.id # best.id \/ p.row # best.row
          BY <2>1, <5>1 DEF RowsAreApart
        <5> QED
          BY <2>1, <2>4, <4>2, <5>2, RanksAreAnOrder
      <4> QED BY <3>1, <4>1, <4>2
    <3> QED
      BY <2>1, <3>1 DEF IsBest
  <2> QED
    BY <2>2, <2>3, <2>4
<1> QED BY <1>1, <1>2

----------------------------------------------------------------------------
(* The boundaries of a pass, in order.                                      *)

\* The search counts as the library does, and its clock rules are the clock rules.
LEMMA SearchClocks ==
  /\ \A S : Search!Cardinality(S) = Cardinality(S)
  /\ \A a, b : Search!LaterTicks(a, b) = LaterTicks(a, b)
  /\ \A a, b : Search!LaterRefused(a, b) <=> LaterRefused(a, b)
  /\ \A a, b : Search!FallbackRefused(a, b) <=> FallbackRefused(a, b)
  /\ \A a, b, h, s : Search!FallbackTicks(a, b, h, s) = FallbackTicks(a, b, h, s)
  /\ \A a, b : Search!InitialTicks(a, b) = InitialTicks(a, b)
  /\ \A a, b : Search!InitialRefused(a, b) <=> InitialRefused(a, b)
<1>1. \A S : Search!Cardinality(S) = Cardinality(S)
  BY DEF Search!Cardinality, Cardinality
<1>2. \A a, b, n : Search!Quarter(a, b, n) = Quarter(a, b, n)
  BY DEF Search!Quarter, Quarter, Search!Eighths, Eighths
<1>3. \A a, b : Search!LaterTicks(a, b) = LaterTicks(a, b)
  BY <1>2 DEF Search!LaterTicks, LaterTicks
<1>4. \A a, b, h : Search!FallbackStart(a, b, h) = FallbackStart(a, b, h)
  BY DEF Search!FallbackStart, FallbackStart
<1>5. \A a, b, h, s : Search!FallbackTicks(a, b, h, s) = FallbackTicks(a, b, h, s)
  BY <1>3, <1>4 DEF Search!FallbackTicks, FallbackTicks
<1>6. \A a, b : Search!LaterRefused(a, b) <=> LaterRefused(a, b)
  BY DEF Search!LaterRefused, LaterRefused
<1>7. \A a, b : Search!FallbackRefused(a, b) <=> FallbackRefused(a, b)
  BY DEF Search!FallbackRefused, FallbackRefused
<1>8. \A a, b : Search!InitialTicks(a, b) = InitialTicks(a, b)
  BY DEF Search!InitialTicks, InitialTicks, Search!InitialTick, InitialTick
<1>9. \A a, b : Search!InitialRefused(a, b) <=> InitialRefused(a, b)
  BY DEF Search!InitialRefused, InitialRefused
<1> QED
  BY <1>1, <1>3, <1>5, <1>6, <1>7, <1>8, <1>9

\* A clock of quarters has at most four boundaries.
LEMMA FourQuarters ==
  ASSUME NEW from, NEW conflict
  PROVE  /\ IsFiniteSet(LaterTicks(from, conflict))
         /\ Cardinality(LaterTicks(from, conflict)) \in Nat
         /\ Cardinality(LaterTicks(from, conflict)) <= 4
<1> DEFINE quarter == [n \in 0..3 |-> Quarter(from, conflict, n)]
           all == {quarter[n] : n \in 0..3}
           some == LaterTicks(from, conflict)
<1>1. IsFiniteSet(0..3) /\ Cardinality(0..3) = 4
  <2>1. /\ IsFiniteSet(0..3)
        /\ Cardinality(0..3) = IF 0 > 3 THEN 0 ELSE 3 - 0 + 1
    BY 0 \in Int, 3 \in Int, FS_Interval
  <2> QED BY <2>1
<1>2. quarter \in Surjection(0..3, all)
  BY DEF Surjection
<1>3. IsFiniteSet(all) /\ Cardinality(all) <= 4
  BY <1>1, <1>2, FS_Surjection
<1>4. some \in SUBSET all
  BY DEF LaterTicks
<1> HIDE DEF all, some, quarter
<1>5. IsFiniteSet(some) /\ Cardinality(some) <= Cardinality(all)
  BY <1>3, <1>4, FS_Subset
<1>6. Cardinality(some) \in Nat /\ Cardinality(all) \in Nat
  BY <1>3, <1>5, FS_CardinalityType
<1> QED
  BY <1>3, <1>5, <1>6 DEF some

\* A finite set of naturals can be written in increasing order, which leaves none of it out: a
\* member's place is the number of members up to it.
LEMMA FiniteSetsAreOrdered ==
  ASSUME NEW S \in SUBSET Nat, IsFiniteSet(S)
  PROVE  \E s \in [1..Cardinality(S) -> S] : \A i, j \in DOMAIN s : i < j => s[i] < s[j]
<1> DEFINE n == Cardinality(S)
           upTo(x) == {y \in S : y <= x}
           rank == [x \in S |-> Cardinality(upTo(x))]
<1>1. n \in Nat
  BY FS_CardinalityType
<1>2. ASSUME NEW x \in S PROVE /\ IsFiniteSet(upTo(x)) /\ rank[x] \in 1..n
                               /\ rank[x] = Cardinality(upTo(x))
  <2>1. upTo(x) \in SUBSET S
    OBVIOUS
  <2>2. IsFiniteSet(upTo(x)) /\ Cardinality(upTo(x)) <= n
    BY <2>1, FS_Subset
  <2>3. x \in upTo(x)
    OBVIOUS
  <2> HIDE DEF upTo
  <2>4. Cardinality(upTo(x)) \in Nat /\ Cardinality(upTo(x)) # 0
    BY <2>2, <2>3, FS_CardinalityType, FS_EmptySet
  <2> QED
    BY <1>1, <2>2, <2>4
<1>3. ASSUME NEW x \in S, NEW y \in S, x < y PROVE rank[x] < rank[y]
  <2>1. upTo(x) \in SUBSET upTo(y)
    <3>1. \A z \in S : z \in Nat /\ x \in Nat /\ y \in Nat
      OBVIOUS
    <3>2. \A z \in S : z <= x => z <= y
      BY <1>3, <3>1
    <3> QED BY <3>2
  <2>2. y \in upTo(y) /\ y \notin upTo(x)
    BY <1>3
  <2> HIDE DEF upTo
  <2>3. Cardinality(upTo(x)) <= Cardinality(upTo(y)) /\ Cardinality(upTo(x)) # Cardinality(upTo(y))
    BY <1>2, <2>1, <2>2, FS_Subset
  <2>4. rank[x] \in 1..n /\ rank[y] \in 1..n
        /\ rank[x] = Cardinality(upTo(x)) /\ rank[y] = Cardinality(upTo(y))
    BY <1>2
  <2> HIDE DEF rank
  <2> QED
    BY <1>1, <2>3, <2>4
<1> HIDE DEF rank, upTo
<1>4. rank \in [S -> 1..n]
  <2>1. rank = [x \in S |-> Cardinality(upTo(x))]
    BY DEF rank
  <2> QED
    BY <1>2, <2>1
<1>5. rank \in Injection(S, 1..n)
  <2>1. \A x, y \in S : rank[x] = rank[y] => x = y
    <3> SUFFICES ASSUME NEW x \in S, NEW y \in S, rank[x] = rank[y], x # y PROVE FALSE
      OBVIOUS
    <3>1. x < y \/ y < x
      OBVIOUS
    <3>2. rank[x] \in 1..n /\ rank[y] \in 1..n
      BY <1>2
    <3>3. rank[x] < rank[y] \/ rank[y] < rank[x]
      BY <1>3, <3>1
    <3> QED
      BY <1>1, <3>2, <3>3
  <2> QED
    BY <1>4, <2>1 DEF Injection, IsInjective
<1>6. rank \in Surjection(S, 1..n)
  <2>1. IsFiniteSet(1..n) /\ Cardinality(1..n) = n
    BY <1>1, FS_Interval
  <2> QED
    BY <1>5, <2>1, FS_Injection
<1>7. \A k \in 1..n : \E x \in S : rank[x] = k
  BY <1>6 DEF Surjection
<1> DEFINE s == [k \in 1..n |-> CHOOSE x \in S : rank[x] = k]
<1>8. \A k \in 1..n : s[k] \in S /\ rank[s[k]] = k
  BY <1>7
<1>9. s \in [1..n -> S] /\ DOMAIN s = 1..n
  BY <1>8
<1>10. ASSUME NEW i \in 1..n, NEW j \in 1..n, i < j PROVE s[i] < s[j]
  <2>1. s[i] \in S /\ s[j] \in S /\ rank[s[i]] = i /\ rank[s[j]] = j
    BY <1>8
  <2> HIDE DEF s
  <2>2. s[i] < s[j] \/ s[i] = s[j] \/ s[j] < s[i]
    <3>1. s[i] \in Nat /\ s[j] \in Nat
      BY <2>1
    <3> QED BY <3>1
  <2>3. s[j] < s[i] => rank[s[j]] < rank[s[i]]
    BY <1>3, <2>1
  <2> QED
    BY <1>1, <1>10, <2>1, <2>2, <2>3
<1> HIDE DEF s
<1> QED
  BY <1>9, <1>10

\* The sorted boundaries are those of the set, each once.
LEMMA SortedIsAll ==
  ASSUME NEW S \in SUBSET Nat, IsFiniteSet(S)
  PROVE  /\ Cardinality(S) \in Nat
         /\ Search!Sorted(S) \in [1..Cardinality(S) -> S]
         /\ \A t \in S : \E i \in 1..Cardinality(S) : Search!Sorted(S)[i] = t
<1> DEFINE n == Cardinality(S)
           s == Search!Sorted(S)
           grows(f) == \A i, j \in DOMAIN f : i < j => f[i] < f[j]
<1>1. n \in Nat
  BY FS_CardinalityType
<1>2. s = CHOOSE f \in [1..n -> S] : grows(f)
  BY SearchClocks DEF Search!Sorted
<1>3. \E f \in [1..n -> S] : grows(f)
  BY FiniteSetsAreOrdered
<1> HIDE DEF s
<1>4. s \in [1..n -> S] /\ grows(s)
  BY <1>2, <1>3
<1>5. s \in Injection(1..n, S)
  <2>1. \A i, j \in 1..n : s[i] = s[j] => i = j
    <3> SUFFICES ASSUME NEW i \in 1..n, NEW j \in 1..n, s[i] = s[j], i # j PROVE FALSE
      OBVIOUS
    <3>1. s[i] \in Nat /\ s[j] \in Nat /\ DOMAIN s = 1..n
      BY <1>4
    <3>2. i < j \/ j < i
      BY <1>1
    <3>3. s[i] < s[j] \/ s[j] < s[i]
      BY <1>4, <3>1, <3>2
    <3> QED
      BY <3>1, <3>3
  <2> QED
    BY <1>4, <2>1 DEF Injection, IsInjective
<1>6. s \in Surjection(1..n, S)
  <2>1. Cardinality(1..n) = n
    BY <1>1, FS_Interval
  <2> QED
    BY <1>5, <2>1, FS_Injection
<1>7. \A t \in S : \E i \in 1..n : s[i] = t
  BY <1>6 DEF Surjection
<1> QED
  BY <1>1, <1>4, <1>7 DEF s

\* The entries of a clock: one for each boundary, under a name of its own.
LEMMA AscendingEntries ==
  ASSUME NEW S \in SUBSET Nat, IsFiniteSet(S), NEW ahead, ahead = Search!Ascending(S)
  PROVE  /\ ahead \in Seq(EntryNames) /\ Len(ahead) = Cardinality(S)
         /\ \A i \in DOMAIN ahead : ahead[i].id = i /\ ahead[i].tick \in S
         /\ \A t \in S : \E i \in DOMAIN ahead : ahead[i].tick = t
<1> DEFINE n == Cardinality(S)
           s == Search!Sorted(S)
<1>1. n \in Nat /\ s \in [1..n -> S] /\ \A t \in S : \E i \in 1..n : s[i] = t
  BY SortedIsAll
<1>2. ahead = [i \in DOMAIN s |-> [id |-> i, tick |-> s[i]]]
  BY DEF Search!Ascending, Search!Named
<1>3. DOMAIN s = 1..n
  BY <1>1
<1>4. ahead = [i \in 1..n |-> [id |-> i, tick |-> s[i]]]
  BY <1>2, <1>3
<1> HIDE DEF s, n
<1>5. ASSUME NEW i \in 1..n PROVE i \in Nat /\ s[i] \in S /\ s[i] \in Nat
  <2>1. s[i] \in S
    BY <1>1
  <2>2. s[i] \in Nat
    BY <2>1
  <2>3. i \in Nat
    OBVIOUS
  <2> QED BY <2>1, <2>2, <2>3
<1>6. ASSUME NEW i \in 1..n
      PROVE  ahead[i].id = i /\ ahead[i].tick = s[i] /\ ahead[i] \in EntryNames
  <2>1. ahead[i] = [id |-> i, tick |-> s[i]]
    BY <1>4
  <2> QED BY <1>5, <2>1 DEF EntryNames
<1>7. DOMAIN ahead = 1..n
  BY <1>4
<1>8. ahead \in [1..n -> EntryNames]
  BY <1>4, <1>6, <1>7
<1>9. ahead \in Seq(EntryNames) /\ Len(ahead) = n
  BY <1>1, <1>7, <1>8
<1> QED
  BY <1>1, <1>5, <1>6, <1>7, <1>9 DEF n

----------------------------------------------------------------------------
(* A pass and its entries.                                                  *)

\* What every query of a scenario keeps to.
LEMMA QueryIsSound ==
  ASSUME NEW q \in SearchScenario
  PROVE  /\ q.current \in Nat /\ q.conflict \in Nat /\ q.deadline \in Nat
         /\ q.current % 2 = 0
         /\ q.source \in Nat \cup {Search!NoSource}
         /\ (q.source = Search!NoSource) <=> (q.current > 0)
         /\ q.powered \in Seq(Nat \ {0}) /\ Len(q.powered) \in Nat \ {0}
         /\ \A i \in DOMAIN q.powered : q.powered[i] \in Nat \ {0} /\ q.powered[i] % 2 = 0
         /\ q.maxCoast \in Nat \ {0} /\ q.continuation \in Nat \ {0} /\ q.launchHold \in Nat \ {0}
         /\ q.maxCoast % 2 = 0 /\ q.continuation % 2 = 0 /\ q.launchHold % 2 = 0
         /\ q.fuels \subseteq Nat
<1>1. /\ {q.current, q.conflict, q.deadline} \subseteq Nat
      /\ q.current % 2 = 0
      /\ q.source \in Nat \cup {Search!NoSource}
      /\ (q.source = Search!NoSource) <=> (q.current > 0)
      /\ q.powered \in Seq(Nat \ {0}) /\ q.powered # <<>>
      /\ \A i \in DOMAIN q.powered : q.powered[i] % 2 = 0
      /\ {q.maxCoast, q.continuation, q.launchHold} \subseteq Nat \ {0}
      /\ q.maxCoast % 2 = 0 /\ q.continuation % 2 = 0 /\ q.launchHold % 2 = 0
      /\ q.fuels \subseteq Nat
  BY SearchesAssumption, Zenon DEF Search!SearchAssumption
<1>2. /\ Len(q.powered) \in Nat \ {0}
      /\ \A i \in DOMAIN q.powered : q.powered[i] \in Nat \ {0}
  BY <1>1
<1> QED
  BY <1>1, <1>2

\* The templates' longest powered phase is one of theirs, so the horizon is a positive one.
LEMMA HorizonIsPositive ==
  ASSUME query \in SearchScenario
  PROVE  Search!Horizon \in Nat /\ Search!Horizon > 0
<1> DEFINE q == query
           phases == {q.powered[i] : i \in DOMAIN q.powered}
           longest(p) == \A i \in DOMAIN q.powered : q.powered[i] <= p
<1>1. /\ q.maxCoast \in Nat \ {0} /\ Len(q.powered) \in Nat \ {0}
      /\ q.powered \in Seq(Nat \ {0})
      /\ \A i \in DOMAIN q.powered : q.powered[i] \in Nat \ {0}
  BY QueryIsSound
<1>2. IsFiniteSet(phases) /\ phases # {} /\ phases \subseteq Nat \ {0}
  <2> DEFINE n == Len(q.powered)
             phase == [i \in 1..n |-> q.powered[i]]
  <2>1. DOMAIN q.powered = 1..n /\ n \in Nat \ {0}
    BY <1>1
  <2>2. IsFiniteSet(1..n)
    BY <2>1, FS_Interval
  <2>3. phase \in Surjection(1..n, phases)
    BY <2>1 DEF Surjection
  <2>4. IsFiniteSet(phases)
    BY <2>2, <2>3, FS_Surjection
  <2>5. 1 \in DOMAIN q.powered
    BY <2>1
  <2>6. phases # {} /\ phases \subseteq Nat \ {0}
    BY <1>1, <2>5
  <2> QED
    BY <2>4, <2>6
<1>3. \E p \in phases : longest(p)
  <2> DEFINE n == Cardinality(phases)
             s == Search!Sorted(phases)
  <2>1. phases \in SUBSET Nat
    BY <1>2
  <2>2. n \in Nat /\ n # 0
    BY <1>2, FS_CardinalityType, FS_EmptySet
  <2> HIDE DEF phases
  <2>3. \E f \in [1..n -> phases] : \A i, j \in DOMAIN f : i < j => f[i] < f[j]
    BY <1>2, <2>1, FiniteSetsAreOrdered
  <2>4. s = CHOOSE f \in [1..n -> phases] : \A i, j \in DOMAIN f : i < j => f[i] < f[j]
    BY SearchClocks DEF Search!Sorted
  <2>5. s \in [1..n -> phases] /\ \A i, j \in 1..n : i < j => s[i] < s[j]
    BY <2>3, <2>4
  <2>6. \A t \in phases : \E i \in 1..n : s[i] = t
    BY <1>2, <2>1, SortedIsAll
  <2> HIDE DEF s, n
  <2>7. n \in 1..n /\ s[n] \in phases
    BY <2>2, <2>5
  <2>8. ASSUME NEW t \in phases PROVE t <= s[n]
    <3>1. PICK i \in 1..n : s[i] = t
      BY <2>6
    <3>2. s[i] \in Nat /\ s[n] \in Nat
      BY <2>1, <2>7, <3>1
    <3>3. CASE i = n
      BY <3>1, <3>2, <3>3
    <3>4. CASE i < n
      BY <2>5, <2>7, <3>1, <3>2, <3>4
    <3>5. i \in Nat /\ i <= n /\ n \in Nat
      BY <2>2
    <3> QED BY <3>3, <3>4, <3>5
  <2>9. \A i \in DOMAIN q.powered : q.powered[i] \in phases
    BY DEF phases
  <2> QED
    BY <2>7, <2>8, <2>9
<1>4. Search!Horizon = q.maxCoast + (CHOOSE p \in phases : longest(p))
  BY DEF Search!Horizon, Search!MaxCoast, Search!Powered
<1> DEFINE top == CHOOSE p \in phases : longest(p)
<1>5. top \in phases
  <2> HIDE DEF longest, phases
  <2> QED BY <1>3
<1> HIDE DEF top, phases
<1>6. top \in Nat \ {0}
  BY <1>2, <1>5
<1>7. Search!Horizon = q.maxCoast + top
  BY <1>4 DEF top, phases
<1> QED
  BY <1>1, <1>6, <1>7

\* The first pass: at most four boundaries, each with a name of its own, on the control clock.
LEMMA PrimaryPass ==
  ASSUME query \in SearchScenario, ~Search!PrimaryRefused,
         NEW ahead, ahead = Search!PrimaryEntries
  PROVE  ahead \in Seq(EntryNames) /\ Len(ahead) <= 4 /\ Waiting(ahead)
<1> DEFINE q == query
<1>1. /\ q.current \in Nat /\ q.conflict \in Nat
      /\ q.source \in Nat \cup {Search!NoSource}
      /\ q.launchHold \in Nat /\ q.launchHold % 2 = 0
  BY QueryIsSound
<1>2. CASE q.source = Search!NoSource
  <2> DEFINE ticks == LaterTicks(q.current, q.conflict)
  <2>1. ahead = Search!Ascending(ticks)
    BY <1>2, SearchClocks DEF Search!PrimaryEntries
  <2>2. ~LaterRefused(q.current, q.conflict)
    BY <1>2, SearchClocks DEF Search!PrimaryRefused
  <2>3. \A t \in ticks : t \in Nat /\ t % 2 = 0
    BY <1>1, <2>2, LaterEntriesAhead
  <2>4. ticks \in SUBSET Nat
    BY <2>3
  <2>5. IsFiniteSet(ticks) /\ Cardinality(ticks) <= 4
    BY FourQuarters
  <2> HIDE DEF ticks
  <2>6. /\ ahead \in Seq(EntryNames) /\ Len(ahead) = Cardinality(ticks)
        /\ \A i \in DOMAIN ahead : ahead[i].id = i /\ ahead[i].tick \in ticks
    BY <2>1, <2>4, <2>5, AscendingEntries
  <2> QED
    BY <2>3, <2>5, <2>6 DEF Waiting
<1>3. CASE q.source # Search!NoSource
  <2> DEFINE ticks == InitialTicks(q.launchHold, q.source)
  <2>1. ahead = [i \in DOMAIN ticks |-> [id |-> 5 - i, tick |-> ticks[i]]]
    BY <1>3, SearchClocks DEF Search!PrimaryEntries, Search!Named, Search!LaunchHold
  <2>2. q.source \in Nat /\ ~InitialRefused(q.launchHold, q.source)
    BY <1>1, <1>3, SearchClocks DEF Search!PrimaryRefused, Search!LaunchHold
  <2>3. DOMAIN ticks = 1..4
    BY DEF InitialTicks
  <2>4. \A i \in 1..4 : ticks[i] \in Nat /\ ticks[i] % 2 = 0
    BY <1>1, <2>2, InitialEntriesOnTheWay
  <2> HIDE DEF ticks
  <2>5. ahead = [i \in 1..4 |-> [id |-> 5 - i, tick |-> ticks[i]]]
    BY <2>1, <2>3
  <2>6. ASSUME NEW i \in 1..4
        PROVE  ahead[i].id = 5 - i /\ ahead[i].tick = ticks[i] /\ ahead[i] \in EntryNames
    <3>1. ahead[i] = [id |-> 5 - i, tick |-> ticks[i]]
      BY <2>5
    <3>2. 5 - i \in Nat
      OBVIOUS
    <3> QED BY <2>4, <3>1, <3>2 DEF EntryNames
  <2>7. DOMAIN ahead = 1..4
    BY <2>5
  <2>8. ahead \in [1..4 -> EntryNames]
    BY <2>5, <2>6, <2>7
  <2>9. ahead \in Seq(EntryNames) /\ Len(ahead) = 4
    <3>1. \A n \in Nat : \A s \in [1..n -> EntryNames] : s \in Seq(EntryNames) /\ Len(s) = n
      OBVIOUS
    <3> QED BY 4 \in Nat, <2>8, <3>1
  <2>10. \A i, j \in 1..4 : i # j => 5 - i # 5 - j
    OBVIOUS
  <2> QED
    BY <2>4, <2>6, <2>7, <2>9, <2>10 DEF Waiting
<1> QED BY <1>2, <1>3

\* The second pass: what the first has not tested of the fallback's clock, all of it.
LEMMA FallbackPass ==
  ASSUME query \in SearchScenario,
         ~Search!FallbackRefused(query.current, query.conflict),
         NEW ahead, ahead = Search!FallbackEntries
  PROVE  /\ ahead \in Seq(EntryNames) /\ Len(ahead) <= 4 /\ Waiting(ahead)
         /\ \A i \in DOMAIN ahead : ahead[i].tick \notin Search!Tested
         /\ \A t \in FallbackClock :
              t \in Search!Tested \/ \E i \in DOMAIN ahead : ahead[i].tick = t
<1> DEFINE q == query
           ticks == FallbackTicks(q.current, q.conflict, Search!Horizon, Search!Tested)
           all == FallbackTicks(q.current, q.conflict, Search!Horizon, {})
           clock == LaterTicks(FallbackStart(q.current, q.conflict, Search!Horizon), q.conflict)
<1>1. q.current \in Nat /\ q.conflict \in Nat
  BY QueryIsSound
<1>2. ~FallbackRefused(q.current, q.conflict)
  BY SearchClocks
<1>3. Search!Horizon \in Nat /\ Search!Horizon > 0
  BY HorizonIsPositive
<1>4. \A t \in ticks : t \in Nat /\ t % 2 = 0 /\ t \notin Search!Tested
  BY <1>1, <1>2, <1>3, FallbackEntriesBounded
<1>5. ticks = clock \ Search!Tested /\ all = clock
  BY DEF FallbackTicks
<1>6. ahead = Search!Ascending(ticks)
  BY SearchClocks DEF Search!FallbackEntries
<1>7. FallbackClock = all
  BY SearchClocks DEF FallbackClock
<1>8. IsFiniteSet(clock) /\ Cardinality(clock) \in Nat /\ Cardinality(clock) <= 4
  BY FourQuarters
<1> HIDE DEF clock, ticks, all
<1>9. IsFiniteSet(ticks) /\ Cardinality(ticks) <= Cardinality(clock) /\ Cardinality(ticks) \in Nat
  <2>1. ticks \in SUBSET clock
    BY <1>5
  <2>2. IsFiniteSet(ticks) /\ Cardinality(ticks) <= Cardinality(clock)
    BY <1>8, <2>1, FS_Subset
  <2> QED BY <2>2, FS_CardinalityType
<1>10. ticks \in SUBSET Nat
  BY <1>4
<1>11. /\ ahead \in Seq(EntryNames) /\ Len(ahead) = Cardinality(ticks)
       /\ \A i \in DOMAIN ahead : ahead[i].id = i /\ ahead[i].tick \in ticks
       /\ \A t \in ticks : \E i \in DOMAIN ahead : ahead[i].tick = t
  BY <1>6, <1>9, <1>10, AscendingEntries
<1>12. Len(ahead) <= 4
  BY <1>8, <1>9, <1>11
<1>13. Waiting(ahead) /\ \A i \in DOMAIN ahead : ahead[i].tick \notin Search!Tested
  BY <1>4, <1>11 DEF Waiting
<1>14. \A t \in all : t \in Search!Tested \/ t \in ticks
  BY <1>5
<1> QED
  BY <1>7, <1>11, <1>12, <1>13, <1>14

\* Taking one entry from those ahead to those done keeps them apart.
LEMMA EntryMovesOver ==
  ASSUME NEW conflict, NEW all, NEW pass \in {0, 1},
         NEW ahead \in Seq(EntryNames), ahead # <<>>, NEW done \in Seq(EntryStates),
         EntriesHold(conflict, all, pass, ahead, done),
         NEW e \in EntryStates, e.id = Head(ahead).id, e.tick = Head(ahead).tick, e.round = pass,
         e.admitted => e.tick < conflict /\ e.tick > 0
  PROVE  EntriesHold(conflict, all, pass, Tail(ahead), Append(done, e))
<1> DEFINE rest == Tail(ahead)
           more == Append(done, e)
           n == Len(done)
           m == Len(ahead)
<1>0. /\ Waiting(ahead) /\ EntriesAreApart(conflict, pass, ahead, done)
      /\ PassesAreApart(pass, ahead, done) /\ FallbackIsAhead(all, pass, ahead, done)
  BY DEF EntriesHold
<1>1. /\ m \in Nat \ {0} /\ rest \in Seq(EntryNames) /\ Len(rest) = m - 1
      /\ DOMAIN rest = 1..(m - 1) /\ DOMAIN ahead = 1..m
      /\ \A i \in 1..(m - 1) : rest[i] = ahead[i + 1] /\ i + 1 \in 1..m
      /\ Head(ahead) = ahead[1] /\ 1 \in 1..m
  OBVIOUS
<1>3. e.id = ahead[1].id /\ e.tick = ahead[1].tick /\ e.round = pass
  BY <1>1
<1>5. /\ n \in Nat /\ more \in Seq(EntryStates) /\ Len(more) = n + 1
      /\ DOMAIN done = 1..n /\ DOMAIN more = 1..(n + 1)
      /\ \A i \in 1..n : more[i] = done[i] /\ i \in 1..(n + 1)
      /\ more[n + 1] = e /\ n + 1 \in 1..(n + 1)
      /\ \A i \in 1..(n + 1) : i \in 1..n \/ i = n + 1
  OBVIOUS
<1> HIDE DEF n, m, rest, more
<1>6. Waiting(rest)
  <2>1. \A i, j \in 1..(m - 1) : i # j => i + 1 # j + 1
    BY <1>1
  <2>2. /\ \A i \in 1..m : ahead[i].tick % 2 = 0
        /\ \A i, j \in 1..m : i # j => ahead[i].id # ahead[j].id
    BY <1>0, <1>1, Zenon DEF Waiting
  <2>3. \A i \in 1..(m - 1) : rest[i].tick % 2 = 0
    BY <1>1, <2>2
  <2>4. \A i, j \in 1..(m - 1) : i # j => rest[i].id # rest[j].id
    BY <1>1, <2>1, <2>2
  <2> QED BY <1>1, <2>3, <2>4, Zenon DEF Waiting
<1>7. EntriesAreApart(conflict, pass, rest, more)
  <2>1. \A i \in DOMAIN more : more[i].round <= pass
    <3>1. pass <= pass
      OBVIOUS
    <3> QED BY <1>0, <1>3, <1>5, <3>1 DEF EntriesAreApart
  <2>2. ASSUME NEW i \in 1..n, done[i].round = pass PROVE done[i].id # e.id
    BY <1>0, <1>1, <1>3, <1>5, <2>2 DEF EntriesAreApart
  <2>3. ASSUME NEW i \in DOMAIN more, NEW j \in DOMAIN more, i # j,
               more[i].round = more[j].round
        PROVE  more[i].id # more[j].id
    <3>1. CASE i \in 1..n /\ j \in 1..n
      <4>1. done[i].round = done[j].round /\ i \in DOMAIN done /\ j \in DOMAIN done
        BY <1>5, <2>3, <3>1
      <4> QED BY <1>0, <1>5, <2>3, <3>1, <4>1 DEF EntriesAreApart
    <3>2. CASE i \in 1..n /\ j = n + 1
      BY <1>3, <1>5, <2>2, <2>3, <3>2
    <3>3. CASE i = n + 1 /\ j \in 1..n
      BY <1>3, <1>5, <2>2, <2>3, <3>3
    <3> QED BY <1>5, <2>3, <3>1, <3>2, <3>3
  <2>4. ASSUME NEW i \in DOMAIN more, NEW j \in DOMAIN rest, more[i].round = pass
        PROVE  more[i].id # rest[j].id
    <3>1. rest[j] = ahead[j + 1] /\ j + 1 \in DOMAIN ahead /\ j + 1 # 1
      BY <1>1
    <3>2. CASE i \in 1..n
      BY <1>0, <1>5, <2>4, <3>1, <3>2 DEF EntriesAreApart
    <3>3. CASE i = n + 1
      <4>1. ahead[1].id # ahead[j + 1].id
        BY <1>0, <1>1, <3>1 DEF Waiting
      <4> QED BY <1>3, <1>5, <3>1, <3>3, <4>1
    <3> QED BY <1>5, <3>2, <3>3
  <2>5. ASSUME NEW i \in DOMAIN more, more[i].admitted
        PROVE  more[i].tick > 0 /\ more[i].tick < conflict /\ more[i].tick % 2 = 0
    <3>1. CASE i \in 1..n
      BY <1>0, <1>5, <2>5, <3>1 DEF EntriesAreApart
    <3>2. CASE i = n + 1
      <4>1. ahead[1].tick % 2 = 0
        BY <1>0, <1>1, Zenon DEF Waiting
      <4>2. more[i] = e
        BY <1>5, <3>2
      <4> QED BY <1>3, <2>5, <4>1, <4>2
    <3> QED BY <1>5, <3>1, <3>2
  <2> QED
    BY <1>0, <2>1, <2>3, <2>4, <2>5 DEF EntriesAreApart
<1>8. PassesAreApart(pass, rest, more)
  <2>1. Len(more) + Len(rest) = Len(done) + Len(ahead)
    BY <1>1, <1>5 DEF n, m
  <2>2. ASSUME NEW p, p # pass PROVE TicksIn(p, more) = TicksIn(p, done)
    BY <1>3, <1>5, <2>2 DEF TicksIn
  <2>3. TicksIn(pass, more) \subseteq TicksIn(pass, done) \cup {e.tick}
    BY <1>3, <1>5 DEF TicksIn
  <2>4. pass = 1 => e.tick \notin TicksIn(0, done)
    BY <1>0, <1>1, <1>3 DEF PassesAreApart
  <2>5. TicksIn(0, more) \cap TicksIn(1, more) = {}
    <3>1. CASE pass = 1
      BY <1>0, <2>2, <2>3, <2>4, <3>1 DEF PassesAreApart
    <3>2. CASE pass = 0
      <4>1. TicksIn(1, done) = {}
        BY <1>0, <1>5, <3>2 DEF TicksIn, EntriesAreApart, EntryStates
      <4> QED BY <2>2, <3>2, <4>1
    <3> QED BY <3>1, <3>2
  <2>6. pass = 1 => \A i \in DOMAIN rest : rest[i].tick \notin TicksIn(0, more)
    <3> SUFFICES ASSUME pass = 1, NEW i \in DOMAIN rest PROVE rest[i].tick \notin TicksIn(0, more)
      OBVIOUS
    <3>1. TicksIn(0, more) = TicksIn(0, done)
      BY <2>2
    <3>2. i + 1 \in DOMAIN ahead /\ rest[i] = ahead[i + 1]
      BY <1>1
    <3>3. ahead[i + 1].tick \notin TicksIn(0, done)
      BY <1>0, <3>2 DEF PassesAreApart
    <3> QED BY <3>1, <3>2, <3>3
  <2> QED
    BY <1>0, <2>1, <2>5, <2>6 DEF PassesAreApart
<1>9. FallbackIsAhead(all, pass, rest, more)
  <2> SUFFICES ASSUME pass = 1, NEW t \in all
               PROVE  \/ \E i \in DOMAIN more : more[i].tick = t
                      \/ \E i \in DOMAIN rest : rest[i].tick = t
    BY <1>0 DEF FallbackIsAhead
  <2>1. CASE \E i \in DOMAIN done : done[i].tick = t
    BY <1>5, <2>1
  <2>2. CASE \E i \in DOMAIN ahead : ahead[i].tick = t
    <3>1. PICK i \in 1..m : ahead[i].tick = t
      BY <1>1, <2>2
    <3>2. CASE i = 1
      BY <1>3, <1>5, <3>1, <3>2
    <3>3. CASE i # 1
      <4>1. i - 1 \in 1..(m - 1) /\ (i - 1) + 1 = i
        BY <1>1, <3>3
      <4>2. rest[i - 1] = ahead[i]
        BY <1>1, <4>1
      <4> QED BY <1>1, <3>1, <4>1, <4>2
    <3> QED BY <3>2, <3>3
  <2> QED
    BY <1>0, <2>1, <2>2 DEF FallbackIsAhead
<1> QED
  BY <1>6, <1>7, <1>8, <1>9 DEF EntriesHold, rest, more

\* Counting rows by whole entries.
LEMMA WholeEntries ==
  ASSUME NEW rows \in Nat, NEW n \in Nat
  PROVE  /\ rows * n \in Nat /\ rows * (n + 1) = rows * n + rows
         /\ rows * ((n + 1) - 1) = rows * n
         /\ n <= 8 => rows * n <= 8 * rows
<1>1. rows * n \in Nat
  OBVIOUS
<1>2. rows * (n + 1) = rows * n + rows /\ rows * ((n + 1) - 1) = rows * n
  OBVIOUS
<1>3. ASSUME n <= 8 PROVE rows * n <= 8 * rows
  <2>1. n = 0 \/ n = 1 \/ n = 2 \/ n = 3 \/ n = 4 \/ n = 5 \/ n = 6 \/ n = 7 \/ n = 8
    BY <1>3
  <2> QED BY <2>1
<1> QED BY <1>1, <1>2, <1>3

\* What was accepted stays where it was found when more is tried.
LEMMA AcceptedStays ==
  ASSUME NEW q, NEW pass, NEW done, NEW more, NEW count \in Nat, NEW after \in Nat,
         NEW ps \in SUBSET ProposedRows, Len(q.powered) \in Nat,
         done \in Seq(EntryStates), count <= after,
         \A i \in DOMAIN done : i \in DOMAIN more /\ more[i] = done[i],
         AcceptedOnce(q, pass, done, count, ps)
  PROVE  AcceptedOnce(q, pass, more, after, ps)
<1>1. ASSUME NEW p \in ps PROVE RowOf(q, p, pass, more, after)
  <2>1. RowOf(q, p, pass, done, count)
    BY DEF AcceptedOnce
  <2>2. PICK i \in DOMAIN done :
          /\ done[i].id = p.id /\ done[i].tick = p.tick /\ done[i].round = pass
          /\ done[i].admitted /\ p.row \in DOMAIN q.powered
          /\ Len(q.powered) * (i - 1) + p.row <= count
    BY <2>1, Zenon DEF RowOf
  <2>3. i \in Nat \ {0} /\ p.row \in Nat
    BY DEF ProposedRows
  <2>4. Len(q.powered) * (i - 1) \in Nat
    BY <2>3
  <2>5. Len(q.powered) * (i - 1) + p.row <= after
    BY <2>2, <2>3, <2>4
  <2>6. more[i] = done[i] /\ i \in DOMAIN more
    OBVIOUS
  <2> QED
    BY <2>2, <2>5, <2>6, Zenon DEF RowOf
<1> QED
  BY <1>1, Zenon DEF AcceptedOnce

----------------------------------------------------------------------------
(* Every step of a search keeps its invariant.                              *)

\* A search that has not been asked for yet has nothing on record.
LEMMA SearchStarts ==
  ASSUME Search!SearchInit
  PROVE  SearchInv
<1>1. /\ query \in SearchScenario /\ place = "asked" /\ round = 0 /\ queue = <<>> /\ tried = <<>>
      /\ rowCount = 0 /\ selected = Search!Nothing /\ selectedEntry = Search!NoSource
      /\ roomy = Search!Nothing /\ accepted = {} /\ failedRow = Search!Nothing
      /\ outcome = "None"
  BY Zenon DEF Search!SearchInit
<1>2. Len(query.powered) \in Nat
  BY <1>1, QueryIsSound
<1>3. SearchTypes
  BY <1>1 DEF SearchTypes, Places
<1>4. EntriesInv
  BY <1>1 DEF EntriesInv, EntriesHold, Waiting, EntriesAreApart, PassesAreApart, FallbackIsAhead, TicksIn
<1>5. RowsInv
  <2>1. Len(query.powered) * Len(tried) = 0
    BY <1>1, <1>2
  <2> QED
    BY <1>1, <2>1 DEF RowsInv, RowsAreCounted, AcceptedOnce, RowsAreApart
<1>6. BestSoFar(place, outcome, accepted, selected, selectedEntry, roomy)
  <2>1. Roomy({}) = {}
    BY DEF Roomy
  <2>2. Search!Nothing.tick = Search!NoSource
    BY DEF Search!Nothing
  <2> QED
    BY <1>1, <2>1, <2>2 DEF BestSoFar, IsBest
<1>7. OnRecord
  BY <1>1 DEF OnRecord
<1> QED
  BY <1>3, <1>4, <1>5, <1>6, <1>7 DEF SearchInv

\* The fallback's clock is the query's.
LEMMA FallbackClockStands == query' = query => FallbackClock' = FallbackClock
BY DEF FallbackClock, Search!Horizon, Search!MaxCoast, Search!Powered

\* A step that takes no entry up leaves the entries apart.
LEMMA EntriesStay ==
  ASSUME EntriesInv, UNCHANGED <<query, round, queue, tried>>
  PROVE  EntriesInv'
BY FallbackClockStands DEF EntriesInv

\* As long as nothing is accepted, nothing is the best.
LEMMA NothingAccepted ==
  ASSUME SearchInv, place \in {"asked", "entry", "row"}
  PROVE  selected = Search!Nothing <=> accepted = {}
<1>1. accepted \in SUBSET ProposedRows /\ IsBest(selected, accepted)
  BY DEF SearchInv, SearchTypes, BestSoFar
<1> QED
  BY <1>1, NothingIsNoRow DEF IsBest

\* What the invariant says of a search that has not ended.
LEMMA SearchIsOn ==
  ASSUME SearchInv, place # "ended"
  PROVE  outcome = "None" /\ failedRow = Search!Nothing
BY DEF SearchInv, OnRecord

\* The conflict is known: the boundaries of the first pass wait to be tried.
LEMMA AskKeeps ==
  ASSUME SearchInv, Search!Ask
  PROVE  SearchInv'
<1>1. /\ place = "asked"
      /\ UNCHANGED <<query, round, tried, rowCount, selected, selectedEntry, roomy, accepted, kept,
                     failedRow>>
  BY Zenon DEF Search!Ask, Search!found
<1>2. \/ Search!PrimaryRefused /\ place' = "ended" /\ outcome' = "Error" /\ UNCHANGED queue
      \/ /\ ~Search!PrimaryRefused /\ place' = "entry" /\ queue' = Search!PrimaryEntries
         /\ UNCHANGED outcome
  BY Zenon DEF Search!Ask
<1>3. SearchTypes /\ EntriesInv /\ RowsInv /\ OnRecord
      /\ BestSoFar(place, outcome, accepted, selected, selectedEntry, roomy)
  BY DEF SearchInv
<1>4. tried = <<>> /\ round = 0 /\ query \in SearchScenario /\ rowCount \in Nat
  BY <1>1, <1>3 DEF RowsInv, RowsAreCounted, SearchTypes
<1>5. Len(query.powered) \in Nat
  BY <1>4, QueryIsSound
<1>6. Len(query.powered) * Len(tried) = 0 /\ rowCount = Len(query.powered) * Len(tried)
  <2>1. Len(query.powered) * Len(tried) = 0
    BY <1>4, <1>5
  <2> QED BY <1>3, <1>4, <2>1 DEF RowsInv, RowsAreCounted
<1>7. queue' \in Seq(EntryNames) /\ EntriesInv'
  <2>1. CASE UNCHANGED queue
    BY <1>1, <1>3, <2>1, EntriesStay DEF SearchTypes
  <2>2. CASE queue' = Search!PrimaryEntries /\ ~Search!PrimaryRefused
    <3>1. queue' \in Seq(EntryNames) /\ Len(queue') <= 4 /\ Waiting(queue')
      BY <1>4, <2>2, PrimaryPass
    <3>2. tried' = <<>> /\ round' = 0
      BY <1>1, <1>4
    <3>3. EntriesAreApart(query'.conflict, round', queue', tried')
      BY <3>2 DEF EntriesAreApart
    <3>4. PassesAreApart(round', queue', tried')
      BY <3>1, <3>2 DEF PassesAreApart, TicksIn
    <3>5. FallbackIsAhead(FallbackClock', round', queue', tried')
      BY <3>2 DEF FallbackIsAhead
    <3> QED BY <3>1, <3>3, <3>4, <3>5 DEF EntriesInv, EntriesHold
  <2> QED BY <1>2, <2>1, <2>2
<1>8. place' \in {"entry", "ended"}
  BY <1>2
<1>9. SearchTypes'
  BY <1>1, <1>3, <1>7, <1>8 DEF SearchTypes, Places
<1>10. RowsInv'
  BY <1>1, <1>3, <1>5, <1>6, <1>8 DEF RowsInv, RowsAreCounted
<1>11. BestSoFar(place', outcome', accepted', selected', selectedEntry', roomy')
  BY <1>1, <1>2, <1>3, SearchIsOn DEF BestSoFar
<1>12. OnRecord'
  BY <1>1, <1>2, <1>4, SearchIsOn DEF OnRecord
<1> QED
  BY <1>7, <1>9, <1>10, <1>11, <1>12 DEF SearchInv

\* An entry is taken up: all its rows are still to be tried.
LEMMA TryEntryKeeps ==
  ASSUME SearchInv, NEW admitted \in BOOLEAN, Search!TryEntry(admitted)
  PROVE  SearchInv'
<1>1. /\ place = "entry" /\ queue # <<>> /\ place' = "row"
      /\ admitted => Head(queue).tick < query.conflict /\ Head(queue).tick > 0
      /\ queue' = Tail(queue)
      /\ tried' = Append(tried, [id |-> Head(queue).id, tick |-> Head(queue).tick,
                                 round |-> round, admitted |-> admitted])
      /\ UNCHANGED <<query, round, rowCount, selected, selectedEntry, roomy, accepted, failedRow,
                     outcome>>
      /\ kept' = [entries |-> tried', rowCount |-> rowCount',
                  accepted |-> Search!Cardinality(accepted'), selected |-> selected']
  BY Zenon DEF Search!TryEntry, Search!found, Search!Checkpoint
<1>2. SearchTypes /\ EntriesInv /\ RowsInv /\ OnRecord
      /\ BestSoFar(place, outcome, accepted, selected, selectedEntry, roomy)
  BY DEF SearchInv
<1>3. /\ round \in {0, 1} /\ queue \in Seq(EntryNames) /\ tried \in Seq(EntryStates)
      /\ query \in SearchScenario /\ rowCount \in Nat /\ accepted \in SUBSET ProposedRows
  BY <1>2 DEF SearchTypes
<1> DEFINE e == [id |-> Head(queue).id, tick |-> Head(queue).tick, round |-> round,
                 admitted |-> admitted]
<1>4. /\ e \in EntryStates /\ e.id = Head(queue).id /\ e.tick = Head(queue).tick
      /\ e.round = round /\ e.admitted = admitted /\ tried' = Append(tried, e)
  <2>1. Head(queue) \in EntryNames
    BY <1>1, <1>3
  <2> QED BY <1>1, <1>3, <2>1 DEF EntryStates, EntryNames
<1> HIDE DEF e
<1>5. /\ queue' \in Seq(EntryNames) /\ tried' \in Seq(EntryStates)
      /\ Len(tried') = Len(tried) + 1 /\ tried'[Len(tried')].round = round
      /\ \A i \in DOMAIN tried : i \in DOMAIN tried' /\ tried'[i] = tried[i]
  BY <1>1, <1>3, <1>4
<1>6. EntriesInv'
  <2>1. EntriesHold(query.conflict, FallbackClock, round, queue, tried)
    BY <1>2 DEF EntriesInv
  <2>2. e.admitted => e.tick < query.conflict /\ e.tick > 0
    BY <1>1, <1>4
  <2>3. EntriesHold(query.conflict, FallbackClock, round, Tail(queue), Append(tried, e))
    BY <1>1, <1>3, <1>4, <2>1, <2>2, EntryMovesOver
  <2> QED BY <1>1, <1>4, <2>3, FallbackClockStands DEF EntriesInv
<1>7. SearchTypes'
  BY <1>1, <1>2, <1>5 DEF SearchTypes, Places
<1>8. Len(query.powered) \in Nat \ {0} /\ Len(tried) \in Nat
  BY <1>3, QueryIsSound
<1>9. RowsAreCounted(place', Len(query'.powered), round', tried', rowCount')
  <2>1. rowCount = Len(query.powered) * Len(tried)
    BY <1>1, <1>2 DEF RowsInv, RowsAreCounted
  <2>2. PICK rows \in Nat \ {0}, n \in Nat : rows = Len(query.powered) /\ n = Len(tried)
    BY <1>8
  <2>3. rows * n \in Nat /\ rows * (n + 1) = rows * n + rows /\ rows * ((n + 1) - 1) = rows * n
    BY <2>2, WholeEntries
  <2>4. Len(tried') = n + 1 /\ rowCount = rows * n /\ tried' # <<>>
    BY <1>5, <2>1, <2>2
  <2>5. rows * (Len(tried') - 1) <= rowCount /\ rowCount < rows * Len(tried')
    <3>1. Len(tried') - 1 = n
      BY <2>2, <2>4
    <3>2. rows * (Len(tried') - 1) = rows * n /\ rows * Len(tried') = rows * n + rows
      BY <2>3, <2>4, <3>1
    <3>3. PICK w \in Nat : w = rows * n
      BY <2>3
    <3>4. rows * (Len(tried') - 1) = w /\ rows * Len(tried') = w + rows /\ rowCount = w
      BY <2>4, <3>2, <3>3, Zenon
    <3>5. w <= w /\ w < w + rows
      BY <2>2, <3>3
    <3> QED BY <3>4, <3>5, Zenon
  <2>6. rowCount <= rows * Len(tried')
    <3>1. \A w \in Nat, r \in Nat \ {0} : w <= w + r
      OBVIOUS
    <3> QED BY <2>2, <2>3, <2>4, <3>1
  <2>7. RowsAreCounted("row", rows, round, tried', rowCount)
    BY <1>5, <2>4, <2>5, <2>6 DEF RowsAreCounted
  <2> QED
    BY <1>1, <2>2, <2>7
<1>10. AcceptedOnce(query, round, tried', rowCount, accepted)
  <2>1. AcceptedOnce(query, round, tried, rowCount, accepted)
    BY <1>2 DEF RowsInv
  <2>2. rowCount <= rowCount
    BY <1>3
  <2> QED BY <1>3, <1>5, <1>8, <2>1, <2>2, AcceptedStays
<1>11. RowsInv'
  BY <1>1, <1>9, <1>10 DEF RowsInv
<1>12. BestSoFar(place', outcome', accepted', selected', selectedEntry', roomy')
  BY <1>1, <1>2, SearchIsOn DEF BestSoFar
<1>13. OnRecord'
  BY <1>1, SearchIsOn DEF OnRecord
<1> QED
  BY <1>6, <1>7, <1>11, <1>12, <1>13 DEF SearchInv

\* One more row is counted: the entry underway is done with after its last.
LEMMA RowIsCounted ==
  ASSUME SearchInv, place = "row", Search!NextRow
  PROVE  /\ UNCHANGED <<query, round, queue, tried, failedRow, outcome>>
         /\ rowCount' = rowCount + 1 /\ place' \in {"entry", "row"}
         /\ RowsAreCounted(place', Len(query'.powered), round', tried', rowCount')
<1>1. /\ UNCHANGED <<query, round, queue, tried, failedRow, outcome>>
      /\ rowCount' = rowCount + 1
      /\ place' = IF Search!Row = Search!Rows THEN "entry" ELSE "row"
  BY Zenon DEF Search!NextRow
<1> DEFINE rows == Len(query.powered)
           n == Len(tried)
<1>2. Search!Rows = rows /\ Search!Row = rowCount - rows * (n - 1) + 1
  BY DEF Search!Row, Search!Rows, Search!Powered
<1>3. /\ query \in SearchScenario /\ rowCount \in Nat /\ tried \in Seq(EntryStates)
      /\ RowsAreCounted(place, rows, round, tried, rowCount)
  BY DEF SearchInv, SearchTypes, RowsInv
<1>4. /\ tried # <<>> /\ tried[n].round = round
      /\ rows * (n - 1) <= rowCount /\ rowCount < rows * n
  BY <1>3 DEF RowsAreCounted
<1>5. rows \in Nat \ {0} /\ n \in Nat \ {0}
  BY <1>3, <1>4, QueryIsSound
<1>6. n - 1 \in Nat /\ (n - 1) + 1 = n
  BY <1>5
<1> HIDE DEF rows, n
<1>7. rows * (n - 1) \in Nat /\ rows * n = rows * (n - 1) + rows
  BY <1>5, <1>6, WholeEntries
<1>8. RowsAreCounted(place', rows, round, tried, rowCount + 1)
  <2>1. CASE rowCount + 1 = rows * n
    <3>1. place' = "entry"
      BY <1>1, <1>2, <1>3, <1>5, <1>7, <2>1
    <3> QED BY <1>3, <2>1, <3>1 DEF RowsAreCounted, n
  <2>2. CASE rowCount + 1 # rows * n
    <3>1. place' = "row"
      BY <1>1, <1>2, <1>3, <1>5, <1>7, <2>2
    <3>2. rowCount + 1 < rows * n /\ rows * (n - 1) <= rowCount + 1
      BY <1>3, <1>4, <1>5, <1>7, <2>2
    <3>3. rowCount + 1 <= rows * n
      BY <1>3, <1>5, <1>7, <3>2
    <3> QED BY <1>4, <3>1, <3>2, <3>3 DEF RowsAreCounted, n
  <2> QED BY <2>1, <2>2
<1> QED
  BY <1>1, <1>8 DEF rows

\* A row is found wanting.
LEMMA RejectRowKeeps ==
  ASSUME SearchInv, Search!RejectRow
  PROVE  SearchInv'
<1>1. /\ place = "row" /\ Search!NextRow
      /\ UNCHANGED <<selected, selectedEntry, roomy, accepted>>
      /\ kept' = [entries |-> tried', rowCount |-> rowCount',
                  accepted |-> Search!Cardinality(accepted'), selected |-> selected']
  BY Zenon DEF Search!RejectRow, Search!found, Search!Checkpoint
<1>2. /\ UNCHANGED <<query, round, queue, tried, failedRow, outcome>>
      /\ rowCount' = rowCount + 1 /\ place' \in {"entry", "row"}
      /\ RowsAreCounted(place', Len(query'.powered), round', tried', rowCount')
  BY <1>1, RowIsCounted
<1>3. SearchTypes /\ EntriesInv /\ RowsInv /\ OnRecord
      /\ BestSoFar(place, outcome, accepted, selected, selectedEntry, roomy)
  BY DEF SearchInv
<1>4. SearchTypes'
  BY <1>1, <1>2, <1>3 DEF SearchTypes, Places
<1>5. EntriesInv'
  BY <1>2, <1>3, EntriesStay
<1>6. AcceptedOnce(query, round, tried, rowCount + 1, accepted)
  <2>1. /\ query \in SearchScenario /\ rowCount \in Nat /\ accepted \in SUBSET ProposedRows
        /\ tried \in Seq(EntryStates)
    BY <1>3 DEF SearchTypes
  <2>2. rowCount <= rowCount + 1 /\ rowCount + 1 \in Nat
    BY <2>1
  <2>3. Len(query.powered) \in Nat
    BY <2>1, QueryIsSound
  <2>4. AcceptedOnce(query, round, tried, rowCount, accepted)
    BY <1>3 DEF RowsInv
  <2> QED BY <2>1, <2>2, <2>3, <2>4, AcceptedStays
<1>7. RowsInv'
  BY <1>1, <1>2, <1>6 DEF RowsInv
<1>8. BestSoFar(place', outcome', accepted', selected', selectedEntry', roomy')
  BY <1>1, <1>2, <1>3, SearchIsOn DEF BestSoFar
<1>9. OnRecord'
  BY <1>1, <1>2, SearchIsOn DEF OnRecord
<1> QED
  BY <1>4, <1>5, <1>7, <1>8, <1>9 DEF SearchInv

\* A row is accepted under a name no other has, and kept if it is the best so far, or the best so
\* far that leaves room to brake.
LEMMA AcceptRowKeeps ==
  ASSUME SearchInv, place = "row", Search!Entry.admitted, NEW p \in Search!Proposals,
         Search!AcceptRow(p)
  PROVE  SearchInv'
<1>1. /\ Search!NextRow /\ accepted' = accepted \cup {p}
      /\ roomy' = IF p.room = "enough" /\ (roomy = Search!Nothing \/ Search!Ranks(p, roomy))
                  THEN p ELSE roomy
      /\ \/ /\ selected = Search!Nothing \/ Search!Ranks(p, selected)
            /\ selected' = p /\ selectedEntry' = Search!Entry.tick
         \/ /\ ~(selected = Search!Nothing \/ Search!Ranks(p, selected))
            /\ UNCHANGED <<selected, selectedEntry>>
      /\ kept' = [entries |-> tried', rowCount |-> rowCount',
                  accepted |-> Search!Cardinality(accepted'), selected |-> selected']
  BY Zenon DEF Search!AcceptRow, Search!Checkpoint
<1>2. /\ UNCHANGED <<query, round, queue, tried, failedRow, outcome>>
      /\ rowCount' = rowCount + 1 /\ place' \in {"entry", "row"}
      /\ RowsAreCounted(place', Len(query'.powered), round', tried', rowCount')
  BY <1>1, RowIsCounted
<1>3. SearchTypes /\ EntriesInv /\ RowsInv /\ OnRecord
      /\ BestSoFar(place, outcome, accepted, selected, selectedEntry, roomy)
  BY DEF SearchInv
<1>4. /\ query \in SearchScenario /\ round \in {0, 1} /\ rowCount \in Nat
      /\ tried \in Seq(EntryStates) /\ accepted \in SUBSET ProposedRows
  BY <1>3 DEF SearchTypes
<1> DEFINE q == query
           rows == Len(q.powered)
           n == Len(tried)
           e == tried[n]
           row == rowCount - rows * (n - 1) + 1
<1>5. /\ q.powered \in Seq(Nat \ {0}) /\ rows \in Nat \ {0}
      /\ \A i \in DOMAIN q.powered : q.powered[i] \in Nat
      /\ q.maxCoast \in Nat /\ q.continuation \in Nat /\ q.deadline \in Nat
      /\ q.fuels \subseteq Nat
  BY <1>4, QueryIsSound
<1>6. /\ n \in Nat \ {0} /\ e.round = round
      /\ rows * (n - 1) <= rowCount /\ rowCount < rows * n
  <2>1. /\ tried # <<>> /\ tried[n].round = round
        /\ rows * (n - 1) <= rowCount /\ rowCount < rows * n
    BY <1>3 DEF RowsInv, RowsAreCounted
  <2>2. n \in Nat \ {0}
    BY <1>4, <2>1
  <2> QED BY <2>1, <2>2
<1>7. e \in EntryStates /\ n \in DOMAIN tried /\ Search!Entry = e
  BY <1>4, <1>6 DEF Search!Entry, Search!Last
<1>8. rows * (n - 1) \in Nat /\ rows * n = rows * (n - 1) + rows
  <2>1. n - 1 \in Nat /\ (n - 1) + 1 = n
    BY <1>6
  <2> HIDE DEF rows, n
  <2> QED BY <1>5, <2>1, WholeEntries
<1>9. row \in Nat \ {0} /\ row <= rows /\ rows * (n - 1) + row = rowCount + 1
  <2> HIDE DEF rows, n
  <2> QED BY <1>4, <1>5, <1>6, <1>8
<1>10. row \in DOMAIN q.powered /\ q.powered[row] \in Nat
  <2>1. DOMAIN q.powered = 1..rows
    BY <1>5
  <2>2. row \in 1..rows
    <3> HIDE DEF row, rows
    <3> QED BY <1>5, <1>9
  <2> QED BY <1>5, <2>1, <2>2
<1>11. /\ Search!Powered = q.powered /\ Search!MaxCoast = q.maxCoast
       /\ Search!ContinuationTicks = q.continuation /\ Search!Row = row
  BY DEF Search!Row, Search!Rows, Search!Powered, Search!MaxCoast, Search!ContinuationTicks
<1> HIDE DEF row, rows, n, e
<1>12. PICK f \in q.fuels, r \in Search!Rooms, k \in 1..(q.maxCoast \div 2) :
         /\ e.tick + q.powered[row] + 2 * k + q.continuation <= q.deadline
         /\ p = [id |-> e.id, tick |-> e.tick, row |-> row, round |-> round, fuel |-> f,
                 room |-> r, handoff |-> e.tick + q.powered[row] + 2 * k]
  BY <1>7, <1>11 DEF Search!Proposals
<1>13. /\ e.id \in Nat /\ e.tick \in Nat /\ e.admitted
  BY <1>7 DEF EntryStates
<1>14. p \in ProposedRows
  <2>1. f \in Nat /\ k \in Nat /\ row \in Nat
    BY <1>5, <1>9, <1>12
  <2>2. e.tick + q.powered[row] + 2 * k \in Nat
    BY <1>10, <1>13, <2>1
  <2> QED BY <1>4, <1>12, <1>13, <2>1, <2>2 DEF ProposedRows
<1>15. /\ p.id = e.id /\ p.tick = e.tick /\ p.row = row /\ p.round = round
       /\ p.handoff = p.tick + q.powered[p.row] + 2 * k
       /\ p.handoff + q.continuation <= q.deadline
  BY <1>12
<1>16. RowOf(q, p, round, tried, rowCount + 1) /\ InTime(q, p)
  <2>1. rows * (n - 1) + row <= rowCount + 1
    BY <1>4, <1>9
  <2>2. RowOf(q, p, round, tried, rowCount + 1)
    BY <1>6, <1>7, <1>10, <1>13, <1>15, <2>1, Zenon DEF RowOf, rows, e
  <2>3. InTime(q, p)
    BY <1>12, <1>15, Zenon DEF InTime
  <2> QED BY <2>2, <2>3
<1>17. AcceptedOnce(q, round, tried, rowCount, accepted)
  BY <1>3 DEF RowsInv
<1>18. ASSUME NEW o \in accepted, o.id = p.id PROVE o.row < p.row
  <2>1. RowOf(q, o, round, tried, rowCount)
    BY <1>17 DEF AcceptedOnce
  <2>2. PICK i \in DOMAIN tried :
          tried[i].id = o.id /\ tried[i].round = round /\ rows * (i - 1) + o.row <= rowCount
    BY <2>1, Zenon DEF RowOf, rows
  <2>3. i = n
    <3>1. tried[i].id = tried[n].id /\ tried[i].round = tried[n].round
      BY <1>6, <1>15, <1>18, <2>2 DEF e
    <3>2. EntriesAreApart(query.conflict, round, queue, tried)
      BY <1>3 DEF EntriesInv, EntriesHold
    <3> QED BY <1>7, <3>1, <3>2 DEF EntriesAreApart
  <2>4. o.row \in Nat
    BY <1>4 DEF ProposedRows
  <2> QED BY <1>4, <1>8, <1>9, <1>15, <2>2, <2>3, <2>4
<1>19. RowsAreApart(accepted \cup {p})
  <2>1. ASSUME NEW o \in accepted, o.id = p.id PROVE o.row # p.row
    <3>1. o.row \in Nat /\ p.row \in Nat
      BY <1>4, <1>14 DEF ProposedRows
    <3> QED BY <1>18, <2>1, <3>1
  <2>2. RowsAreApart(accepted)
    BY <1>17 DEF AcceptedOnce
  <2> QED BY <2>1, <2>2 DEF RowsAreApart
<1>20. AcceptedOnce(q, round, tried, rowCount + 1, accepted \cup {p})
  <2>1. AcceptedOnce(q, round, tried, rowCount + 1, accepted)
    <3>1. rowCount <= rowCount + 1 /\ rowCount + 1 \in Nat /\ Len(q.powered) \in Nat
      BY <1>4, <1>5 DEF rows
    <3> QED BY <1>4, <1>17, <3>1, AcceptedStays
  <2> QED BY <1>15, <1>16, <1>19, <2>1, Zenon DEF AcceptedOnce
<1>21. RowsInv'
  BY <1>1, <1>2, <1>20 DEF RowsInv
<1>22. SearchTypes'
  BY <1>1, <1>2, <1>3, <1>14 DEF SearchTypes, Places
<1>23. EntriesInv'
  BY <1>2, <1>3, EntriesStay
<1>24. IsBest(selected, accepted) /\ IsBest(roomy, Roomy(accepted)) /\ selectedEntry = selected.tick
  BY <1>3 DEF BestSoFar
<1>25. IsBest(selected', accepted \cup {p}) /\ selectedEntry' = selected'.tick
  <2>1. /\ selected = Search!Nothing \/ Search!Ranks(p, selected) => IsBest(p, accepted \cup {p})
        /\ ~(selected = Search!Nothing \/ Search!Ranks(p, selected)) =>
             IsBest(selected, accepted \cup {p})
    BY <1>4, <1>14, <1>19, <1>24, BetterOfTwo
  <2> QED BY <1>1, <1>7, <1>15, <1>24, <2>1
<1>26. IsBest(roomy', Roomy(accepted \cup {p}))
  <2>1. CASE p.room = "enough"
    <3>1. Roomy(accepted \cup {p}) = Roomy(accepted) \cup {p}
      BY <2>1 DEF Roomy
    <3>2. Roomy(accepted) \in SUBSET ProposedRows /\ RowsAreApart(Roomy(accepted) \cup {p})
      BY <1>4, <1>19 DEF Roomy, RowsAreApart
    <3>3. /\ roomy = Search!Nothing \/ Search!Ranks(p, roomy) => IsBest(p, Roomy(accepted) \cup {p})
          /\ ~(roomy = Search!Nothing \/ Search!Ranks(p, roomy)) =>
               IsBest(roomy, Roomy(accepted) \cup {p})
      BY <1>14, <1>24, <3>2, BetterOfTwo
    <3> QED BY <1>1, <2>1, <3>1, <3>3
  <2>2. CASE p.room # "enough"
    <3>1. Roomy(accepted \cup {p}) = Roomy(accepted)
      BY <2>2 DEF Roomy
    <3> QED BY <1>1, <1>24, <2>2, <3>1
  <2> QED BY <2>1, <2>2
<1>27. BestSoFar(place', outcome', accepted', selected', selectedEntry', roomy')
  BY <1>1, <1>2, <1>25, <1>26, SearchIsOn DEF BestSoFar
<1>28. OnRecord'
  BY <1>1, <1>2, SearchIsOn DEF OnRecord
<1> QED
  BY <1>21, <1>22, <1>23, <1>27, <1>28 DEF SearchInv

\* Nothing was accepted: what is left of the fallback's clock waits to be tried.
LEMMA FallBackKeeps ==
  ASSUME SearchInv, Search!FallBack
  PROVE  SearchInv'
<1>1. /\ place = "entry" /\ queue = <<>> /\ round = 0 /\ selected = Search!Nothing
      /\ UNCHANGED <<query, tried, rowCount, selected, selectedEntry, roomy, accepted, kept,
                     failedRow>>
  BY Zenon DEF Search!FallBack, Search!found
<1>2. \/ place' = "ended" /\ outcome' = "Error" /\ UNCHANGED <<round, queue>>
      \/ /\ ~Search!FallbackRefused(query.current, query.conflict)
         /\ round' = 1 /\ queue' = Search!FallbackEntries /\ UNCHANGED <<place, outcome>>
  BY Zenon DEF Search!FallBack
<1>3. SearchTypes /\ EntriesInv /\ RowsInv /\ OnRecord
      /\ BestSoFar(place, outcome, accepted, selected, selectedEntry, roomy)
  BY DEF SearchInv
<1>4. accepted = {}
  BY <1>1, NothingAccepted
<1>5. query \in SearchScenario /\ tried \in Seq(EntryStates)
  BY <1>3 DEF SearchTypes
<1>6. queue' \in Seq(EntryNames) /\ EntriesInv' /\ round' \in {0, 1}
  <2>1. CASE UNCHANGED <<round, queue>>
    BY <1>1, <1>3, <2>1, EntriesStay DEF SearchTypes
  <2>2. CASE /\ ~Search!FallbackRefused(query.current, query.conflict)
             /\ round' = 1 /\ queue' = Search!FallbackEntries
    <3>1. /\ queue' \in Seq(EntryNames) /\ Len(queue') <= 4 /\ Waiting(queue')
          /\ \A i \in DOMAIN queue' : queue'[i].tick \notin Search!Tested
          /\ \A t \in FallbackClock :
               t \in Search!Tested \/ \E i \in DOMAIN queue' : queue'[i].tick = t
      BY <1>5, <2>2, FallbackPass
    <3>2. EntriesHold(query.conflict, FallbackClock, 0, <<>>, tried)
      BY <1>1, <1>3 DEF EntriesInv
    <3>3. \A i \in DOMAIN tried : tried[i].round = 0
      <4>1. \A i \in DOMAIN tried : tried[i].round \in {0, 1}
        <5>1. \A i \in DOMAIN tried : tried[i] \in EntryStates
          BY <1>5
        <5> QED BY <5>1 DEF EntryStates
      <4>2. \A i \in DOMAIN tried : tried[i].round <= 0
        BY <3>2 DEF EntriesHold, EntriesAreApart
      <4> QED BY <4>1, <4>2
    <3>4. Search!Tested = {tried[i].tick : i \in DOMAIN tried}
      BY DEF Search!Tested
    <3>5. TicksIn(0, tried) \subseteq Search!Tested /\ TicksIn(1, tried) = {}
      BY <3>3, <3>4 DEF TicksIn
    <3>6. EntriesAreApart(query.conflict, 1, queue', tried)
      BY <3>2, <3>3 DEF EntriesHold, EntriesAreApart
    <3>7. PassesAreApart(1, queue', tried)
      <4>1. Len(tried) + 0 <= 4
        BY <3>2 DEF EntriesHold, PassesAreApart
      <4>2. Len(tried) + Len(queue') <= 8
        BY <1>5, <3>1, <4>1
      <4> QED BY <3>1, <3>5, <4>2 DEF PassesAreApart
    <3>8. FallbackIsAhead(FallbackClock, 1, queue', tried)
      BY <3>1, <3>4 DEF FallbackIsAhead
    <3> QED
      BY <1>1, <2>2, <3>1, <3>6, <3>7, <3>8, FallbackClockStands DEF EntriesInv, EntriesHold
  <2> QED BY <1>2, <2>1, <2>2
<1>7. place' \in {"entry", "ended"}
  BY <1>1, <1>2
<1>8. SearchTypes'
  BY <1>1, <1>3, <1>6, <1>7 DEF SearchTypes, Places
<1>9. RowsInv'
  <2>1. RowsAreCounted(place', Len(query'.powered), round', tried', rowCount')
    BY <1>1, <1>3, <1>7 DEF RowsInv, RowsAreCounted
  <2>2. AcceptedOnce(query', round', tried', rowCount', accepted')
    BY <1>1, <1>4 DEF AcceptedOnce, RowsAreApart
  <2> QED BY <2>1, <2>2 DEF RowsInv
<1>10. BestSoFar(place', outcome', accepted', selected', selectedEntry', roomy')
  BY <1>1, <1>2, <1>3, SearchIsOn DEF BestSoFar
<1>11. OnRecord'
  BY <1>1, <1>2, <1>3, SearchIsOn DEF OnRecord
<1> QED
  BY <1>6, <1>8, <1>9, <1>10, <1>11 DEF SearchInv

\* Both clocks are exhausted.
LEMMA FindNothingKeeps ==
  ASSUME SearchInv, Search!FindNothing
  PROVE  SearchInv'
<1>1. /\ place = "entry" /\ queue = <<>> /\ round = 1 /\ selected = Search!Nothing
      /\ place' = "ended" /\ outcome' = "NoClearing"
      /\ UNCHANGED <<query, round, queue, tried, rowCount, selected, selectedEntry, roomy, accepted,
                     failedRow>>
      /\ kept' = [entries |-> tried', rowCount |-> rowCount',
                  accepted |-> Search!Cardinality(accepted'), selected |-> selected']
  BY Zenon DEF Search!FindNothing, Search!found, Search!Checkpoint
<1>2. SearchTypes /\ EntriesInv /\ RowsInv /\ OnRecord
      /\ BestSoFar(place, outcome, accepted, selected, selectedEntry, roomy)
  BY DEF SearchInv
<1>3. accepted = {} /\ rowCount = Len(query.powered) * Len(tried)
  BY <1>1, <1>2, NothingAccepted DEF RowsInv, RowsAreCounted
<1>4. SearchTypes' /\ EntriesInv'
  BY <1>1, <1>2, EntriesStay DEF SearchTypes, Places
<1>5. RowsInv'
  BY <1>1, <1>2 DEF RowsInv, RowsAreCounted
<1>6. BestSoFar(place', outcome', accepted', selected', selectedEntry', roomy')
  BY <1>1, <1>2 DEF BestSoFar
<1>7. OnRecord'
  BY <1>1, <1>3, SearchIsOn DEF OnRecord
<1> QED
  BY <1>4, <1>5, <1>6, <1>7 DEF SearchInv

\* The winner, or the best with room to brake, is what the rule over all rows chooses.
LEMMA ChooseKeeps ==
  ASSUME SearchInv, Search!Choose
  PROVE  SearchInv'
<1>1. /\ place = "entry" /\ selected # Search!Nothing /\ place' = "chosen"
      /\ UNCHANGED <<query, round, queue, tried, rowCount, roomy, accepted, failedRow, outcome>>
      /\ kept' = [entries |-> tried', rowCount |-> rowCount',
                  accepted |-> Search!Cardinality(accepted'), selected |-> selected']
      /\ \/ /\ selected.room = "short" /\ roomy # Search!Nothing
            /\ selected' = roomy /\ selectedEntry' = roomy.tick
         \/ /\ ~(selected.room = "short" /\ roomy # Search!Nothing)
            /\ UNCHANGED <<selected, selectedEntry>>
  BY Zenon DEF Search!Choose, Search!Checkpoint
<1>2. SearchTypes /\ EntriesInv /\ RowsInv /\ OnRecord
      /\ BestSoFar(place, outcome, accepted, selected, selectedEntry, roomy)
  BY DEF SearchInv
<1>3. /\ accepted \in SUBSET ProposedRows /\ IsBest(selected, accepted)
      /\ IsBest(roomy, Roomy(accepted)) /\ selectedEntry = selected.tick
  BY <1>1, <1>2 DEF SearchTypes, BestSoFar
<1>4. selected \in accepted /\ Search!Best(accepted) = selected
  <2>1. selected \in accepted
    BY <1>1, <1>3 DEF IsBest
  <2> QED BY <1>3, <2>1, BestIsUnique
<1>5. Roomy(accepted) \in SUBSET ProposedRows /\ Roomy(accepted) \subseteq accepted
  BY <1>3 DEF Roomy
<1>6. roomy # Search!Nothing <=> Roomy(accepted) # {}
  BY <1>3, <1>5, NothingIsNoRow DEF IsBest
<1>7. Roomy(accepted) # {} => roomy \in Roomy(accepted) /\ Search!Best(Roomy(accepted)) = roomy
  <2> SUFFICES ASSUME Roomy(accepted) # {}
               PROVE  roomy \in Roomy(accepted) /\ Search!Best(Roomy(accepted)) = roomy
    OBVIOUS
  <2>1. roomy \in Roomy(accepted)
    BY <1>3 DEF IsBest
  <2> QED BY <1>3, <1>5, <2>1, BestIsUnique
<1>8. /\ selected' \in accepted /\ selected' = ChosenOf(accepted)
      /\ selectedEntry' = selected'.tick
  BY <1>1, <1>3, <1>4, <1>5, <1>6, <1>7 DEF ChosenOf
<1>9. SearchTypes' /\ EntriesInv'
  BY <1>1, <1>2, EntriesStay DEF SearchTypes, Places
<1>10. RowsInv'
  BY <1>1, <1>2 DEF RowsInv, RowsAreCounted
<1>11. BestSoFar(place', outcome', accepted', selected', selectedEntry', roomy')
  BY <1>1, <1>8, SearchIsOn DEF BestSoFar
<1>12. OnRecord'
  BY <1>1, SearchIsOn DEF OnRecord
<1> QED
  BY <1>9, <1>10, <1>11, <1>12 DEF SearchInv

\* A search that ends, with its proposal or in an error, leaves everything as it is; only the row
\* whose flight was not finite is kept apart.
LEMMA EndingKeeps ==
  ASSUME SearchInv, place # "asked",
         UNCHANGED <<query, round, queue, tried, rowCount, selected, selectedEntry, roomy, accepted,
                     kept>>,
         place' = "ended",
         \/ place = "chosen" /\ outcome' = "Selected" /\ UNCHANGED failedRow
         \/ /\ outcome' = "Error"
            /\ failedRow' = failedRow \/ failedRow'.tick = Search!Entry.tick
  PROVE  SearchInv'
<1>1. SearchTypes /\ EntriesInv /\ RowsInv /\ OnRecord
      /\ BestSoFar(place, outcome, accepted, selected, selectedEntry, roomy)
  BY DEF SearchInv
<1>2. SearchTypes' /\ EntriesInv'
  BY <1>1, EntriesStay DEF SearchTypes, Places
<1>3. RowsInv'
  BY <1>1 DEF RowsInv, RowsAreCounted
<1>4. BestSoFar(place', outcome', accepted', selected', selectedEntry', roomy')
  BY <1>1 DEF BestSoFar
<1>5. Search!Entry' = Search!Entry
  BY DEF Search!Entry, Search!Last
<1>6. OnRecord'
  BY <1>1, <1>5 DEF OnRecord
<1> QED
  BY <1>2, <1>3, <1>4, <1>6 DEF SearchInv

\* Every step of a search keeps the invariant, and so does standing still.
LEMMA SearchStepKeeps ==
  ASSUME SearchInv, Search!SearchNext \/ UNCHANGED searchVars
  PROVE  SearchInv'
<1>1. CASE Search!Ask
  BY <1>1, AskKeeps
<1>2. CASE Search!FallBack
  BY <1>2, FallBackKeeps
<1>3. CASE Search!FindNothing
  BY <1>3, FindNothingKeeps
<1>4. CASE Search!Choose
  BY <1>4, ChooseKeeps
<1>5. CASE Search!Accept
  <2>1. /\ place = "chosen" /\ place' = "ended" /\ outcome' = "Selected"
        /\ UNCHANGED <<query, round, queue, tried, rowCount, selected, selectedEntry, roomy,
                       accepted, kept, failedRow>>
    BY <1>5, Zenon DEF Search!Accept, Search!found
  <2> QED BY <2>1, EndingKeeps
<1>6. CASE Search!RejectRow
  BY <1>6, RejectRowKeeps
<1>7. ASSUME NEW admitted \in BOOLEAN, Search!TryEntry(admitted) PROVE SearchInv'
  BY <1>7, TryEntryKeeps
<1>8. ASSUME place = "row", Search!Entry.admitted, NEW p \in Search!Proposals,
             Search!AcceptRow(p)
      PROVE  SearchInv'
  BY <1>8, AcceptRowKeeps
<1>9. ASSUME NEW nonfinite \in BOOLEAN, Search!Break(nonfinite) PROVE SearchInv'
  <2>1. /\ place # "asked" /\ place' = "ended" /\ outcome' = "Error"
        /\ failedRow' = IF nonfinite THEN [tick |-> Search!Entry.tick, row |-> Search!Row]
                        ELSE failedRow
        /\ UNCHANGED <<query, round, queue, tried, rowCount, selected, selectedEntry, roomy,
                       accepted, kept>>
    BY <1>9, Zenon DEF Search!Break, Search!found
  <2>2. failedRow' = failedRow \/ failedRow'.tick = Search!Entry.tick
    BY <2>1
  <2> QED BY <2>1, <2>2, EndingKeeps
<1>10. CASE UNCHANGED searchVars
  <2>1. UNCHANGED <<query, place, round, queue, tried, rowCount, selected, selectedEntry, roomy,
                    accepted, kept, failedRow, outcome>>
    BY <1>10 DEF searchVars
  <2>2. SearchTypes /\ EntriesInv /\ RowsInv /\ OnRecord
        /\ BestSoFar(place, outcome, accepted, selected, selectedEntry, roomy)
    BY DEF SearchInv
  <2>3. SearchTypes' /\ EntriesInv' /\ RowsInv'
    BY <2>1, <2>2, EntriesStay DEF SearchTypes, RowsInv
  <2>4. Search!Entry' = Search!Entry
    BY <2>1 DEF Search!Entry, Search!Last
  <2>5. OnRecord'
    BY <2>1, <2>2, <2>4 DEF OnRecord
  <2> QED BY <2>1, <2>2, <2>3, <2>5 DEF SearchInv
<1>11. CASE Search!Ended
  <2>1. UNCHANGED searchVars
    BY <1>11, Zenon DEF Search!Ended, Search!searchVars, Search!found, searchVars
  <2> QED BY <1>10, <2>1
<1> QED
  BY <1>1, <1>2, <1>3, <1>4, <1>5, <1>6, <1>7, <1>8, <1>9, <1>10, <1>11, Zenon
  DEF Search!SearchNext

----------------------------------------------------------------------------
(* What a search promises, for every scenario.                              *)

\* What the invariant says of a selected row is that it is the best, and its schedule valid.
LEMMA SelectedIsTheBest ==
  ASSUME SearchInv
  PROVE  Search!SelectionIsTheBest
<1> SUFFICES ASSUME outcome = "Selected"
             PROVE  /\ selected = Search!Chosen /\ selectedEntry = selected.tick
                    /\ \A p \in accepted : p.round = round
                    /\ Search!ValidSchedule(
                         Search!RowSchedule(selected.tick, Search!Powered[selected.row],
                           Search!ContinuationTicks, query.deadline,
                           (selected.handoff - selected.tick - Search!Powered[selected.row]) \div 2),
                         Search!Powered[selected.row], Search!MaxCoast, Search!ContinuationTicks)
  BY Zenon DEF Search!SelectionIsTheBest
<1> DEFINE q == query
<1>1. /\ q \in SearchScenario /\ accepted \in SUBSET ProposedRows
      /\ tried \in Seq(EntryStates)
      /\ EntriesAreApart(q.conflict, round, queue, tried)
      /\ AcceptedOnce(q, round, tried, rowCount, accepted)
      /\ selected \in accepted /\ selected = ChosenOf(accepted) /\ selectedEntry = selected.tick
  BY DEF SearchInv, SearchTypes, EntriesInv, EntriesHold, RowsInv, BestSoFar
<1>2. selected = Search!Chosen
  <2>1. Roomy(accepted) = {p \in accepted : p.room = "enough"}
    BY DEF Roomy
  <2> QED BY <1>1, <2>1, Zenon DEF Search!Chosen, ChosenOf
<1>3. /\ \A p \in accepted : p.round = round
      /\ RowOf(q, selected, round, tried, rowCount) /\ InTime(q, selected)
  BY <1>1, Zenon DEF AcceptedOnce
<1>4. PICK i \in DOMAIN tried :
        tried[i].tick = selected.tick /\ tried[i].admitted /\ selected.row \in DOMAIN q.powered
  BY <1>3, Zenon DEF RowOf
<1>5. selected.tick \in Nat /\ selected.tick > 0 /\ selected.tick % 2 = 0
  <2>1. selected.tick \in Nat
    BY <1>1 DEF ProposedRows
  <2> QED BY <1>1, <1>4, <2>1 DEF EntriesAreApart
<1> DEFINE powered == q.powered[selected.row]
<1>6. /\ powered \in Nat /\ powered % 2 = 0
      /\ q.maxCoast \in Nat /\ q.continuation \in Nat /\ q.deadline \in Nat
      /\ q.continuation % 2 = 0 /\ q.maxCoast % 2 = 0
  BY <1>1, <1>4, QueryIsSound
<1>7. PICK k \in 1..(q.maxCoast \div 2) :
        /\ selected.handoff = selected.tick + powered + 2 * k
        /\ selected.handoff + q.continuation <= q.deadline
  BY <1>3, Zenon DEF InTime
<1> HIDE DEF powered, q
<1>8. /\ k \in Nat /\ k > 0 /\ 2 * k <= q.maxCoast
      /\ (selected.handoff - selected.tick - powered) \div 2 = k
      /\ selected.tick + powered + 2 * k + q.continuation <= q.deadline
  BY <1>5, <1>6, <1>7
<1>9. ValidSchedule(RowSchedule(selected.tick, powered, q.continuation, q.deadline, k),
                    powered, q.maxCoast, q.continuation)
  BY <1>5, <1>6, <1>8, RowScheduleIsValid
<1>10. Search!ValidSchedule(Search!RowSchedule(selected.tick, powered, q.continuation, q.deadline, k),
                            powered, q.maxCoast, q.continuation)
  <2>1. \A a, b : Search!CommandCount(a, b) = CommandCount(a, b)
    BY DEF Search!CommandCount, CommandCount
  <2>2. \A e, p, c, d, x : Search!RowSchedule(e, p, c, d, x) = RowSchedule(e, p, c, d, x)
    BY <2>1 DEF Search!RowSchedule, RowSchedule
  <2>3. \A s, p, m, c : Search!ValidSchedule(s, p, m, c) <=> ValidSchedule(s, p, m, c)
    BY DEF Search!ValidSchedule, ValidSchedule
  <2> QED BY <1>9, <2>2, <2>3
<1>11. /\ Search!Powered = q.powered /\ Search!MaxCoast = q.maxCoast
       /\ Search!ContinuationTicks = q.continuation /\ query = q
  BY DEF Search!Powered, Search!MaxCoast, Search!ContinuationTicks, q
<1> QED
  BY <1>1, <1>2, <1>3, <1>8, <1>10, <1>11 DEF powered

\* What it says of an exhausted search, and of what an error leaves behind.
LEMMA SearchLeavesARecord ==
  ASSUME SearchInv
  PROVE  Search!SearchIsOnRecord
<1>1. /\ query \in SearchScenario /\ rowCount \in Nat /\ round \in {0, 1}
      /\ tried \in Seq(EntryStates) /\ queue \in Seq(EntryNames)
      /\ PassesAreApart(round, queue, tried) /\ FallbackIsAhead(FallbackClock, round, queue, tried)
      /\ rowCount <= Len(query.powered) * Len(tried)
      /\ OnRecord
  BY DEF SearchInv, SearchTypes, EntriesInv, EntriesHold, RowsInv, RowsAreCounted
<1>2. Len(tried) \in Nat /\ Len(queue) \in Nat /\ Len(query.powered) \in Nat
  BY <1>1, QueryIsSound
<1>3. Search!Rows = Len(query.powered)
  BY DEF Search!Rows, Search!Powered
<1>4. Search!TicksOf(0) \cap Search!TicksOf(1) = {}
  <2>1. \A r : Search!TicksOf(r) = TicksIn(r, tried)
    BY Zenon DEF Search!TicksOf, TicksIn
  <2> QED BY <1>1, <2>1 DEF PassesAreApart
<1>5. Len(tried) <= 8
  <2>1. Len(tried) + Len(queue) <= 8
    BY <1>1, <1>2 DEF PassesAreApart
  <2> QED BY <1>2, <2>1
<1>6. rowCount <= 8 * Search!Rows
  <2>1. PICK rows \in Nat, n \in Nat : rows = Len(query.powered) /\ n = Len(tried)
    BY <1>2
  <2>2. rows * n \in Nat /\ rows * n <= 8 * rows
    BY <1>5, <2>1, WholeEntries
  <2> QED BY <1>1, <1>3, <2>1, <2>2
<1>7. ASSUME outcome = "NoClearing"
      PROVE  /\ rowCount = Search!Rows * Len(tried) /\ accepted = {}
             /\ \A t \in FallbackClock : t \in Search!Tested
  <2>1. /\ round = 1 /\ queue = <<>> /\ accepted = {}
        /\ rowCount = Len(query.powered) * Len(tried)
    BY <1>1, <1>7 DEF OnRecord
  <2>2. ASSUME NEW t \in FallbackClock PROVE t \in Search!Tested
    <3>1. \E i \in DOMAIN tried : tried[i].tick = t
      BY <1>1, <2>1 DEF FallbackIsAhead
    <3> QED BY <3>1 DEF Search!Tested
  <2> QED BY <1>3, <2>1, <2>2
<1>8. /\ place # "asked" /\ tried # <<>> =>
           kept = [entries |-> tried, rowCount |-> rowCount,
                   accepted |-> Search!Cardinality(accepted), selected |-> selected]
      /\ failedRow # Search!Nothing => failedRow.tick = Search!Entry.tick /\ outcome = "Error"
  BY <1>1, Zenon DEF OnRecord
<1> QED
  BY <1>4, <1>5, <1>6, <1>7, <1>8, Zenon DEF Search!SearchIsOnRecord, FallbackClock

\* The invariant holds of every search.
LEMMA SearchInvariance == PlannerSpec => []SearchInvariant
<1>1. PlannerInit => SearchInvariant
  BY SearchStarts, Zenon DEF PlannerInit, SearchInvariant
<1>2. SearchInvariant /\ [PlannerNext]_allVars => SearchInvariant'
  <2> SUFFICES ASSUME SearchInvariant, [PlannerNext]_allVars, setting' = "search"
               PROVE  SearchInv'
    BY DEF SearchInvariant
  <2>1. setting = "search" /\ (Search!SearchNext \/ UNCHANGED searchVars)
    BY DEF PlannerNext, allVars
  <2> QED BY <2>1, SearchStepKeeps DEF SearchInvariant
<1> QED BY <1>1, <1>2, PTL DEF PlannerSpec

\* For every scenario of queries and policies: the choice made row by row is the rule over all the
\* accepted rows, with its own entry and a schedule the validator admits, and a fallback proposal
\* never displaced a primary one (search_local_clearing, local_rank).
THEOREM EveryClearingIsTheBest == PlannerSpec => []ClearingIsTheBest
<1>1. SearchInvariant => ClearingIsTheBest
  BY SelectedIsTheBest DEF SearchInvariant, ClearingIsTheBest
<1> QED BY <1>1, SearchInvariance, PTL

\* For every scenario: an exhausted search has tried every row of both clocks and none of the
\* fallback twice, within eight entries' work; and an error leaves the search on record as far as
\* it went (checkpoint_local_search).
THEOREM EveryClearingSearchIsOnRecord == PlannerSpec => []ClearingSearchIsOnRecord
<1>1. SearchInvariant => ClearingSearchIsOnRecord
  BY SearchLeavesARecord DEF SearchInvariant, ClearingSearchIsOnRecord
<1> QED BY <1>1, SearchInvariance, PTL

----------------------------------------------------------------------------
(* The inductive invariant of the session.                                  *)

Cycles ==
  [index : Nat, entry : Nat, nominal : Steps, audit : Audits, decision : Decisions,
   proposal : [E : Steps, X : Steps, H : Steps], exit : Exits, query : Steps, proven : BOOLEAN]
Segments == [kind : Kinds, from : Nat, to : Nat]

SessionTypes ==
  /\ flying \in BOOLEAN /\ deadline \in Nat
  /\ live \in [step : Nat, craft : Crafts]
  /\ stage \in Stages /\ pending \in Cycles \cup {NoCycle} /\ queued \in Steps
  /\ cycles \in Seq(Cycles) /\ segments \in Seq(Segments) /\ corrections \in Nat
  /\ stop \in Stops /\ terminal \in Stops \cup {"None"}
  /\ integrity \in BOOLEAN /\ replayed \in BOOLEAN /\ finalized \in BOOLEAN

\* Where a piece's correction has been handed over, and where the piece underway,
\* or the one that comes next, was entered.
HandedOver(c) == IF c.exit = "Committed" THEN c.query ELSE c.proposal.H
PieceEntry == IF stage = "idle" THEN live.step ELSE pending.entry

\* A proposal that the search may accept: in order, guarded before the deadline.
ProposalInTime(p) ==
  /\ p \in [E : Nat, X : Steps, H : Nat]
  /\ p.E + MinPowered < p.H /\ p.H + Continuation <= deadline
  /\ p.X # NoStep => p.E + MinPowered < p.X /\ p.X < p.H

\* What is known of the piece underway at each stage of it.
PieceUnderway ==
  stage # "idle" =>
    /\ terminal = "None" /\ pending \in Cycles /\ pending.index = Len(cycles)
    /\ pending.decision # "LocalCleared" /\ pending.exit # "Committed"
    /\ stage \notin {"entered", "leaving"} => pending.entry = live.step
    /\ stage = "accepted" => pending.audit = "Passed"
    /\ stage \in {"selected", "entered", "leaving"} =>
         ProposalInTime(pending.proposal) /\ pending.entry <= pending.proposal.E
    /\ stage \in {"entered", "leaving"} => live.step = pending.proposal.E
    /\ stage = "leaving" => pending.query # NoStep /\ pending.query = pending.proposal.X

\* The cycles chain, and while the session is active each of them is a correction.
Chain(cs) ==
  /\ \A i \in 1..Len(cs) : cs[i].index = i - 1
  /\ \A i \in 1..(Len(cs) - 1) :
       cs[i + 1].entry = HandedOver(cs[i]) /\ cs[i + 1].entry > cs[i].entry
Counted(cs, n) ==
  /\ n \in {Len(cs) - 1, Len(cs)}
  /\ \A i \in 1..Len(cs) : cs[i].decision = "LocalCleared" <=> i <= n
CyclesChain ==
  /\ Chain(cycles) /\ Counted(cycles, corrections)
  /\ terminal = "None" => corrections = Len(cycles)
  /\ terminal = "None" /\ cycles # <<>> =>
       PieceEntry = HandedOver(Last(cycles)) /\ PieceEntry > Last(cycles).entry

\* After a handoff the craft coasts, with guarded time left.
TimeAfterHandoff ==
  /\ terminal = "None" /\ cycles # <<>> /\ stage \in {"idle", "planning"} =>
       live.craft = "Coasting" /\ live.step < deadline
  /\ corrections > 0 => terminal \notin {"Deadline", "Unsupported"}

\* A committed exit belongs to the last cycle, whose landing is then queued or being flown, or to
\* the last but one, of a flight that ended.
CommittedLate(cs, end) ==
  \A i \in 1..Len(cs) : cs[i].exit = "Committed" =>
    \/ i = Len(cs) /\ end = "None"
    \/ i = Len(cs) - 1 /\ end \in {"Landed", "ImplementationError"}
ExitsCommitted ==
  /\ CommittedLate(cycles, terminal)
  /\ terminal = "None" /\ cycles # <<>> /\ Last(cycles).exit = "Committed" =>
       \/ stage \in {"idle", "planning"} /\ queued = live.step
       \/ stage \in {"planned", "accepted"} /\ pending.audit = "Passed"
  /\ queued # NoStep =>
       /\ terminal = "None" /\ stage \in {"idle", "planning"}
       /\ cycles # <<>> /\ Last(cycles).exit = "Committed"

\* The segments own every step of the flight up to this one, each exactly once.
Covers(segs, step) ==
  IF segs = <<>> THEN step = 0
  ELSE /\ segs[1].from = 0 /\ Last(segs).to = step
       /\ \A i \in 1..Len(segs) : segs[i].from < segs[i].to
       /\ \A i \in 1..(Len(segs) - 1) : segs[i].to = segs[i + 1].from

\* The verdict and what it rests on.
VerdictFounded ==
  /\ terminal = "None" => flying /\ integrity /\ stop = "NoNominal" /\ ~finalized
  /\ ~integrity <=> stop = "ImplementationError"
  /\ integrity => Covers(segments, live.step)
  /\ stop = "Landed" =>
       /\ flying /\ live.craft = "Landed" /\ cycles # <<>>
       /\ Last(cycles).decision = "Direct" /\ Last(cycles).audit = "Passed"
       /\ finalized => replayed

IInv ==
  /\ SessionTypes /\ PieceUnderway /\ CyclesChain /\ TimeAfterHandoff
  /\ ExitsCommitted /\ VerdictFounded

----------------------------------------------------------------------------
(* The cycles and the segments, as sequences that grow.                     *)

\* A cycle entered where the last one handed over continues the chain.
LEMMA ChainGrows ==
  ASSUME NEW cs \in Seq(Cycles), NEW c \in Cycles, Chain(cs), c.index = Len(cs),
         cs # <<>> => c.entry = HandedOver(Last(cs)) /\ c.entry > Last(cs).entry
  PROVE  Chain(Append(cs, c))
<1> DEFINE ds == Append(cs, c)
<1>1. /\ Len(cs) \in Nat /\ Len(ds) = Len(cs) + 1 /\ ds[Len(cs) + 1] = c
      /\ \A i \in 1..Len(cs) : ds[i] = cs[i]
  BY AppendProperties
<1>2. cs = <<>> <=> Len(cs) = 0
  BY EmptySeq
<1> HIDE DEF ds
<1>3. ASSUME NEW i \in 1..Len(ds) PROVE ds[i].index = i - 1
  BY <1>1 DEF Chain
<1>4. ASSUME NEW i \in 1..(Len(ds) - 1)
      PROVE  ds[i + 1].entry = HandedOver(ds[i]) /\ ds[i + 1].entry > ds[i].entry
  <2>1. CASE i = Len(cs)
    BY <1>1, <1>2, <2>1 DEF Last
  <2>2. CASE i # Len(cs)
    BY <1>1, <2>2 DEF Chain
  <2> QED BY <2>1, <2>2
<1>5. Chain(ds)
  BY <1>3, <1>4 DEF Chain
<1> QED BY <1>5 DEF ds

\* Pushing a correction counts one more; pushing anything else ends the count.
LEMMA CountGrows ==
  ASSUME NEW cs \in Seq(Cycles), NEW c \in Cycles, Counted(cs, Len(cs))
  PROVE  Counted(Append(cs, c), IF c.decision = "LocalCleared" THEN Len(cs) + 1 ELSE Len(cs))
<1> DEFINE ds == Append(cs, c)
<1>1. /\ Len(cs) \in Nat /\ Len(ds) = Len(cs) + 1 /\ ds[Len(cs) + 1] = c
      /\ \A i \in 1..Len(cs) : ds[i] = cs[i]
  BY AppendProperties
<1> HIDE DEF ds
<1>2. \A i \in 1..Len(cs) : ds[i].decision = "LocalCleared"
  BY <1>1 DEF Counted
<1>3. Counted(ds, IF c.decision = "LocalCleared" THEN Len(cs) + 1 ELSE Len(cs))
  BY <1>1, <1>2 DEF Counted
<1> QED BY <1>3 DEF ds

\* What is pushed is the last cycle of a longer result.
LEMMA LastGrows ==
  ASSUME NEW cs \in Seq(Cycles), NEW c \in Cycles
  PROVE  /\ Append(cs, c) \in Seq(Cycles) /\ Append(cs, c) # <<>>
         /\ Last(Append(cs, c)) = c /\ Len(Append(cs, c)) = Len(cs) + 1
BY AppendProperties DEF Last

\* A segment from where the ledger ends to a later step extends what it covers;
\* an empty one leaves it as it is.
LEMMA LedgerGrows ==
  ASSUME SessionTypes, NEW kind \in Kinds, NEW from \in Nat, NEW to \in Nat, from <= to,
         Covers(segments, from), AppendSegment(kind, from, to)
  PROVE  /\ segments' \in Seq(Segments)
         /\ Covers(segments', to)
<1>1. segments \in Seq(Segments)
  BY DEF SessionTypes
<1>2. CASE from = to
  BY <1>1, <1>2 DEF AppendSegment, Covers, Last
<1>3. CASE from # to
  <2> DEFINE s == [kind |-> kind, from |-> from, to |-> to]
  <2>1. s \in Segments
    BY DEF Segments
  <2>2. segments' = Append(segments, s)
    BY <1>3 DEF AppendSegment
  <2>3. /\ Len(segments) \in Nat /\ Len(segments') = Len(segments) + 1
        /\ segments'[Len(segments) + 1] = s /\ segments' # <<>> /\ segments' \in Seq(Segments)
        /\ \A i \in 1..Len(segments) : segments'[i] = segments[i]
    BY <1>1, <2>1, <2>2, AppendProperties
  <2>4. segments = <<>> <=> Len(segments) = 0
    BY <1>1, EmptySeq
  <2>5. s.from = from /\ s.to = to
    OBVIOUS
  <2> HIDE DEF s
  <2>6. CASE segments = <<>>
    BY <1>3, <2>3, <2>4, <2>5, <2>6 DEF Covers, Last
  <2>7. CASE segments # <<>>
    <3>1. segments[1].from = 0 /\ segments'[1].from = 0
      BY <2>3, <2>4, <2>7 DEF Covers
    <3>2. Last(segments').to = to
      BY <2>3, <2>5 DEF Last
    <3>3. ASSUME NEW i \in 1..Len(segments') PROVE segments'[i].from < segments'[i].to
      BY <1>3, <2>3, <2>5, <2>7 DEF Covers
    <3>4. ASSUME NEW i \in 1..(Len(segments') - 1)
          PROVE  segments'[i].to = segments'[i + 1].from
      <4>1. CASE i = Len(segments)
        BY <2>3, <2>4, <2>5, <2>7, <4>1 DEF Covers, Last
      <4>2. CASE i # Len(segments)
        BY <2>3, <2>7, <4>2 DEF Covers
      <4> QED BY <4>1, <4>2
    <3> QED BY <2>3, <3>1, <3>2, <3>3, <3>4 DEF Covers
  <2> QED BY <2>3, <2>6, <2>7
<1> QED BY <1>2, <1>3

----------------------------------------------------------------------------
(* How a call ends.                                                         *)

\* The cycles of an active session, with a cycle of the piece underway pushed.
LEMMA PushedCycle ==
  ASSUME IInv, stage # "idle", NEW c \in Cycles,
         c.index = pending.index, c.entry = pending.entry
  PROVE  /\ Append(cycles, c) \in Seq(Cycles) /\ Append(cycles, c) # <<>>
         /\ Last(Append(cycles, c)) = c /\ Len(Append(cycles, c)) = Len(cycles) + 1
         /\ \A i \in 1..Len(cycles) : Append(cycles, c)[i] = cycles[i]
         /\ Append(cycles, c)[Len(cycles) + 1] = c
         /\ Chain(Append(cycles, c))
         /\ Counted(Append(cycles, c), IF c.decision = "LocalCleared"
                                       THEN corrections + 1 ELSE corrections)
<1>1. /\ terminal = "None" /\ pending \in Cycles /\ pending.index = Len(cycles)
      /\ cycles \in Seq(Cycles) /\ corrections = Len(cycles)
      /\ Chain(cycles) /\ Counted(cycles, corrections)
  BY DEF IInv, PieceUnderway, CyclesChain, SessionTypes
<1>2. cycles # <<>> => c.entry = HandedOver(Last(cycles)) /\ c.entry > Last(cycles).entry
  BY <1>1 DEF IInv, CyclesChain, PieceEntry
<1>3. Chain(Append(cycles, c))
  BY <1>1, <1>2, ChainGrows
<1>4. Counted(Append(cycles, c), IF c.decision = "LocalCleared"
                                 THEN corrections + 1 ELSE corrections)
  BY <1>1, CountGrows
<1> QED BY <1>1, <1>3, <1>4, LastGrows, AppendProperties

\* While the session is active a committed exit can only be the last cycle's.
LEMMA CommittedIsLast ==
  ASSUME IInv, terminal = "None", NEW i \in 1..Len(cycles), cycles[i].exit = "Committed"
  PROVE  i = Len(cycles) /\ cycles # <<>> /\ Last(cycles).exit = "Committed"
<1>1. i = Len(cycles)
  BY DEF IInv, ExitsCommitted, CommittedLate
<1>2. cycles # <<>>
  BY <1>1, EmptySeq DEF IInv, SessionTypes
<1> QED BY <1>1, <1>2 DEF Last

\* A piece that ends the session, not in an error: a committed landing before it ends in nothing
\* but itself, and a correction before it leaves neither lack of time nor lack of support.
LEMMA EndKeepsInv ==
  ASSUME IInv, stage # "idle", NEW cause \in Stops \ {"ImplementationError"}, NEW c \in Cycles,
         c.index = pending.index, c.entry = pending.entry, c.exit # "Committed",
         c.decision # "LocalCleared", EndWith(cause, c),
         live' \in [step : Nat, craft : Crafts], segments' \in Seq(Segments), queued' = NoStep,
         Covers(segments', live'.step),
         cause = "Landed" => live'.craft = "Landed" /\ c.decision = "Direct" /\ c.audit = "Passed",
         cycles # <<>> /\ Last(cycles).exit = "Committed" => cause = "Landed",
         corrections > 0 => cause \notin {"Deadline", "Unsupported"}
  PROVE  IInv'
<1>1. /\ stage' = "idle" /\ pending' = NoCycle /\ cycles' = Append(cycles, c)
      /\ stop' = cause /\ terminal' = cause /\ cause # "None"
      /\ flying' = flying /\ deadline' = deadline /\ corrections' = corrections
      /\ integrity' = integrity /\ replayed' = replayed /\ finalized' = finalized
  BY DEF EndWith, given, Stops, PreflightStops
<1>2. /\ terminal = "None" /\ flying /\ integrity /\ ~finalized
      /\ SessionTypes /\ corrections = Len(cycles)
  BY DEF IInv, PieceUnderway, VerdictFounded, CyclesChain
<1>3. /\ cycles' \in Seq(Cycles) /\ cycles' # <<>> /\ Last(cycles') = c
      /\ Len(cycles') = Len(cycles) + 1 /\ Len(cycles) \in Nat
      /\ \A i \in 1..Len(cycles) : cycles'[i] = cycles[i]
      /\ cycles'[Len(cycles) + 1] = c
      /\ Chain(cycles') /\ Counted(cycles', corrections)
  BY <1>1, <1>2, PushedCycle DEF SessionTypes
<1>4. SessionTypes'
  BY <1>1, <1>2, <1>3 DEF SessionTypes, Stages, Steps
<1>5. PieceUnderway'
  BY <1>1 DEF PieceUnderway
<1>6. CyclesChain'
  BY <1>1, <1>3 DEF CyclesChain
<1>7. TimeAfterHandoff'
  BY <1>1 DEF TimeAfterHandoff
<1>8. ExitsCommitted'
  <2>1. ASSUME NEW i \in 1..Len(cycles'), cycles'[i].exit = "Committed"
        PROVE  i = Len(cycles') - 1 /\ terminal' = "Landed"
    <3>1. i # Len(cycles) + 1
      BY <1>3, <2>1
    <3>2. i \in 1..Len(cycles) /\ cycles[i].exit = "Committed"
      BY <1>3, <2>1, <3>1
    <3> QED BY <1>1, <1>2, <1>3, <3>2, CommittedIsLast
  <2> QED BY <1>1, <2>1 DEF ExitsCommitted, CommittedLate
<1>9. VerdictFounded'
  BY <1>1, <1>2, <1>3 DEF VerdictFounded, SessionTypes
<1> QED BY <1>4, <1>5, <1>6, <1>7, <1>8, <1>9 DEF IInv

\* A piece that hands over: the craft coasts to a later step with guarded time left, and what is
\* queued is a landing committed to there.
LEMMA HandOverKeepsInv ==
  ASSUME IInv, stage # "idle", NEW c \in Cycles, NEW h \in Nat,
         c.index = pending.index, c.entry = pending.entry,
         c.decision = "LocalCleared", HandOver(c),
         live' = [step |-> h, craft |-> "Coasting"], segments' \in Seq(Segments),
         Covers(segments', live'.step),
         h = HandedOver(c), h > c.entry, h < deadline,
         queued' = IF c.exit = "Committed" THEN h ELSE NoStep,
         cycles # <<>> => Last(cycles).exit # "Committed"
  PROVE  IInv'
<1>1. /\ stage' = "idle" /\ pending' = c /\ cycles' = Append(cycles, c)
      /\ corrections' = corrections + 1
      /\ flying' = flying /\ deadline' = deadline /\ stop' = stop /\ terminal' = terminal
      /\ integrity' = integrity /\ replayed' = replayed /\ finalized' = finalized
  BY DEF HandOver, given
<1>2. /\ terminal = "None" /\ flying /\ integrity /\ ~finalized /\ stop = "NoNominal"
      /\ SessionTypes /\ corrections = Len(cycles)
  BY DEF IInv, PieceUnderway, VerdictFounded, CyclesChain
<1>3. /\ cycles' \in Seq(Cycles) /\ cycles' # <<>> /\ Last(cycles') = c
      /\ Len(cycles') = Len(cycles) + 1 /\ Len(cycles) \in Nat
      /\ \A i \in 1..Len(cycles) : cycles'[i] = cycles[i]
      /\ cycles'[Len(cycles) + 1] = c
      /\ Chain(cycles') /\ Counted(cycles', corrections')
  BY <1>1, <1>2, PushedCycle DEF SessionTypes
<1>4. SessionTypes'
  <2>1. live' \in [step : Nat, craft : Crafts] /\ queued' \in Steps
    BY DEF Crafts, Steps
  <2>2. corrections' \in Nat /\ stage' \in Stages /\ pending' \in Cycles
    BY <1>1, <1>2 DEF SessionTypes, Stages
  <2> QED BY <1>1, <1>2, <1>3, <2>1, <2>2 DEF SessionTypes
<1>5. PieceUnderway'
  BY <1>1 DEF PieceUnderway
<1>6. CyclesChain'
  <2>1. live'.step = HandedOver(Last(cycles')) /\ live'.step > Last(cycles').entry
    BY <1>3
  <2>2. corrections' = Len(cycles')
    BY <1>1, <1>2, <1>3
  <2> QED BY <1>1, <1>3, <2>1, <2>2 DEF CyclesChain, PieceEntry
<1>7. TimeAfterHandoff'
  BY <1>1, <1>2 DEF TimeAfterHandoff
<1>8. ExitsCommitted'
  <2>1. ASSUME NEW i \in 1..Len(cycles'), cycles'[i].exit = "Committed"
        PROVE  i = Len(cycles')
    <3>1. ASSUME i # Len(cycles) + 1 PROVE FALSE
      <4>1. i \in 1..Len(cycles) /\ cycles[i].exit = "Committed"
        BY <1>3, <2>1, <3>1
      <4> QED BY <1>2, <4>1, CommittedIsLast
    <3> QED BY <1>3, <3>1
  <2>2. CommittedLate(cycles', terminal')
    BY <1>1, <1>2, <2>1 DEF CommittedLate
  <2>3. c.exit = "Committed" => queued' = live'.step
    OBVIOUS
  <2>4. c.exit # "Committed" => queued' = NoStep
    OBVIOUS
  <2> QED BY <1>1, <1>2, <1>3, <2>2, <2>3, <2>4 DEF ExitsCommitted
<1>9. VerdictFounded'
  BY <1>1, <1>2, <1>3 DEF VerdictFounded, SessionTypes
<1> QED BY <1>4, <1>5, <1>6, <1>7, <1>8, <1>9 DEF IInv

\* A piece that goes on: nothing is pushed, and what the stage requires of the piece holds.
LEMMA GoOnKeepsInv ==
  ASSUME IInv, terminal = "None", NEW next \in Stages \ {"idle"}, NEW c \in Cycles, GoOn(next, c),
         UNCHANGED <<cycles, corrections>>,
         live' \in [step : Nat, craft : Crafts], segments' \in Seq(Segments), queued' \in Steps,
         Covers(segments', live'.step),
         c.index = Len(cycles), c.entry = PieceEntry,
         c.decision # "LocalCleared", c.exit # "Committed",
         next \notin {"entered", "leaving"} => c.entry = live'.step,
         next = "accepted" => c.audit = "Passed",
         next \in {"selected", "entered", "leaving"} =>
           ProposalInTime(c.proposal) /\ c.entry <= c.proposal.E,
         next \in {"entered", "leaving"} => live'.step = c.proposal.E,
         next = "leaving" => c.query # NoStep /\ c.query = c.proposal.X,
         next = "planning" => queued' = queued /\ live' = live /\ stage = "idle"
                              /\ live.step < deadline,
         next # "planning" => queued' = NoStep,
         cycles # <<>> /\ Last(cycles).exit = "Committed" =>
           next = "planning" \/ (next \in {"planned", "accepted"} /\ c.audit = "Passed")
  PROVE  IInv'
<1>1. /\ stage' = next /\ pending' = c /\ next # "idle"
      /\ cycles' = cycles /\ corrections' = corrections
      /\ flying' = flying /\ deadline' = deadline /\ stop' = stop /\ terminal' = terminal
      /\ integrity' = integrity /\ replayed' = replayed /\ finalized' = finalized
  BY DEF GoOn, given, verdict
<1>2. /\ flying /\ integrity /\ ~finalized /\ stop = "NoNominal"
      /\ SessionTypes /\ corrections = Len(cycles)
  BY DEF IInv, VerdictFounded, CyclesChain
<1>3. SessionTypes'
  BY <1>1, <1>2 DEF SessionTypes
<1>4. PieceUnderway'
  <2>1. next \in {"selected", "entered", "leaving"} => ProposalInTime(c.proposal)'
    BY <1>1 DEF ProposalInTime
  <2>2. \A x : ProposalInTime(x)' <=> ProposalInTime(x)
    BY <1>1 DEF ProposalInTime
  <2> QED BY <1>1, <2>1, <2>2 DEF PieceUnderway
<1>5. CyclesChain'
  <2>1. PieceEntry' = PieceEntry
    BY <1>1 DEF PieceEntry
  <2> QED BY <1>1, <2>1 DEF IInv, CyclesChain
<1>6. TimeAfterHandoff'
  BY <1>1 DEF IInv, TimeAfterHandoff
<1>7. ExitsCommitted'
  <2>1. CommittedLate(cycles, terminal)
    BY DEF IInv, ExitsCommitted
  <2>2. next = "planning" /\ queued # NoStep =>
          queued = live.step /\ cycles # <<>> /\ Last(cycles).exit = "Committed"
    BY DEF IInv, ExitsCommitted
  <2>3. next = "planning" /\ cycles # <<>> /\ Last(cycles).exit = "Committed" =>
          queued = live.step
    BY DEF IInv, ExitsCommitted
  <2> QED BY <1>1, <2>1, <2>2, <2>3 DEF ExitsCommitted
<1>8. VerdictFounded'
  BY <1>1, <1>2 DEF VerdictFounded, SessionTypes
<1> QED BY <1>3, <1>4, <1>5, <1>6, <1>7, <1>8 DEF IInv

\* A piece that fails: what was flown stays, and the cycle so far is the last one.
LEMMA FailKeepsInv ==
  ASSUME IInv, NEW step \in Nat, NEW craft \in Crafts \ {"Pad"}, NEW recorded \in BOOLEAN,
         Fail(step, craft, recorded)
  PROVE  IInv'
<1> DEFINE c == pending
<1>1. /\ stage # "idle" /\ stage' = "idle" /\ pending' = NoCycle /\ cycles' = Append(cycles, c)
      /\ stop' = "ImplementationError" /\ terminal' = "ImplementationError" /\ integrity' = FALSE
      /\ live' = [step |-> step, craft |-> IF step = live.step THEN live.craft ELSE craft]
      /\ flying' = flying /\ deadline' = deadline /\ corrections' = corrections
      /\ replayed' = replayed /\ finalized' = finalized
      /\ queued' = IF stage = "planning" THEN NoStep ELSE queued
  BY DEF Fail, given
<1>2. /\ terminal = "None" /\ flying /\ integrity /\ ~finalized /\ SessionTypes
      /\ corrections = Len(cycles) /\ c \in Cycles
      /\ c.decision # "LocalCleared" /\ c.exit # "Committed"
  BY <1>1 DEF IInv, PieceUnderway, VerdictFounded, CyclesChain
<1>3. /\ cycles' \in Seq(Cycles) /\ cycles' # <<>> /\ Last(cycles') = c
      /\ Len(cycles') = Len(cycles) + 1 /\ Len(cycles) \in Nat
      /\ \A i \in 1..Len(cycles) : cycles'[i] = cycles[i]
      /\ cycles'[Len(cycles) + 1] = c
      /\ Chain(cycles') /\ Counted(cycles', corrections)
  BY <1>1, <1>2, PushedCycle DEF SessionTypes
<1>4. queued' = NoStep
  BY <1>1 DEF IInv, ExitsCommitted
<1>5. segments' \in Seq(Segments)
  <2>1. CASE ~recorded
    BY <1>2, <2>1 DEF Fail, SessionTypes
  <2>2. CASE recorded
    <3>1. stage \in {"selected", "entered", "leaving"} /\ step = Target
          /\ AppendSegment(FlownKind, FlownFrom, step)
      BY <2>2 DEF Fail
    <3>2. ProposalInTime(c.proposal) /\ c.entry \in Nat /\ c.entry <= c.proposal.E
      BY <1>1, <1>2, <3>1 DEF IInv, PieceUnderway, Cycles
    <3>3. FlownKind \in Kinds
      BY DEF FlownKind, NominalKind, Kinds
    <3>4. FlownFrom \in Nat /\ FlownFrom = live.step
      BY <1>1, <3>1, <3>2 DEF FlownFrom, ProposalInTime, IInv, PieceUnderway
    <3>5. FlownFrom <= step
      BY <3>4 DEF Fail
    <3>6. Covers(segments, FlownFrom)
      BY <1>2, <3>4 DEF IInv, VerdictFounded
    <3> QED BY <1>2, <3>1, <3>3, <3>4, <3>5, <3>6, LedgerGrows
  <2> QED BY <2>1, <2>2
<1>6. SessionTypes'
  BY <1>1, <1>2, <1>3, <1>4, <1>5 DEF SessionTypes, Stages, Steps, Stops
<1>7. PieceUnderway'
  BY <1>1 DEF PieceUnderway
<1>8. CyclesChain'
  BY <1>1, <1>3 DEF CyclesChain
<1>9. TimeAfterHandoff'
  BY <1>1 DEF TimeAfterHandoff
<1>10. ExitsCommitted'
  <2>1. ASSUME NEW i \in 1..Len(cycles'), cycles'[i].exit = "Committed"
        PROVE  i = Len(cycles') - 1
    <3>1. i # Len(cycles) + 1
      BY <1>2, <1>3, <2>1
    <3>2. i \in 1..Len(cycles) /\ cycles[i].exit = "Committed"
      BY <1>3, <2>1, <3>1
    <3> QED BY <1>2, <1>3, <3>2, CommittedIsLast
  <2> QED BY <1>1, <1>4, <2>1 DEF ExitsCommitted, CommittedLate
<1>11. VerdictFounded'
  BY <1>1, <1>3 DEF VerdictFounded
<1> QED BY <1>6, <1>7, <1>8, <1>9, <1>10, <1>11 DEF IInv

----------------------------------------------------------------------------
(* Every action.                                                            *)

\* What holds at every stage of a piece.
LEMMA Underway ==
  ASSUME IInv, stage # "idle"
  PROVE  /\ SessionTypes /\ terminal = "None" /\ flying /\ integrity /\ ~finalized
         /\ pending \in Cycles /\ pending.index = Len(cycles)
         /\ pending.decision # "LocalCleared" /\ pending.exit # "Committed"
         /\ PieceEntry = pending.entry /\ corrections = Len(cycles)
         /\ Covers(segments, live.step)
         /\ stage # "planning" => queued = NoStep
         /\ cycles # <<>> /\ Last(cycles).exit = "Committed" =>
              stage \in {"planning", "planned", "accepted"}
BY DEF IInv, PieceUnderway, VerdictFounded, CyclesChain, PieceEntry, ExitsCommitted

\* No time left, or a new piece from the live state.
LEMMA BeginKeepsInv == ASSUME IInv, Begin PROVE IInv'
<1>1. /\ stage = "idle" /\ terminal = "None" /\ SessionTypes /\ corrections = Len(cycles)
      /\ flying /\ integrity /\ ~finalized
      /\ UNCHANGED <<live, queued, cycles, segments, corrections>>
  BY DEF Begin, IInv, CyclesChain, VerdictFounded, records
<1>2. CASE live.step >= deadline
  <2>1. cycles = <<>>
    BY <1>1, <1>2 DEF IInv, TimeAfterHandoff, SessionTypes
  <2>2. corrections = 0 /\ Len(cycles) = 0
    BY <1>1, <2>1
  <2>3. /\ stage' = "idle" /\ pending' = NoCycle /\ stop' = "Deadline" /\ terminal' = "Deadline"
        /\ UNCHANGED <<flying, deadline, integrity, replayed, finalized>>
    BY <1>1, <1>2 DEF Begin, given
  <2>4. SessionTypes'
    BY <1>1, <2>3 DEF SessionTypes, Stops
  <2>5. PieceUnderway' /\ TimeAfterHandoff'
    BY <1>1, <2>1, <2>2, <2>3 DEF PieceUnderway, TimeAfterHandoff
  <2>6. CyclesChain'
    BY <1>1, <2>3 DEF IInv, CyclesChain
  <2>7. ExitsCommitted'
    BY <1>1, <2>1, <2>2, <2>3 DEF IInv, ExitsCommitted, CommittedLate
  <2>8. VerdictFounded'
    BY <1>1, <2>3 DEF IInv, VerdictFounded
  <2> QED BY <2>4, <2>5, <2>6, <2>7, <2>8 DEF IInv
<1>3. CASE live.step < deadline
  <2>0. ~(live.step >= deadline)
    BY <1>1, <1>3 DEF SessionTypes
  <2>1. GoOn("planning", NewCycle)
    BY <2>0 DEF Begin, GoOn
  <2>2. NewCycle \in Cycles
    BY <1>1 DEF NewCycle, Cycles, SessionTypes, Steps, Audits, Decisions, Exits, Refusals,
                NoProposal, NoStep
  <2>3. /\ NewCycle.index = Len(cycles) /\ NewCycle.entry = PieceEntry
        /\ NewCycle.entry = live.step /\ NewCycle.decision # "LocalCleared"
        /\ NewCycle.exit # "Committed"
    BY <1>1 DEF NewCycle, PieceEntry
  <2>4. Covers(segments', live'.step)
    BY <1>1 DEF IInv, VerdictFounded
  <2>5. /\ live' \in [step : Nat, craft : Crafts] /\ segments' \in Seq(Segments)
        /\ queued' \in Steps /\ live' = live /\ queued' = queued
    BY <1>1 DEF SessionTypes
  <2>6. "planning" \in Stages \ {"idle"}
    BY DEF Stages
  <2> HIDE DEF NewCycle
  <2> QED BY <1>1, <1>3, <2>1, <2>2, <2>3, <2>4, <2>5, <2>6, GoOnKeepsInv
<1> QED BY <1>1, <1>2, <1>3 DEF SessionTypes

\* A nominal is planned from the live state, or there is none and the piece ends.
LEMMA NominalFoundKeepsInv ==
  ASSUME IInv, stage = "planning", NEW step \in Steps, NEW audit \in Audits,
         NominalFound(step, audit), live' = live, queued' = NoStep,
         cycles # <<>> /\ Last(cycles).exit = "Committed" => audit = "Passed"
  PROVE  IInv'
<1> DEFINE c == [pending EXCEPT !.nominal = step, !.audit = audit]
<1>1. GoOn("planned", c) /\ UNCHANGED <<cycles, segments, corrections>>
  BY DEF NominalFound, records
<1>2. SessionTypes /\ terminal = "None" /\ pending \in Cycles /\ Covers(segments, live.step)
  BY Underway
<1>3. /\ c \in Cycles /\ c.index = pending.index /\ c.entry = pending.entry
      /\ c.decision = pending.decision /\ c.exit = pending.exit /\ c.audit = audit
  BY <1>2 DEF Cycles
<1>4. /\ live' \in [step : Nat, craft : Crafts] /\ segments' \in Seq(Segments)
      /\ queued' \in Steps /\ Covers(segments', live'.step) /\ "planned" \in Stages \ {"idle"}
  BY <1>1, <1>2 DEF SessionTypes, Steps, Stages
<1>5. c.index = Len(cycles) /\ c.entry = PieceEntry /\ c.entry = live'.step
      /\ c.decision # "LocalCleared" /\ c.exit # "Committed"
  BY <1>3, Underway DEF IInv, PieceUnderway
<1> HIDE DEF c
<1> QED BY <1>1, <1>2, <1>3, <1>4, <1>5, GoOnKeepsInv

\* Without a nominal the session ends, and the piece's cycle says so.
LEMMA NominalMissingKeepsInv ==
  ASSUME IInv, stage = "planning", NEW cause \in {"NoNominal", "Unsupported"},
         NominalMissing(cause), live' = live, queued' = NoStep,
         cycles # <<>> => Last(cycles).exit # "Committed",
         corrections > 0 => cause # "Unsupported"
  PROVE  IInv'
<1> DEFINE c == [pending EXCEPT !.nominal = live.step, !.decision = cause]
<1>1. EndWith(cause, c) /\ UNCHANGED segments
  BY DEF NominalMissing
<1>2. SessionTypes /\ pending \in Cycles /\ Covers(segments, live.step)
      /\ pending.exit # "Committed"
  BY Underway
<1>3. /\ c \in Cycles /\ c.index = pending.index /\ c.entry = pending.entry
      /\ c.decision = cause /\ c.exit = pending.exit
  BY <1>2 DEF Cycles, Decisions, Steps, SessionTypes
<1>4. /\ live' \in [step : Nat, craft : Crafts] /\ segments' \in Seq(Segments)
      /\ Covers(segments', live'.step)
  BY <1>1, <1>2 DEF SessionTypes
<1>5. cause \in Stops \ {"ImplementationError"} /\ cause \notin {"Landed", "LocalCleared", "Deadline"}
  BY DEF Stops, PreflightStops
<1> HIDE DEF c
<1> QED BY <1>1, <1>2, <1>3, <1>4, <1>5, EndKeepsInv

\* The first piece searches its nominal where the flight starts.
LEMMA BuildInitialNominalKeepsInv ==
  ASSUME IInv, NEW audit \in Audits, BuildInitialNominal(audit)
  PROVE  IInv'
<1>1. stage = "planning" /\ cycles = <<>> /\ UNCHANGED <<live, queued>>
  BY DEF BuildInitialNominal
<1>2. queued' = NoStep /\ corrections = 0 /\ live.step \in Steps
  BY <1>1, Underway DEF IInv, ExitsCommitted, SessionTypes, Steps
<1>3. NominalMissing("NoNominal") \/ NominalFound(live.step, audit)
  BY DEF BuildInitialNominal
<1> QED BY <1>1, <1>2, <1>3, NominalFoundKeepsInv, NominalMissingKeepsInv

\* The nominal queued by an early exit waits where the piece begins; and after a correction the
\* craft coasts, which the search supports.
LEMMA BuildAcquisitionNominalKeepsInv ==
  ASSUME IInv, NEW audit \in Audits, BuildAcquisitionNominal(audit)
  PROVE  IInv'
<1>1. stage = "planning" /\ cycles # <<>> /\ live' = live /\ queued' = NoStep
  BY DEF BuildAcquisitionNominal
<1>2. SessionTypes /\ terminal = "None"
  BY <1>1, Underway
<1>3. live.craft = "Coasting" /\ live.step \in Steps /\ queued \in Steps
  BY <1>1, <1>2 DEF IInv, TimeAfterHandoff, SessionTypes, Steps
<1>4. CASE queued # NoStep
  <2>1. audit = "Passed" /\ NominalFound(queued, audit)
    BY <1>4 DEF BuildAcquisitionNominal
  <2> QED BY <1>1, <1>3, <2>1, NominalFoundKeepsInv
<1>5. CASE queued = NoStep
  <2>1. Last(cycles).exit # "Committed"
    BY <1>1, <1>2, <1>5 DEF IInv, ExitsCommitted, SessionTypes, NoStep
  <2>2. NominalMissing("NoNominal") \/ NominalFound(live.step, audit)
    BY <1>3, <1>5 DEF BuildAcquisitionNominal
  <2> QED BY <1>1, <1>3, <2>1, <2>2, NominalFoundKeepsInv, NominalMissingKeepsInv
<1> QED BY <1>4, <1>5

\* The audit's answer decides; one that passed is the only one a committed landing has.
LEMMA ProvePrefixKeepsInv == ASSUME IInv, ProvePrefix PROVE IInv'
<1>1. stage = "planned" /\ UNCHANGED <<live, queued, segments>>
  BY DEF ProvePrefix
<1>2. /\ SessionTypes /\ terminal = "None" /\ pending \in Cycles /\ Covers(segments, live.step)
      /\ queued' = NoStep /\ pending.exit # "Committed" /\ pending.index = Len(cycles)
      /\ pending.entry = PieceEntry /\ pending.entry = live.step
  BY <1>1, Underway DEF IInv, PieceUnderway
<1>3. /\ live' \in [step : Nat, craft : Crafts] /\ segments' \in Seq(Segments)
      /\ Covers(segments', live'.step)
  BY <1>1, <1>2 DEF SessionTypes
<1>4. cycles # <<>> /\ Last(cycles).exit = "Committed" => pending.audit = "Passed"
  BY <1>1, <1>2 DEF IInv, ExitsCommitted
<1> DEFINE C(d) == [pending EXCEPT !.decision = d]
<1>5. ASSUME NEW d \in Decisions \ {"LocalCleared"}
      PROVE  /\ C(d) \in Cycles /\ C(d).index = pending.index /\ C(d).entry = pending.entry
             /\ C(d).decision # "LocalCleared" /\ C(d).exit # "Committed"
             /\ C(d).audit = pending.audit
  BY <1>2 DEF Cycles
<1>6. {"NominalRejected", "TerrainBlocked", "CorrectionLimit"} \subseteq Decisions \ {"LocalCleared"}
  BY DEF Decisions
<1>7. {"NominalRejected", "CorrectionLimit"}
        \subseteq Stops \ {"ImplementationError", "Landed", "Deadline", "Unsupported"}
  BY DEF Stops, PreflightStops
<1>8. {"accepted", "blocked"} \subseteq Stages \ {"idle"}
  BY DEF Stages
<1>9. \/ pending.audit # "Passed" /\ EndWith("NominalRejected", C("NominalRejected"))
      \/ /\ pending.audit = "Passed" /\ GoOn("accepted", C("NominalRejected"))
         /\ UNCHANGED <<cycles, corrections>>
      \/ /\ pending.audit # "Passed" /\ GoOn("blocked", C("TerrainBlocked"))
         /\ UNCHANGED <<cycles, corrections>>
      \/ pending.audit # "Passed" /\ EndWith("CorrectionLimit", C("CorrectionLimit"))
  BY DEF ProvePrefix
<1> HIDE DEF C
<1>10. CASE pending.audit # "Passed" /\ EndWith("NominalRejected", C("NominalRejected"))
  BY <1>1, <1>2, <1>3, <1>4, <1>5, <1>6, <1>7, <1>10, EndKeepsInv
<1>11. CASE pending.audit # "Passed" /\ EndWith("CorrectionLimit", C("CorrectionLimit"))
  BY <1>1, <1>2, <1>3, <1>4, <1>5, <1>6, <1>7, <1>11, EndKeepsInv
<1>12. CASE /\ pending.audit = "Passed" /\ GoOn("accepted", C("NominalRejected"))
            /\ UNCHANGED <<cycles, corrections>>
  <2>1. queued' \in Steps /\ C("NominalRejected").entry = live'.step
    BY <1>1, <1>2, <1>5, <1>6 DEF Steps
  <2> QED BY <1>1, <1>2, <1>3, <1>4, <1>5, <1>6, <1>8, <1>12, <2>1, GoOnKeepsInv
<1>13. CASE /\ pending.audit # "Passed" /\ GoOn("blocked", C("TerrainBlocked"))
            /\ UNCHANGED <<cycles, corrections>>
  <2>1. queued' \in Steps /\ C("TerrainBlocked").entry = live'.step
    BY <1>1, <1>2, <1>5, <1>6 DEF Steps
  <2> QED BY <1>1, <1>2, <1>3, <1>4, <1>5, <1>6, <1>8, <1>13, <2>1, GoOnKeepsInv
<1> QED BY <1>9, <1>10, <1>11, <1>12, <1>13

\* Flown to the landing its audit has seen.
LEMMA ExecuteDirectKeepsInv ==
  ASSUME IInv, NEW landing \in Nat, landing > live.step, ExecuteDirect(landing)
  PROVE  IInv'
<1> DEFINE c == [pending EXCEPT !.decision = "Direct"]
<1>1. /\ stage = "accepted" /\ live' = [step |-> landing, craft |-> "Landed"]
      /\ AppendSegment(NominalKind, pending.entry, landing)
      /\ EndWith("Landed", c) /\ queued' = queued
  BY DEF ExecuteDirect
<1>2. /\ SessionTypes /\ pending \in Cycles /\ Covers(segments, live.step) /\ queued = NoStep
      /\ pending.exit # "Committed" /\ pending.entry = live.step /\ pending.audit = "Passed"
  BY <1>1, Underway DEF IInv, PieceUnderway
<1>3. /\ c \in Cycles /\ c.index = pending.index /\ c.entry = pending.entry
      /\ c.decision = "Direct" /\ c.exit # "Committed" /\ c.audit = "Passed"
  BY <1>2 DEF Cycles, Decisions
<1>4. NominalKind \in Kinds /\ live.step \in Nat
  BY <1>2 DEF NominalKind, Kinds, SessionTypes
<1>5. segments' \in Seq(Segments) /\ Covers(segments', landing)
  BY <1>1, <1>2, <1>4, LedgerGrows
<1>6. live' \in [step : Nat, craft : Crafts] /\ Covers(segments', live'.step)
  BY <1>1, <1>5 DEF Crafts
<1>7. "Landed" \in Stops \ {"ImplementationError"}
  BY DEF Stops, PreflightStops
<1> HIDE DEF c
<1> QED BY <1>1, <1>2, <1>3, <1>5, <1>6, <1>7, EndKeepsInv

\* A correction that is selected lies ahead of the live flight.
LEMMA SelectClearingKeepsInv ==
  ASSUME IInv, NEW p \in Clearings, SelectClearing(p)
  PROVE  IInv'
<1> DEFINE c == [pending EXCEPT !.proposal = p]
<1>1. stage = "blocked" /\ GoOn("selected", c)
      /\ UNCHANGED <<live, queued, cycles, segments, corrections>>
  BY DEF SelectClearing, records
<1>2. /\ SessionTypes /\ terminal = "None" /\ pending \in Cycles /\ Covers(segments, live.step)
      /\ queued = NoStep /\ pending.entry = live.step
      /\ cycles # <<>> => Last(cycles).exit # "Committed"
  BY <1>1, Underway DEF IInv, PieceUnderway
<1>3. /\ ProposalInTime(p) /\ live.step <= p.E
      /\ p \in [E : Steps, X : Steps, H : Steps]
  <2>1. Boundaries \subseteq Nat /\ \A k \in Boundaries : live.step <= k
    BY <1>2 DEF Boundaries, SessionTypes
  <2>2. /\ p \in [E : Nat, X : Steps, H : Nat] /\ p.E \in Boundaries
        /\ p \in [E : Steps, X : Steps, H : Steps]
    BY <2>1 DEF Clearings, Steps
  <2> QED BY <2>1, <2>2 DEF Clearings, ProposalInTime
<1>4. /\ c \in Cycles /\ c.index = pending.index /\ c.entry = pending.entry
      /\ c.decision = pending.decision /\ c.exit = pending.exit /\ c.proposal = p
  BY <1>2, <1>3 DEF Cycles
<1>5. /\ c.index = Len(cycles) /\ c.entry = PieceEntry /\ c.entry = live'.step
      /\ c.decision # "LocalCleared" /\ c.exit # "Committed"
  BY <1>1, <1>2, <1>4, Underway
<1>6. /\ live' \in [step : Nat, craft : Crafts] /\ segments' \in Seq(Segments)
      /\ queued' \in Steps /\ Covers(segments', live'.step) /\ "selected" \in Stages \ {"idle"}
  BY <1>1, <1>2 DEF SessionTypes, Steps, Stages
<1> HIDE DEF c
<1> QED BY <1>1, <1>2, <1>3, <1>4, <1>5, <1>6, GoOnKeepsInv

\* A search that finds no correction ends the session, and the piece's cycle says so.
LEMMA FindNoClearingKeepsInv == ASSUME IInv, FindNoClearing PROVE IInv'
<1> DEFINE c == [pending EXCEPT !.decision = "NoClearing"]
<1>1. stage = "blocked" /\ EndWith("NoClearing", c) /\ UNCHANGED <<live, queued, segments>>
  BY DEF FindNoClearing
<1>2. /\ SessionTypes /\ pending \in Cycles /\ Covers(segments, live.step)
      /\ queued = NoStep /\ pending.exit # "Committed"
      /\ cycles # <<>> => Last(cycles).exit # "Committed"
  BY <1>1, Underway
<1>3. /\ c \in Cycles /\ c.index = pending.index /\ c.entry = pending.entry
      /\ c.decision = "NoClearing" /\ c.exit # "Committed"
  BY <1>2 DEF Cycles, Decisions
<1>4. /\ live' \in [step : Nat, craft : Crafts] /\ segments' \in Seq(Segments)
      /\ Covers(segments', live'.step)
  BY <1>1, <1>2 DEF SessionTypes
<1>5. "NoClearing" \in Stops \ {"ImplementationError"}
  BY DEF Stops, PreflightStops
<1> HIDE DEF c
<1> QED BY <1>1, <1>2, <1>3, <1>4, <1>5, EndKeepsInv

\* The flight is taken to the entry of the correction; whether it may be left early is on record.
LEMMA EnterCorrectionKeepsInv ==
  ASSUME IInv, NEW exit \in Exits \ {"None", "Committed"}, EnterCorrection(exit)
  PROVE  IInv'
<1> DEFINE p == pending.proposal
           c == [pending EXCEPT !.exit = exit, !.query = p.X]
           next == IF exit = "ClearReady" THEN "leaving" ELSE "entered"
<1>1. /\ stage = "selected" /\ (exit = "NoEarlierBoundary" <=> p.X = NoStep)
      /\ live' = [step |-> p.E, craft |-> "Flying"]
      /\ AppendSegment(NominalKind, pending.entry, p.E)
      /\ GoOn(next, c) /\ UNCHANGED <<queued, cycles, corrections>>
  BY DEF EnterCorrection
<1>2. /\ SessionTypes /\ terminal = "None" /\ pending \in Cycles /\ Covers(segments, live.step)
      /\ queued = NoStep /\ pending.entry = live.step /\ ProposalInTime(p) /\ live.step <= p.E
      /\ cycles # <<>> => Last(cycles).exit # "Committed"
  BY <1>1, Underway DEF IInv, PieceUnderway
<1>3. p.E \in Nat /\ p.X \in Steps /\ live.step \in Nat
  BY <1>2 DEF ProposalInTime, SessionTypes
<1>4. /\ c \in Cycles /\ c.index = pending.index /\ c.entry = pending.entry
      /\ c.decision = pending.decision /\ c.exit = exit /\ c.proposal = p /\ c.query = p.X
  BY <1>2, <1>3 DEF Cycles
<1>5. /\ c.index = Len(cycles) /\ c.entry = PieceEntry /\ c.entry <= p.E
      /\ c.decision # "LocalCleared" /\ c.exit # "Committed"
  BY <1>1, <1>2, <1>4, Underway
<1>6. NominalKind \in Kinds
  BY DEF NominalKind, Kinds
<1>7. segments' \in Seq(Segments) /\ Covers(segments', p.E)
  <2>1. AppendSegment(NominalKind, live.step, p.E)
    BY <1>1, <1>2
  <2> HIDE DEF p
  <2> QED BY <1>2, <1>3, <1>6, <2>1, LedgerGrows
<1>8. /\ live' \in [step : Nat, craft : Crafts] /\ live'.step = p.E
      /\ Covers(segments', live'.step) /\ queued' \in Steps /\ queued' = NoStep
  BY <1>1, <1>2, <1>3, <1>7 DEF Crafts, Steps
<1>9. next \in Stages \ {"idle"} /\ next \in {"entered", "leaving"}
  BY DEF Stages
<1>10. next = "leaving" => p.X # NoStep
  BY <1>1
<1> HIDE DEF c, next, p
<1> QED BY <1>1, <1>2, <1>4, <1>5, <1>7, <1>8, <1>9, <1>10, GoOnKeepsInv

\* Flown to the handoff, or to the checked boundary before it.
LEMMA ExecuteCorrectionKeepsInv == ASSUME IInv, ExecuteCorrection PROVE IInv'
<1> DEFINE p == pending.proposal
           c == [pending EXCEPT !.decision = "LocalCleared", !.proven = TRUE]
<1>1. /\ stage = "entered" /\ live' = [step |-> p.H, craft |-> "Coasting"]
      /\ AppendSegment("LocalCorrection", p.E, p.H) /\ HandOver(c) /\ queued' = queued
  BY DEF ExecuteCorrection
<1>2. /\ SessionTypes /\ pending \in Cycles /\ Covers(segments, live.step) /\ queued = NoStep
      /\ ProposalInTime(p) /\ pending.entry <= p.E /\ live.step = p.E
      /\ pending.exit # "Committed"
      /\ cycles # <<>> => Last(cycles).exit # "Committed"
  BY <1>1, Underway DEF IInv, PieceUnderway
<1>3. /\ c \in Cycles /\ c.index = pending.index /\ c.entry = pending.entry /\ c.exit = pending.exit
      /\ c.decision = "LocalCleared" /\ c.proposal = p
  BY <1>2 DEF Cycles, Decisions
<1>4. /\ p.E \in Nat /\ p.H \in Nat /\ p.E <= p.H /\ p.H > pending.entry /\ p.H < deadline
  BY <1>2, SessionAssumption DEF ProposalInTime, SessionTypes, Cycles
<1>5. HandedOver(c) = p.H
  BY <1>2, <1>3 DEF HandedOver
<1>6. "LocalCorrection" \in Kinds
  BY DEF Kinds
<1>7. segments' \in Seq(Segments) /\ Covers(segments', p.H)
  BY <1>1, <1>2, <1>4, <1>6, LedgerGrows
<1>8. stage # "idle" /\ live'.step = p.H
  BY <1>1
<1> HIDE DEF c, p
<1> QED BY <1>1, <1>2, <1>3, <1>4, <1>5, <1>7, <1>8, HandOverKeepsInv

\* A correction left early hands over at its exit, with the nominal queued from there.
LEMMA ExecuteEarlyExitKeepsInv == ASSUME IInv, ExecuteEarlyExit PROVE IInv'
<1> DEFINE p == pending.proposal
           q == pending.query
           c == [pending EXCEPT !.decision = "LocalCleared", !.exit = "Committed", !.proven = TRUE]
<1>1. /\ stage = "leaving" /\ live' = [step |-> q, craft |-> "Coasting"]
      /\ AppendSegment("LocalCorrection", p.E, q) /\ HandOver(c) /\ queued' = q
  BY DEF ExecuteEarlyExit
<1>2. /\ SessionTypes /\ pending \in Cycles /\ Covers(segments, live.step)
      /\ ProposalInTime(p) /\ pending.entry <= p.E /\ live.step = p.E
      /\ q # NoStep /\ q = p.X
      /\ cycles # <<>> => Last(cycles).exit # "Committed"
  BY <1>1, Underway DEF IInv, PieceUnderway
<1>3. /\ c \in Cycles /\ c.index = pending.index /\ c.entry = pending.entry
      /\ c.exit = "Committed" /\ c.decision = "LocalCleared" /\ c.query = q
  BY <1>2 DEF Cycles, Decisions, Exits
<1>4. /\ p.E \in Nat /\ q \in Nat /\ p.E <= q /\ q > pending.entry /\ q < deadline
  BY <1>2, SessionAssumption DEF ProposalInTime, SessionTypes, Cycles, Steps
<1>5. HandedOver(c) = q
  BY <1>3 DEF HandedOver
<1>6. "LocalCorrection" \in Kinds
  BY DEF Kinds
<1>7. segments' \in Seq(Segments) /\ Covers(segments', q)
  BY <1>1, <1>2, <1>4, <1>6, LedgerGrows
<1>8. stage # "idle" /\ live'.step = q
  BY <1>1
<1> HIDE DEF c, p, q
<1> QED BY <1>1, <1>2, <1>3, <1>4, <1>5, <1>7, <1>8, HandOverKeepsInv

\* The final proof and validation only ever overturn.
LEMMA FinishKeepsInv == ASSUME IInv, NEW proof \in BOOLEAN, Finish(proof) PROVE IInv'
<1> DEFINE proved == ~flying \/ proof
           stopAfterProof == IF proved THEN stop ELSE "ImplementationError"
           sound == integrity /\ proved
           valid == ~flying \/ ValidRecords(stopAfterProof, sound)
<1>1. /\ stage = "idle" /\ terminal # "None" /\ ~finalized
      /\ proof => flying
      /\ replayed' = proof /\ integrity' = (sound /\ valid)
      /\ stop' = IF valid THEN stopAfterProof ELSE "ImplementationError"
      /\ terminal' = IF proved /\ valid THEN terminal ELSE "ImplementationError"
      /\ finalized' = TRUE
      /\ UNCHANGED <<flying, deadline, live, stage, pending, queued, cycles, segments, corrections>>
  BY DEF Finish, given, records
<1>2. /\ SessionTypes /\ (~integrity <=> stop = "ImplementationError")
      /\ integrity => Covers(segments, live.step)
  BY DEF IInv, VerdictFounded
<1>3. valid \in BOOLEAN /\ proved \in BOOLEAN
  BY <1>2 DEF SessionTypes
<1> HIDE DEF valid
<1>4. /\ stop' \in {stop, "ImplementationError"} /\ terminal' \in {terminal, "ImplementationError"}
      /\ ~integrity' <=> stop' = "ImplementationError"
      /\ stop' = "Landed" => stop = "Landed" /\ proved
      /\ integrity' => integrity
      /\ integrity' \in BOOLEAN
  BY <1>1, <1>2, <1>3 DEF SessionTypes
<1>5. SessionTypes'
  BY <1>1, <1>2, <1>4 DEF SessionTypes, Stops
<1>6. PieceUnderway'
  BY <1>1 DEF PieceUnderway
<1>7. CyclesChain'
  BY <1>1, <1>4 DEF IInv, CyclesChain
<1>8. TimeAfterHandoff'
  BY <1>1, <1>4 DEF IInv, TimeAfterHandoff
<1>9. ExitsCommitted'
  <2>1. CommittedLate(cycles', terminal')
    BY <1>1, <1>4 DEF IInv, ExitsCommitted, CommittedLate
  <2>2. queued' = NoStep /\ terminal' # "None"
    BY <1>1, <1>4 DEF IInv, ExitsCommitted
  <2> QED BY <2>1, <2>2 DEF ExitsCommitted
<1>10. VerdictFounded'
  <2>1. integrity' => Covers(segments', live'.step)
    BY <1>1, <1>2, <1>4
  <2>2. ASSUME stop' = "Landed"
        PROVE  /\ flying' /\ live'.craft = "Landed" /\ cycles' # <<>>
               /\ Last(cycles').decision = "Direct" /\ Last(cycles').audit = "Passed"
               /\ replayed'
    <3>1. /\ flying /\ live.craft = "Landed" /\ cycles # <<>>
          /\ Last(cycles).decision = "Direct" /\ Last(cycles).audit = "Passed"
      BY <1>4, <2>2 DEF IInv, VerdictFounded
    <3>2. proof
      BY <1>4, <2>2, <3>1
    <3> QED BY <1>1, <3>1, <3>2
  <2>3. terminal' # "None"
    BY <1>1, <1>4
  <2> QED BY <1>4, <2>1, <2>2, <2>3 DEF VerdictFounded
<1> QED BY <1>5, <1>6, <1>7, <1>8, <1>9, <1>10 DEF IInv

\* A session that has not begun satisfies the invariant.
LEMMA InitSatisfiesInv == Init => IInv
<1> SUFFICES ASSUME Init PROVE IInv
  OBVIOUS
<1>1. /\ live = [step |-> 0, craft |-> "Pad"]
      /\ stage = "idle" /\ pending = NoCycle /\ queued = NoStep
      /\ cycles = <<>> /\ segments = <<>> /\ corrections = 0
      /\ integrity = TRUE /\ replayed = FALSE /\ finalized = FALSE
      /\ \/ flying = TRUE /\ deadline \in Nat /\ stop = "NoNominal" /\ terminal = "None"
         \/ flying = FALSE /\ deadline = 0 /\ stop \in PreflightStops /\ terminal = stop
  BY SessionAssumption DEF Init
<1>2. SessionTypes
  <2>1. live \in [step : Nat, craft : Crafts]
    BY <1>1 DEF Crafts
  <2>2. cycles \in Seq(Cycles) /\ segments \in Seq(Segments)
    BY <1>1, EmptySeq
  <2>3. stop \in Stops /\ terminal \in Stops \cup {"None"}
    BY <1>1 DEF Stops
  <2> QED BY <1>1, <2>1, <2>2, <2>3 DEF SessionTypes, Stages, Steps
<1>3. PieceUnderway /\ TimeAfterHandoff
  BY <1>1 DEF PieceUnderway, TimeAfterHandoff
<1>4. CyclesChain
  BY <1>1 DEF CyclesChain, Chain, Counted
<1>5. ExitsCommitted
  BY <1>1 DEF ExitsCommitted, CommittedLate
<1>6. VerdictFounded
  BY <1>1 DEF VerdictFounded, Covers, PreflightStops
<1> QED BY <1>2, <1>3, <1>4, <1>5, <1>6 DEF IInv

\* Every step of the session keeps the invariant: one step of the proof per action.
LEMMA StepKeepsInv == IInv /\ [Next]_vars => IInv'
<1> SUFFICES ASSUME IInv, [Next]_vars PROVE IInv'
  OBVIOUS
<1>1. live.step \in Nat /\ deadline \in Nat
  BY DEF IInv, SessionTypes
<1>2. CASE Begin
  BY <1>2, BeginKeepsInv
<1>3. ASSUME NEW a \in Audits, BuildInitialNominal(a) PROVE IInv'
  BY <1>3, BuildInitialNominalKeepsInv
<1>4. ASSUME NEW a \in Audits, BuildAcquisitionNominal(a) PROVE IInv'
  BY <1>4, BuildAcquisitionNominalKeepsInv
<1>5. CASE ProvePrefix
  BY <1>5, ProvePrefixKeepsInv
<1>6. ASSUME NEW k \in (live.step + 1)..deadline, ExecuteDirect(k) PROVE IInv'
  <2>1. k \in Nat /\ k > live.step
    BY <1>1
  <2> QED BY <1>6, <2>1, ExecuteDirectKeepsInv
<1>7. ASSUME NEW p \in Clearings, SelectClearing(p) PROVE IInv'
  BY <1>7, SelectClearingKeepsInv
<1>8. CASE FindNoClearing
  BY <1>8, FindNoClearingKeepsInv
<1>9. ASSUME NEW x \in Exits \ {"None", "Committed"}, EnterCorrection(x) PROVE IInv'
  BY <1>9, EnterCorrectionKeepsInv
<1>10. CASE ExecuteCorrection
  BY <1>10, ExecuteCorrectionKeepsInv
<1>11. CASE ExecuteEarlyExit
  BY <1>11, ExecuteEarlyExitKeepsInv
<1>12. ASSUME NEW k \in live.step..deadline, NEW c \in Crafts \ {"Pad"}, NEW r \in BOOLEAN,
              Fail(k, c, r)
       PROVE  IInv'
  <2>1. k \in Nat
    BY <1>1
  <2> QED BY <1>12, <2>1, FailKeepsInv
<1>13. ASSUME NEW proof \in BOOLEAN, Finish(proof) PROVE IInv'
  BY <1>13, FinishKeepsInv
<1>14. CASE UNCHANGED vars
  <2>1. UNCHANGED <<flying, deadline, live, stage, pending, queued, cycles, segments, corrections,
                    stop, integrity, replayed, terminal, progress, finalized>>
    BY <1>14 DEF vars, given, records, verdict
  <2>2. SessionTypes' /\ PieceUnderway'
    BY <2>1 DEF IInv, SessionTypes, PieceUnderway, ProposalInTime
  <2>3. CyclesChain' /\ TimeAfterHandoff'
    BY <2>1 DEF IInv, CyclesChain, TimeAfterHandoff, PieceEntry
  <2>4. ExitsCommitted' /\ VerdictFounded'
    BY <2>1 DEF IInv, ExitsCommitted, VerdictFounded
  <2> QED BY <2>2, <2>3, <2>4 DEF IInv
<1> QED
  BY <1>2, <1>3, <1>4, <1>5, <1>6, <1>7, <1>8, <1>9, <1>10, <1>11, <1>12, <1>13, <1>14
  DEF Next, Advance, AskAgain

\* The inductive invariant holds of every session, whatever the searches and audits answer
\* (waypoint_v2.rs: advance_piece, finish).
THEOREM Invariance == Spec => []IInv
BY InitSatisfiesInv, StepKeepsInv, PTL DEF Spec

----------------------------------------------------------------------------
(* What a session promises.                                                 *)

\* In every session, whatever the searches and audits answer and wherever a piece fails, the
\* result's segments own each step of the live flight exactly once while no error is reported, and
\* its cycles tell the pieces in order, each entered where the one before handed over, with as
\* many corrections as were counted.
THEOREM RecordsAreTold == Spec => []RecordsTellFlight
<1>1. ASSUME IInv PROVE RecordsTellFlight
  <2>1. LedgerCoversFlight
    BY <1>1 DEF IInv, VerdictFounded, LedgerCoversFlight, LedgerCovers, Covers
  <2>2. /\ SessionTypes /\ Chain(cycles) /\ Counted(cycles, corrections) /\ Len(cycles) \in Nat
        /\ corrections \in Nat /\ corrections <= Len(cycles)
        /\ corrections >= Len(cycles) - 1
    BY <1>1 DEF IInv, CyclesChain, Counted, SessionTypes
  <2>3. ASSUME NEW i \in 1..(Len(cycles) - 1)
        PROVE  LET c == cycles[i]
               IN  /\ c.decision = "LocalCleared"
                   /\ cycles[i + 1].entry = IF c.exit = "Committed" THEN c.query ELSE c.proposal.H
                   /\ cycles[i + 1].entry > c.entry
    BY <2>2 DEF Chain, Counted, HandedOver
  <2>4. {i \in 1..Len(cycles) : cycles[i].decision = "LocalCleared"} = 1..corrections
    BY <2>2 DEF Counted
  <2>5. Cardinality(1..corrections) = corrections
    BY <2>2, FS_Interval
  <2>6. CyclesTellPieces
    BY <2>2, <2>3, <2>4, <2>5 DEF CyclesTellPieces, Chain
  <2> QED BY <2>1, <2>6 DEF RecordsTellFlight
<1> QED BY <1>1, Invariance, PTL

\* However a session ends, a committed early exit was followed by the landing it was checked with
\* or by an error, and a final landing verdict was flown, audited and replayed over a complete
\* ledger.
THEOREM ClaimsAreEarned == Spec => []ClaimsEarned
<1>1. ASSUME IInv PROVE ClaimsEarned
  <2>1. EarlyExitHonoured
    <3> SUFFICES ASSUME NEW i \in 1..Len(cycles), cycles[i].exit = "Committed"
                 PROVE  /\ Len(cycles) <= i + 1
                        /\ Len(cycles) = i + 1 => cycles[i + 1].entry = cycles[i].query
                        /\ terminal \in {"None", "Landed", "ImplementationError"}
      BY DEF EarlyExitHonoured
    <3>1. /\ Len(cycles) \in Nat
          /\ \/ i = Len(cycles) /\ terminal = "None"
             \/ i = Len(cycles) - 1 /\ terminal \in {"Landed", "ImplementationError"}
      BY <1>1 DEF IInv, SessionTypes, ExitsCommitted, CommittedLate
    <3>2. ASSUME i = Len(cycles) - 1 PROVE cycles[i + 1].entry = cycles[i].query
      BY <1>1, <3>1, <3>2 DEF IInv, CyclesChain, Chain, HandedOver
    <3> QED BY <3>1, <3>2
  <2>2. VerdictProved
    <3>1. ~integrity <=> stop = "ImplementationError"
      BY <1>1 DEF IInv, VerdictFounded
    <3>2. ASSUME finalized, stop = "Landed"
          PROVE  /\ live.craft = "Landed" /\ replayed /\ integrity /\ LedgerCovers(live.step)
                 /\ Last(cycles).decision = "Direct" /\ Last(cycles).audit = "Passed"
      <4>1. /\ live.craft = "Landed" /\ replayed /\ integrity /\ Covers(segments, live.step)
            /\ Last(cycles).decision = "Direct" /\ Last(cycles).audit = "Passed"
        BY <1>1, <3>2 DEF IInv, VerdictFounded
      <4> QED BY <4>1 DEF LedgerCovers, Covers
    <3> QED BY <3>1, <3>2 DEF VerdictProved
  <2> QED BY <2>1, <2>2 DEF ClaimsEarned
<1> QED BY <1>1, Invariance, PTL

\* No correction strands the flight, for any policy whose guarded continuation is positive: a
\* session that has handed over does not stop for lack of time or of a state it can search from.
THEOREM NoHandoffStrands == Spec => []NeverStranded
<1>1. ASSUME IInv PROVE NeverStranded
  BY <1>1 DEF IInv, TimeAfterHandoff, NeverStranded
<1> QED BY <1>1, Invariance, PTL

\* After a terminal stop no call of the session moves the craft or rewrites its records, and only
\* finish changes the verdict, once, and only to an implementation error.
THEOREM TheEndIsTheEnd == Spec => FinishOnlyOverturns
<1>1. ASSUME IInv, [Next]_vars, terminal # "None"
      PROVE  /\ UNCHANGED <<live, queued, records>>
             /\ finalized => UNCHANGED verdict
             /\ stop' \in {stop, "ImplementationError"}
  <2>1. stage = "idle"
    BY <1>1 DEF IInv, PieceUnderway
  <2>2. ASSUME Advance PROVE FALSE
    BY <1>1, <2>1, <2>2
    DEF Advance, Begin, BuildInitialNominal, BuildAcquisitionNominal, ProvePrefix, ExecuteDirect,
        SelectClearing, FindNoClearing, EnterCorrection, ExecuteCorrection, ExecuteEarlyExit, Fail
  <2>3. ASSUME NEW proof \in BOOLEAN, Finish(proof)
        PROVE  /\ UNCHANGED <<live, queued, records>> /\ ~finalized
               /\ stop' \in {stop, "ImplementationError"}
    BY <2>3 DEF Finish
  <2>4. ASSUME UNCHANGED vars
        PROVE  UNCHANGED <<live, queued, records, verdict>> /\ stop' = stop
    BY <2>4 DEF vars, verdict
  <2> QED BY <1>1, <2>2, <2>3, <2>4 DEF Next, AskAgain
<1>2. IInv /\ [Next]_vars =>
        [terminal # "None" => /\ UNCHANGED <<live, queued, records>>
                              /\ finalized => UNCHANGED verdict
                              /\ stop' \in {stop, "ImplementationError"}]_vars
  BY <1>1
<1> QED BY <1>2, Invariance, PTL DEF Spec, FinishOnlyOverturns

----------------------------------------------------------------------------
(* What the result and the trace keep, beyond the session's own invariant.  *)

\* The exit that was asked for is the proposal's.
ExitOnRecord(c) ==
  c.exit # "None" =>
    (c.exit = "NoEarlierBoundary" <=> c.proposal.X = NoStep) /\ c.query = c.proposal.X

\* What a cycle of the result tells of its own exit.
CyclesOnRecord ==
  /\ cycles # <<>> => cycles[1].entry = 0
  /\ terminal = "None" /\ cycles = <<>> => PieceEntry = 0
  /\ \A i \in 1..Len(cycles) :
       /\ ExitOnRecord(cycles[i])
       /\ cycles[i].exit = "ClearReady" => ~integrity
       /\ cycles[i].exit = "Committed" => cycles[i].proven /\ cycles[i].decision = "LocalCleared"

\* The i-th correction is the i-th corrected segment; an error may leave one more of these.
CorrectionsIn(segs) == {j \in 1..Len(segs) : segs[j].kind = "LocalCorrection"}
RankIn(segs, j) == Cardinality({k \in CorrectionsIn(segs) : k <= j})
Ledgered(segs, cs, n) ==
  \A i \in 1..n :
    /\ cs[i].entry <= cs[i].proposal.E /\ cs[i].proposal.E < HandedOver(cs[i])
    /\ \E j \in CorrectionsIn(segs) :
         /\ RankIn(segs, j) = i
         /\ segs[j].from = cs[i].proposal.E /\ segs[j].to = HandedOver(cs[i])
CorrectionsOnLedger ==
  /\ Cardinality(CorrectionsIn(segments)) >= corrections
  /\ integrity => Cardinality(CorrectionsIn(segments)) = corrections
  /\ Ledgered(segments, cycles, corrections)

\* A committed landing is the nominal of the next piece, unless an error struck before it was.
LandingTaken ==
  \A i \in 1..(Len(cycles) - 1) : cycles[i].exit = "Committed" =>
    \/ cycles[i + 1].nominal = cycles[i].query /\ cycles[i + 1].audit = "Passed"
    \/ i = Len(cycles) - 1 /\ stop = "ImplementationError" /\ cycles[i + 1].nominal = NoStep

\* The piece underway has asked for an exit only once its correction was entered, and flies the
\* landing that was queued for it.
PieceOnRecord ==
  stage # "idle" =>
    /\ ExitOnRecord(pending)
    /\ stage \notin {"entered", "leaving"} => pending.exit = "None"
    /\ stage = "entered" => pending.exit # "ClearReady"
    /\ stage = "planning" => pending.nominal = NoStep
    /\ stage \in {"planned", "accepted"} /\ cycles # <<>> /\ Last(cycles).exit = "Committed" =>
         pending.nominal = live.step

\* The stop and the state it was made in.
StopFounded ==
  /\ ~flying => cycles = <<>> /\ corrections = 0 /\ stop \in PreflightStops /\ ~replayed
  /\ flying => stop \notin PreflightStops
  /\ terminal = "None" => Running
  /\ stop \in {"NoNominal", "NominalRejected", "NoClearing", "CorrectionLimit", "Deadline"} =>
       Running
  /\ stop = "Deadline" => live.step >= deadline
  /\ flying /\ finalized /\ stop # "ImplementationError" => Provable

RecordInv ==
  /\ CyclesOnRecord /\ CorrectionsOnLedger /\ LandingTaken /\ PieceOnRecord /\ StopFounded

----------------------------------------------------------------------------
(* The trace.                                                               *)

HandoffEntry(i) ==
  [kind |-> "Handoff", piece |-> i - 1, entry |-> cycles[i].entry, stop |-> "None",
   corrections |-> i, step |-> HandedOver(cycles[i])]

Entries == [kind : {"Handoff", "Terminal"}, piece : Int, entry : Int, stop : Stops \cup {"None"},
            corrections : Nat, step : Int]

\* The entry that ends a flight's trace, of the piece it ended in or of none.
TerminalEntry(e) ==
  /\ e.kind = "Terminal" /\ e.stop = stop /\ e.corrections = corrections /\ e.step = live.step
  /\ \/ e.piece = NoStep /\ e.entry = live.step
     \/ /\ e.piece = corrections /\ Len(cycles) = corrections + 1
        /\ e.entry = Last(cycles).entry

\* One entry per correction, then one for the end.
TraceTold ==
  /\ entries \in Seq(Entries)
  /\ flying =>
       /\ \A i \in 1..corrections : entries[i] = HandoffEntry(i)
       /\ IF terminal = "None"
          THEN /\ Len(entries) = corrections
               /\ progress = IF corrections = 0 THEN [kind |-> "None"] ELSE entries[corrections]
          ELSE /\ Len(entries) = corrections + 1
               /\ TerminalEntry(entries[corrections + 1])
  /\ ~flying =>
       /\ progress = [kind |-> "Terminal", piece |-> NoStep, entry |-> NoStep, stop |-> stop,
                      corrections |-> 0, step |-> NoStep]
       /\ entries \in {<<>>, <<progress>>}

Concluded ==
  /\ recorder \in {"driving", "writing", "done", "refused", "dead"}
  /\ recorder = "driving" => ~finalized
  /\ recorder \in {"writing", "done", "refused"} => finalized /\ TraceEnded

----------------------------------------------------------------------------
(* The directory.                                                           *)

\* While the files are written the first n of the order are whole and the others absent.
WrittenUpTo(n) ==
  \A f \in Files : disk[f] = IF \E i \in 1..n : WritingOrder[i] = f THEN "whole" ELSE "absent"

Sealed ==
  /\ finalized /\ ValidProgress
  /\ \A f \in Files \ {"bundle.json"} :
       disk[f] = IF f \in ExpectedArtifacts THEN "whole" ELSE "absent"

DiskInv ==
  /\ disk \in [Files -> {"absent", "torn", "whole"}]
  /\ recorder = "driving" => \A f \in Files : disk[f] = "absent"
  /\ recorder = "writing" => \E n \in 0..(Len(WritingOrder) - 1) : WrittenUpTo(n)
  /\ disk["bundle.json"] = "whole" => recorder = "done" /\ Sealed
  /\ recorder = "refused" => ~ValidProgress
  /\ recorder = "done" => disk["bundle.json"] = "whole"

BundleInv == IInv /\ RecordInv /\ TraceTold /\ Concluded /\ DiskInv

----------------------------------------------------------------------------
(* The corrections of a ledger that grows.                                  *)

\* The corrections on a ledger are finitely many, so that they can be counted and ranked.
LEMMA CorrectionsFinite ==
  ASSUME NEW segs \in Seq(Segments)
  PROVE  /\ IsFiniteSet(CorrectionsIn(segs)) /\ Cardinality(CorrectionsIn(segs)) \in Nat
         /\ \A j \in 1..Len(segs) : RankIn(segs, j) \in Nat
<1>1. Len(segs) \in Nat
  OBVIOUS
<1>2. IsFiniteSet(1..Len(segs))
  BY <1>1, FS_Interval
<1>3. IsFiniteSet(CorrectionsIn(segs))
  BY <1>2, FS_Subset DEF CorrectionsIn
<1>4. ASSUME NEW j \in 1..Len(segs) PROVE RankIn(segs, j) \in Nat
  <2>1. IsFiniteSet({k \in CorrectionsIn(segs) : k <= j})
    BY <1>3, FS_Subset
  <2> QED BY <2>1, FS_CardinalityType DEF RankIn
<1> QED BY <1>3, <1>4, FS_CardinalityType

\* A segment that is appended leaves the corrections before it and their ranks; it is one more
\* exactly if it is a correction, and then it ranks last.
LEMMA CorrectionsGrow ==
  ASSUME NEW segs \in Seq(Segments), NEW s \in Segments
  PROVE  LET more == Append(segs, s)
             n == Len(segs) + 1
         IN  /\ \A j \in CorrectionsIn(segs) :
                  /\ j \in CorrectionsIn(more) /\ more[j] = segs[j]
                  /\ RankIn(more, j) = RankIn(segs, j)
             /\ IF s.kind = "LocalCorrection"
                THEN /\ n \in CorrectionsIn(more) /\ more[n] = s
                     /\ Cardinality(CorrectionsIn(more)) = Cardinality(CorrectionsIn(segs)) + 1
                     /\ RankIn(more, n) = Cardinality(CorrectionsIn(segs)) + 1
                ELSE Cardinality(CorrectionsIn(more)) = Cardinality(CorrectionsIn(segs))
<1> DEFINE more == Append(segs, s)
           n == Len(segs) + 1
<1>1. /\ Len(segs) \in Nat /\ Len(more) = n /\ more[n] = s
      /\ \A j \in 1..Len(segs) : more[j] = segs[j]
  BY AppendProperties
<1> HIDE DEF more
<1>2. CorrectionsIn(more) =
        IF s.kind = "LocalCorrection" THEN CorrectionsIn(segs) \cup {n} ELSE CorrectionsIn(segs)
  BY <1>1 DEF CorrectionsIn
<1>3. ASSUME NEW j \in CorrectionsIn(segs)
      PROVE  /\ j \in CorrectionsIn(more) /\ more[j] = segs[j]
             /\ RankIn(more, j) = RankIn(segs, j)
  <2>1. j \in 1..Len(segs) /\ j < n
    BY <1>1 DEF CorrectionsIn
  <2>2. {k \in CorrectionsIn(more) : k <= j} = {k \in CorrectionsIn(segs) : k <= j}
    BY <1>1, <1>2, <2>1
  <2> QED BY <1>1, <1>2, <2>1, <2>2 DEF RankIn
<1>4. n \notin CorrectionsIn(segs)
  BY <1>1 DEF CorrectionsIn
<1>5. ASSUME s.kind = "LocalCorrection"
      PROVE  /\ Cardinality(CorrectionsIn(more)) = Cardinality(CorrectionsIn(segs)) + 1
             /\ RankIn(more, n) = Cardinality(CorrectionsIn(segs)) + 1
  <2>1. IsFiniteSet(CorrectionsIn(segs))
    BY CorrectionsFinite
  <2>2. Cardinality(CorrectionsIn(segs) \cup {n}) = Cardinality(CorrectionsIn(segs)) + 1
    BY <1>4, <2>1, FS_AddElement
  <2>3. {k \in CorrectionsIn(more) : k <= n} = CorrectionsIn(more)
    BY <1>1, <1>2 DEF CorrectionsIn
  <2> QED BY <1>2, <1>5, <2>2, <2>3 DEF RankIn
<1>6. s.kind = "LocalCorrection" => n \in CorrectionsIn(more)
  BY <1>2
<1> QED BY <1>1, <1>2, <1>3, <1>5, <1>6 DEF more

\* Two corrections of one rank are one correction.
LEMMA RankTellsCorrection ==
  ASSUME NEW segs \in Seq(Segments), NEW i \in CorrectionsIn(segs), NEW j \in CorrectionsIn(segs),
         RankIn(segs, i) = RankIn(segs, j)
  PROVE  i = j
<1>1. ASSUME NEW a \in CorrectionsIn(segs), NEW b \in CorrectionsIn(segs), a < b,
             RankIn(segs, a) = RankIn(segs, b)
      PROVE  FALSE
  <2> DEFINE A == {k \in CorrectionsIn(segs) : k <= a}
             B == {k \in CorrectionsIn(segs) : k <= b}
  <2>1. Len(segs) \in Nat /\ CorrectionsIn(segs) \subseteq 1..Len(segs)
    BY DEF CorrectionsIn
  <2>2. A \subseteq B /\ b \in B /\ b \notin A
    BY <1>1, <2>1
  <2>3. IsFiniteSet(B)
    BY CorrectionsFinite, FS_Subset
  <2>4. Cardinality(A) = Cardinality(B)
    BY <1>1 DEF RankIn
  <2> HIDE DEF A, B
  <2> QED BY <2>2, <2>3, <2>4, FS_Subset
<1>2. i \in Nat /\ j \in Nat
  BY DEF CorrectionsIn
<1> QED BY <1>1, <1>2

\* What is ledgered stays ledgered when both accounts grow.
LEMMA LedgeredStays ==
  ASSUME NEW segs \in Seq(Segments), NEW more, NEW cs, NEW ds, NEW n \in Nat,
         \/ more = segs
         \/ \E s \in Segments : more = Append(segs, s),
         \A i \in 1..n : ds[i] = cs[i],
         Ledgered(segs, cs, n)
  PROVE  Ledgered(more, ds, n)
<1>1. \A j \in CorrectionsIn(segs) :
        /\ j \in CorrectionsIn(more) /\ more[j] = segs[j] /\ RankIn(more, j) = RankIn(segs, j)
  BY CorrectionsGrow
<1> QED BY <1>1 DEF Ledgered

----------------------------------------------------------------------------
(* The result's records, step by step.                                      *)

\* An appended segment, if it is not empty, is the ledger's next one.
LEMMA SegmentAppended ==
  ASSUME NEW kind \in Kinds, NEW from \in Nat, NEW to \in Nat, AppendSegment(kind, from, to)
  PROVE  \/ from = to /\ segments' = segments
         \/ /\ from # to /\ [kind |-> kind, from |-> from, to |-> to] \in Segments
            /\ segments' = Append(segments, [kind |-> kind, from |-> from, to |-> to])
BY DEF AppendSegment, Segments

\* The landing that a committed exit queued is what the next piece plans with.
LEMMA CommittedNominal ==
  ASSUME IInv, RecordInv, stage # "idle", cycles # <<>>, Last(cycles).exit = "Committed"
  PROVE  \/ stage = "planning" /\ pending.nominal = NoStep
         \/ /\ stage \in {"planned", "accepted"}
            /\ pending.nominal = Last(cycles).query /\ pending.audit = "Passed"
<1>1. /\ terminal = "None" /\ stage \in {"planning", "planned", "accepted"}
      /\ stage = "planning" \/ pending.audit = "Passed"
      /\ PieceEntry = HandedOver(Last(cycles)) /\ PieceEntry = pending.entry
      /\ pending.entry = live.step
  BY Underway DEF IInv, ExitsCommitted, CyclesChain, PieceUnderway
<1>2. HandedOver(Last(cycles)) = Last(cycles).query
  BY DEF HandedOver
<1> QED BY <1>1, <1>2 DEF RecordInv, PieceOnRecord

\* Ending a piece pushes a cycle that tells its exit and its nominal.
LEMMA PushKeepsRecords ==
  ASSUME IInv, RecordInv, stage # "idle", stage' = "idle",
         NEW c \in Cycles, c.index = pending.index, c.entry = pending.entry,
         cycles' = Append(cycles, c), ExitOnRecord(c),
         integrity' \in BOOLEAN, c.exit = "ClearReady" => ~integrity',
         c.exit = "Committed" => c.proven /\ c.decision = "LocalCleared",
         cycles # <<>> /\ Last(cycles).exit = "Committed" =>
           \/ c.nominal = Last(cycles).query /\ c.audit = "Passed"
           \/ stop' = "ImplementationError" /\ c.nominal = NoStep
  PROVE  CyclesOnRecord' /\ LandingTaken' /\ PieceOnRecord'
<1>1. /\ cycles' \in Seq(Cycles) /\ cycles' # <<>> /\ Last(cycles') = c
      /\ Len(cycles') = Len(cycles) + 1 /\ Len(cycles) \in Nat
      /\ \A i \in 1..Len(cycles) : cycles'[i] = cycles[i]
      /\ cycles'[Len(cycles) + 1] = c
      /\ cycles = <<>> <=> Len(cycles) = 0
  BY PushedCycle, Underway DEF SessionTypes
<1>2. PieceOnRecord'
  BY DEF PieceOnRecord
<1>3. CyclesOnRecord'
  <2>1. cycles'[1].entry = 0
    <3>1. CASE cycles = <<>>
      BY <1>1, <3>1, Underway DEF RecordInv, CyclesOnRecord
    <3>2. CASE cycles # <<>>
      BY <1>1, <3>2 DEF RecordInv, CyclesOnRecord
    <3> QED BY <3>1, <3>2
  <2>2. integrity
    BY Underway
  <2>3. ASSUME NEW i \in 1..Len(cycles')
        PROVE  /\ ExitOnRecord(cycles'[i])
               /\ cycles'[i].exit = "ClearReady" => ~integrity'
               /\ cycles'[i].exit = "Committed" =>
                    cycles'[i].proven /\ cycles'[i].decision = "LocalCleared"
    <3>1. CASE i = Len(cycles) + 1
      BY <1>1, <3>1
    <3>2. CASE i # Len(cycles) + 1
      <4>1. i \in 1..Len(cycles) /\ cycles'[i] = cycles[i]
        BY <1>1, <3>2
      <4> QED BY <2>2, <4>1 DEF RecordInv, CyclesOnRecord
    <3> QED BY <3>1, <3>2
  <2>4. \A x : ExitOnRecord(x)' <=> ExitOnRecord(x)
    BY DEF ExitOnRecord
  <2> QED BY <1>1, <2>1, <2>3, <2>4 DEF CyclesOnRecord
<1>4. LandingTaken'
  <2> SUFFICES ASSUME NEW i \in 1..(Len(cycles') - 1), cycles'[i].exit = "Committed"
               PROVE  \/ /\ cycles'[i + 1].nominal = cycles'[i].query
                         /\ cycles'[i + 1].audit = "Passed"
                      \/ /\ i = Len(cycles') - 1 /\ stop' = "ImplementationError"
                         /\ cycles'[i + 1].nominal = NoStep
    BY DEF LandingTaken
  <2>1. i \in 1..Len(cycles) /\ cycles[i].exit = "Committed" /\ cycles'[i] = cycles[i]
    BY <1>1
  <2>2. i = Len(cycles) /\ cycles # <<>> /\ Last(cycles).exit = "Committed"
    BY <2>1, CommittedIsLast, Underway
  <2> QED BY <1>1, <2>1, <2>2 DEF Last
<1> QED BY <1>2, <1>3, <1>4

\* Going on pushes nothing.
LEMMA GoOnKeepsRecords ==
  ASSUME IInv, RecordInv, terminal = "None", NEW next \in Stages \ {"idle"}, NEW c \in Cycles,
         GoOn(next, c), cycles' = cycles, c.entry = PieceEntry, ExitOnRecord(c),
         next \notin {"entered", "leaving"} => c.exit = "None",
         next = "entered" => c.exit # "ClearReady",
         next = "planning" => c.nominal = NoStep,
         next \in {"planned", "accepted"} /\ cycles # <<>> /\ Last(cycles).exit = "Committed" =>
           c.nominal = live'.step
  PROVE  CyclesOnRecord' /\ LandingTaken' /\ PieceOnRecord'
<1>1. /\ stage' = next /\ pending' = c /\ terminal' = terminal /\ stop' = stop
      /\ integrity' = integrity /\ next # "idle"
  BY DEF GoOn, verdict
<1>2. \A x : ExitOnRecord(x)' <=> ExitOnRecord(x)
  BY DEF ExitOnRecord
<1>3. PieceEntry' = PieceEntry
  BY <1>1 DEF PieceEntry
<1>4. CyclesOnRecord'
  BY <1>1, <1>2, <1>3 DEF RecordInv, CyclesOnRecord
<1>5. LandingTaken'
  BY <1>1 DEF RecordInv, LandingTaken
<1>6. PieceOnRecord'
  BY <1>1, <1>2 DEF PieceOnRecord
<1> QED BY <1>4, <1>5, <1>6

\* The ledger of a step that counts no correction: it may add a nominal's segment, or after an
\* error any.
LEMMA LedgerKept ==
  ASSUME IInv, RecordInv, corrections' = corrections,
         cycles' = cycles \/ (stage # "idle" /\ \E c \in Cycles : cycles' = Append(cycles, c)),
         integrity' => integrity,
         \/ segments' = segments
         \/ \E s \in Segments : /\ segments' = Append(segments, s)
                                /\ s.kind = "LocalCorrection" => ~integrity'
  PROVE  CorrectionsOnLedger'
<1>1. /\ cycles \in Seq(Cycles) /\ segments \in Seq(Segments) /\ corrections \in Nat
      /\ Len(cycles) \in Nat /\ corrections <= Len(cycles)
  BY DEF IInv, SessionTypes, CyclesChain, Counted
<1>2. \A i \in 1..corrections : cycles'[i] = cycles[i]
  <2>1. ASSUME NEW c \in Cycles PROVE \A i \in 1..Len(cycles) : Append(cycles, c)[i] = cycles[i]
    BY <1>1, AppendProperties
  <2>2. \A i \in 1..corrections : i \in 1..Len(cycles)
    BY <1>1
  <2>3. CASE cycles' = cycles
    BY <2>3
  <2>4. CASE \E c \in Cycles : cycles' = Append(cycles, c)
    BY <2>1, <2>2, <2>4
  <2> QED BY <2>3, <2>4
<1>3. Ledgered(segments', cycles', corrections)
  BY <1>1, <1>2, LedgeredStays DEF RecordInv, CorrectionsOnLedger
<1>4. /\ Cardinality(CorrectionsIn(segments)) \in Nat
      /\ Cardinality(CorrectionsIn(segments)) >= corrections
      /\ integrity => Cardinality(CorrectionsIn(segments)) = corrections
  BY <1>1, CorrectionsFinite DEF RecordInv, CorrectionsOnLedger
<1>5. \/ Cardinality(CorrectionsIn(segments')) = Cardinality(CorrectionsIn(segments))
      \/ /\ Cardinality(CorrectionsIn(segments')) = Cardinality(CorrectionsIn(segments)) + 1
         /\ ~integrity'
  <2>1. CASE segments' = segments
    BY <2>1
  <2>2. ASSUME NEW s \in Segments, segments' = Append(segments, s),
               s.kind = "LocalCorrection" => ~integrity'
        PROVE  \/ Cardinality(CorrectionsIn(segments')) = Cardinality(CorrectionsIn(segments))
               \/ /\ Cardinality(CorrectionsIn(segments')) = Cardinality(CorrectionsIn(segments)) + 1
                  /\ ~integrity'
    BY <1>1, <2>2, CorrectionsGrow
  <2> QED BY <2>1, <2>2
<1>6. /\ Cardinality(CorrectionsIn(segments')) >= corrections
      /\ integrity' => Cardinality(CorrectionsIn(segments')) = corrections
  BY <1>1, <1>4, <1>5
<1> QED BY <1>3, <1>6 DEF CorrectionsOnLedger

\* The ledger of a handoff: the correction that is counted is the segment that was flown.
LEMMA LedgerOfHandoff ==
  ASSUME IInv, RecordInv, stage # "idle", NEW c \in Cycles, NEW s \in Segments,
         c.index = pending.index, c.entry = pending.entry, cycles' = Append(cycles, c),
         corrections' = corrections + 1, segments' = Append(segments, s), integrity' = integrity,
         s.kind = "LocalCorrection", s.from = c.proposal.E, s.to = HandedOver(c),
         c.entry <= s.from, s.from < s.to
  PROVE  CorrectionsOnLedger'
<1>1. /\ cycles \in Seq(Cycles) /\ segments \in Seq(Segments) /\ corrections = Len(cycles)
      /\ Len(cycles) \in Nat /\ integrity /\ Len(segments) \in Nat
  BY Underway DEF SessionTypes
<1>2. /\ \A i \in 1..corrections : cycles'[i] = cycles[i]
      /\ cycles'[corrections + 1] = c
  BY <1>1, AppendProperties
<1>3. Ledgered(segments', cycles', corrections)
  BY <1>1, <1>2, LedgeredStays DEF RecordInv, CorrectionsOnLedger
<1>4. Cardinality(CorrectionsIn(segments)) = corrections
  BY <1>1 DEF RecordInv, CorrectionsOnLedger
<1> DEFINE n == Len(segments) + 1
<1>5. /\ n \in CorrectionsIn(segments') /\ segments'[n] = s
      /\ Cardinality(CorrectionsIn(segments')) = corrections + 1
      /\ RankIn(segments', n) = corrections + 1
  BY <1>1, <1>4, CorrectionsGrow
<1> HIDE DEF n
<1>6. Ledgered(segments', cycles', corrections + 1)
  <2> SUFFICES ASSUME NEW i \in 1..(corrections + 1)
               PROVE  /\ cycles'[i].entry <= cycles'[i].proposal.E
                      /\ cycles'[i].proposal.E < HandedOver(cycles'[i])
                      /\ \E j \in CorrectionsIn(segments') :
                           /\ RankIn(segments', j) = i
                           /\ segments'[j].from = cycles'[i].proposal.E
                           /\ segments'[j].to = HandedOver(cycles'[i])
    BY DEF Ledgered
  <2>1. CASE i = corrections + 1
    BY <1>2, <1>5, <2>1
  <2>2. CASE i # corrections + 1
    <3>1. i \in 1..corrections
      BY <1>1, <2>2
    <3> QED BY <1>3, <3>1 DEF Ledgered
  <2> QED BY <2>1, <2>2
<1> QED BY <1>1, <1>5, <1>6 DEF CorrectionsOnLedger

\* What a piece knows of its own records.
LEMMA UnderwayOnRecord ==
  ASSUME IInv, RecordInv, stage # "idle"
  PROVE  /\ flying /\ integrity /\ ~finalized /\ terminal = "None" /\ Running
         /\ pending \in Cycles /\ ExitOnRecord(pending)
         /\ stage \notin {"entered", "leaving"} => pending.exit = "None"
         /\ stop = "NoNominal"
BY Underway DEF RecordInv, PieceOnRecord, StopFounded, IInv, VerdictFounded

\* A piece that ends with an answer, its segments the nominal's.
LEMMA EndKeepsRecords ==
  ASSUME IInv, RecordInv, stage \in {"planning", "planned", "accepted", "blocked"},
         NEW cause \in Stops \ (PreflightStops \cup {"ImplementationError", "Deadline"}),
         NEW c \in Cycles, c.index = pending.index, c.entry = pending.entry,
         c.exit = pending.exit, c.proposal = pending.proposal, c.query = pending.query,
         \/ c.nominal = pending.nominal /\ c.audit = pending.audit
         \/ cycles = <<>>
         \/ Last(cycles).exit # "Committed",
         EndWith(cause, c),
         cause # "Landed" => live' = live,
         stage = "planning" => cycles = <<>> \/ Last(cycles).exit # "Committed",
         \/ segments' = segments
         \/ \E s \in Segments : segments' = Append(segments, s) /\ s.kind # "LocalCorrection"
  PROVE  RecordInv'
<1>1. /\ stage # "idle" /\ stage' = "idle" /\ cycles' = Append(cycles, c) /\ stop' = cause
      /\ terminal' = cause /\ UNCHANGED <<flying, deadline, corrections, integrity, replayed, finalized>>
  BY DEF EndWith, given
<1>2. /\ flying /\ integrity /\ ~finalized /\ Running /\ pending \in Cycles
      /\ ExitOnRecord(pending) /\ pending.exit = "None"
  BY <1>1, UnderwayOnRecord
<1>3. ExitOnRecord(c) /\ c.exit = "None"
  BY <1>2 DEF ExitOnRecord
<1>4. cycles # <<>> /\ Last(cycles).exit = "Committed" =>
        c.nominal = Last(cycles).query /\ c.audit = "Passed"
  BY <1>1, CommittedNominal
<1>5. CyclesOnRecord' /\ LandingTaken' /\ PieceOnRecord'
  BY <1>1, <1>2, <1>3, <1>4, PushKeepsRecords
<1>6. CorrectionsOnLedger'
  BY <1>1, LedgerKept
<1>7. StopFounded'
  <2>1. cause \notin PreflightStops /\ cause # "Deadline" /\ cause # "None"
    BY DEF Stops, PreflightStops
  <2>2. cause # "Landed" => Running'
    BY <1>2 DEF Running
  <2> QED BY <1>1, <1>2, <2>1, <2>2 DEF StopFounded
<1> QED BY <1>5, <1>6, <1>7 DEF RecordInv

\* The steps that go on keep the stop and the ground it stands on.
LEMMA GoOnKeepsStop ==
  ASSUME IInv, RecordInv, terminal = "None", NEW next, NEW c, GoOn(next, c), Running',
         UNCHANGED <<cycles, corrections>>
  PROVE  StopFounded'
<1>1. UNCHANGED <<flying, deadline, stop, terminal, replayed, finalized>>
  BY DEF GoOn, given, verdict
<1>2. flying /\ ~finalized /\ stop = "NoNominal"
  BY DEF IInv, VerdictFounded
<1> QED BY <1>1, <1>2 DEF StopFounded, PreflightStops

\* A piece begins a cycle, or finds the deadline passed; it records nothing yet.
LEMMA BeginKeepsRecords == ASSUME IInv, RecordInv, Begin PROVE RecordInv'
<1>1. /\ stage = "idle" /\ terminal = "None" /\ SessionTypes /\ flying /\ integrity /\ ~finalized
      /\ UNCHANGED <<live, queued, cycles, segments, corrections>> /\ Running
  BY DEF Begin, IInv, VerdictFounded, records, RecordInv, StopFounded
<1>2. CASE live.step >= deadline
  <2>1. /\ stage' = "idle" /\ stop' = "Deadline" /\ terminal' = "Deadline"
        /\ UNCHANGED <<flying, deadline, integrity, replayed, finalized>>
    BY <1>1, <1>2 DEF Begin, given
  <2>2. \A x : ExitOnRecord(x)' <=> ExitOnRecord(x)
    BY DEF ExitOnRecord
  <2>3. CyclesOnRecord'
    BY <1>1, <2>1, <2>2 DEF RecordInv, CyclesOnRecord
  <2>4. CorrectionsOnLedger'
    BY <1>1, <2>1, LedgerKept
  <2>5. LandingTaken' /\ PieceOnRecord'
    <3>1. stop # "ImplementationError"
      BY <1>1 DEF IInv, VerdictFounded
    <3> QED BY <1>1, <2>1, <3>1 DEF RecordInv, LandingTaken, PieceOnRecord
  <2>6. StopFounded'
    BY <1>1, <1>2, <2>1 DEF StopFounded, PreflightStops, Running
  <2> QED BY <2>3, <2>4, <2>5, <2>6 DEF RecordInv
<1>3. CASE live.step < deadline
  <2>0. ~(live.step >= deadline)
    BY <1>1, <1>3 DEF SessionTypes
  <2>1. GoOn("planning", NewCycle)
    BY <2>0 DEF Begin, GoOn
  <2>2. NewCycle \in Cycles
    BY <1>1 DEF NewCycle, Cycles, SessionTypes, Steps, Audits, Decisions, Exits, Refusals,
                NoProposal, NoStep
  <2>3. /\ NewCycle.entry = PieceEntry /\ NewCycle.exit = "None" /\ NewCycle.nominal = NoStep
        /\ ExitOnRecord(NewCycle)
    BY <1>1 DEF NewCycle, PieceEntry, ExitOnRecord
  <2>4. "planning" \in Stages \ {"idle"}
    BY DEF Stages
  <2> HIDE DEF NewCycle
  <2>5. CyclesOnRecord' /\ LandingTaken' /\ PieceOnRecord'
    BY <1>1, <2>1, <2>2, <2>3, <2>4, GoOnKeepsRecords
  <2>6. integrity' = integrity
    BY <2>1 DEF GoOn, verdict
  <2>7. CorrectionsOnLedger'
    BY <1>1, <2>6, LedgerKept
  <2>8. StopFounded'
    BY <1>1, <2>1, GoOnKeepsStop DEF Running
  <2> QED BY <2>5, <2>7, <2>8 DEF RecordInv
<1> QED BY <1>1, <1>2, <1>3 DEF SessionTypes

\* The nominal of a piece is the landing that was queued for it, or one searched where it stands.
LEMMA NominalFoundKeepsRecords ==
  ASSUME IInv, RecordInv, stage = "planning", NEW step \in Steps, NEW audit \in Audits,
         NominalFound(step, audit), live' = live, step = live.step
  PROVE  RecordInv'
<1> DEFINE c == [pending EXCEPT !.nominal = step, !.audit = audit]
<1>1. GoOn("planned", c) /\ UNCHANGED <<cycles, segments, corrections>>
  BY DEF NominalFound, records
<1>2. /\ terminal = "None" /\ pending \in Cycles /\ ExitOnRecord(pending) /\ pending.exit = "None"
      /\ Running /\ pending.entry = PieceEntry
  BY UnderwayOnRecord, Underway
<1>3. /\ c \in Cycles /\ c.entry = pending.entry /\ c.exit = "None" /\ ExitOnRecord(c)
      /\ c.nominal = live'.step
  BY <1>2 DEF Cycles, ExitOnRecord
<1>4. "planned" \in Stages \ {"idle"}
  BY DEF Stages
<1> HIDE DEF c
<1>5. CyclesOnRecord' /\ LandingTaken' /\ PieceOnRecord'
  BY <1>1, <1>2, <1>3, <1>4, GoOnKeepsRecords
<1>6. integrity' = integrity
  BY <1>1 DEF GoOn, verdict
<1>7. CorrectionsOnLedger'
  BY <1>1, <1>6, LedgerKept
<1>8. StopFounded'
  BY <1>1, <1>2, GoOnKeepsStop DEF Running
<1> QED BY <1>5, <1>7, <1>8 DEF RecordInv

\* A piece without a nominal ends the session with its cycle on record and no segment.
LEMMA NominalMissingKeepsRecords ==
  ASSUME IInv, RecordInv, stage = "planning", NominalMissing("NoNominal"), live' = live,
         cycles # <<>> => Last(cycles).exit # "Committed"
  PROVE  RecordInv'
<1> DEFINE c == [pending EXCEPT !.nominal = live.step, !.decision = "NoNominal"]
<1>1. EndWith("NoNominal", c) /\ segments' = segments
  BY DEF NominalMissing
<1>2. pending \in Cycles /\ SessionTypes
  BY Underway
<1>3. /\ c \in Cycles /\ c.index = pending.index /\ c.entry = pending.entry
      /\ c.exit = pending.exit /\ c.proposal = pending.proposal /\ c.query = pending.query
  BY <1>2 DEF Cycles, Decisions, Steps, SessionTypes
<1>4. "NoNominal" \in Stops \ (PreflightStops \cup {"ImplementationError", "Deadline"})
  BY DEF Stops, PreflightStops
<1> HIDE DEF c
<1> QED BY <1>1, <1>3, <1>4, EndKeepsRecords

\* The search for a nominal, of the first piece or of a later one, leaves the ledger alone.
LEMMA PlanningKeepsRecords ==
  ASSUME IInv, RecordInv, NEW a \in Audits, BuildInitialNominal(a) \/ BuildAcquisitionNominal(a)
  PROVE  RecordInv'
<1>1. CASE BuildInitialNominal(a)
  <2>1. stage = "planning" /\ cycles = <<>> /\ live' = live /\ live.step \in Steps
    BY <1>1, Underway DEF BuildInitialNominal, SessionTypes, Steps
  <2>2. NominalMissing("NoNominal") \/ NominalFound(live.step, a)
    BY <1>1 DEF BuildInitialNominal
  <2> QED BY <2>1, <2>2, NominalFoundKeepsRecords, NominalMissingKeepsRecords
<1>2. CASE BuildAcquisitionNominal(a)
  <2>1. /\ stage = "planning" /\ cycles # <<>> /\ live' = live /\ terminal = "None"
        /\ live.craft = "Coasting" /\ live.step \in Steps
    BY <1>2, Underway DEF BuildAcquisitionNominal, IInv, TimeAfterHandoff, SessionTypes, Steps
  <2>2. CASE queued # NoStep
    <3>1. NominalFound(queued, a) /\ queued = live.step
      BY <1>2, <2>2 DEF BuildAcquisitionNominal
    <3> QED BY <2>1, <3>1, NominalFoundKeepsRecords
  <2>3. CASE queued = NoStep
    <3>1. Last(cycles).exit # "Committed"
      BY <2>1, <2>3 DEF IInv, ExitsCommitted, SessionTypes, NoStep
    <3>2. NominalMissing("NoNominal") \/ NominalFound(live.step, a)
      BY <1>2, <2>1, <2>3 DEF BuildAcquisitionNominal
    <3> QED BY <2>1, <3>1, <3>2, NominalFoundKeepsRecords, NominalMissingKeepsRecords
  <2> QED BY <2>2, <2>3
<1> QED BY <1>1, <1>2

\* The verdict on a prefix decides the piece's cycle and leaves the ledger alone.
LEMMA ProvePrefixKeepsRecords == ASSUME IInv, RecordInv, ProvePrefix PROVE RecordInv'
<1>1. stage = "planned" /\ UNCHANGED <<live, queued, segments>>
  BY DEF ProvePrefix
<1>2. /\ terminal = "None" /\ pending \in Cycles /\ ExitOnRecord(pending) /\ pending.exit = "None"
      /\ Running /\ pending.entry = PieceEntry
  BY <1>1, UnderwayOnRecord, Underway
<1> DEFINE C(d) == [pending EXCEPT !.decision = d]
<1>3. ASSUME NEW d \in Decisions
      PROVE  /\ C(d) \in Cycles /\ C(d).index = pending.index /\ C(d).entry = pending.entry
             /\ C(d).exit = pending.exit /\ C(d).proposal = pending.proposal
             /\ C(d).query = pending.query /\ C(d).nominal = pending.nominal
             /\ C(d).audit = pending.audit
  BY <1>2 DEF Cycles
<1>4. {"NominalRejected", "TerrainBlocked", "CorrectionLimit"} \subseteq Decisions
  BY DEF Decisions
<1>5. /\ {"NominalRejected", "CorrectionLimit"}
           \subseteq Stops \ (PreflightStops \cup {"ImplementationError", "Deadline"})
      /\ {"accepted", "blocked"} \subseteq Stages \ {"idle"}
  BY DEF Stops, PreflightStops, Stages
<1>6. \/ EndWith("NominalRejected", C("NominalRejected"))
      \/ GoOn("accepted", C("NominalRejected")) /\ UNCHANGED <<cycles, corrections>>
      \/ GoOn("blocked", C("TerrainBlocked")) /\ UNCHANGED <<cycles, corrections>>
      \/ EndWith("CorrectionLimit", C("CorrectionLimit"))
  BY DEF ProvePrefix
<1> HIDE DEF C
<1>7. CASE EndWith("NominalRejected", C("NominalRejected"))
  BY <1>1, <1>3, <1>4, <1>5, <1>7, EndKeepsRecords
<1>8. CASE EndWith("CorrectionLimit", C("CorrectionLimit"))
  BY <1>1, <1>3, <1>4, <1>5, <1>8, EndKeepsRecords
<1>9. ASSUME NEW next \in {"accepted", "blocked"}, NEW d \in {"NominalRejected", "TerrainBlocked"},
             GoOn(next, C(d)), UNCHANGED <<cycles, corrections>>
      PROVE  RecordInv'
  <2>1. /\ C(d) \in Cycles /\ C(d).entry = PieceEntry /\ C(d).exit = "None"
        /\ ExitOnRecord(C(d)) /\ C(d).nominal = pending.nominal
    BY <1>2, <1>3, <1>4 DEF ExitOnRecord
  <2>2. cycles # <<>> /\ Last(cycles).exit = "Committed" => pending.nominal = live'.step
    BY <1>1 DEF RecordInv, PieceOnRecord
  <2>3. next \in Stages \ {"idle"} /\ next \notin {"entered", "leaving", "planning"}
    BY <1>5
  <2>4. CyclesOnRecord' /\ LandingTaken' /\ PieceOnRecord'
    BY <1>2, <1>9, <2>1, <2>2, <2>3, GoOnKeepsRecords
  <2>5. integrity' = integrity
    BY <1>9 DEF GoOn, verdict
  <2>6. CorrectionsOnLedger'
    BY <1>1, <1>9, <2>5, LedgerKept
  <2>7. StopFounded'
    BY <1>1, <1>2, <1>9, GoOnKeepsStop DEF Running
  <2> QED BY <2>4, <2>6, <2>7 DEF RecordInv
<1> QED BY <1>6, <1>7, <1>8, <1>9

\* The last nominal, flown to its end, is a segment that is no correction.
LEMMA ExecuteDirectKeepsRecords ==
  ASSUME IInv, RecordInv, NEW landing \in Nat, ExecuteDirect(landing)
  PROVE  RecordInv'
<1> DEFINE c == [pending EXCEPT !.decision = "Direct"]
<1>1. /\ stage = "accepted" /\ AppendSegment(NominalKind, pending.entry, landing)
      /\ EndWith("Landed", c)
  BY DEF ExecuteDirect
<1>2. pending \in Cycles /\ pending.entry \in Nat /\ NominalKind \in Kinds
      /\ NominalKind # "LocalCorrection"
  BY <1>1, Underway DEF Cycles, NominalKind, Kinds
<1>3. /\ c \in Cycles /\ c.index = pending.index /\ c.entry = pending.entry
      /\ c.exit = pending.exit /\ c.proposal = pending.proposal /\ c.query = pending.query
      /\ c.nominal = pending.nominal /\ c.audit = pending.audit
  BY <1>2 DEF Cycles, Decisions
<1>4. \/ segments' = segments
      \/ \E s \in Segments : segments' = Append(segments, s) /\ s.kind # "LocalCorrection"
  BY <1>1, <1>2, SegmentAppended
<1>5. "Landed" \in Stops \ (PreflightStops \cup {"ImplementationError", "Deadline"})
  BY DEF Stops, PreflightStops
<1> HIDE DEF c
<1> QED BY <1>1, <1>3, <1>4, <1>5, EndKeepsRecords

\* The search of a correction, found or not, leaves the ledger alone.
LEMMA ClearingKeepsRecords ==
  ASSUME IInv, RecordInv, FindNoClearing \/ \E p \in Clearings : SelectClearing(p)
  PROVE  RecordInv'
<1>1. CASE FindNoClearing
  <2> DEFINE c == [pending EXCEPT !.decision = "NoClearing"]
  <2>1. stage = "blocked" /\ EndWith("NoClearing", c) /\ UNCHANGED <<live, queued, segments>>
    BY <1>1 DEF FindNoClearing
  <2>2. pending \in Cycles
    BY <2>1, Underway
  <2>3. /\ c \in Cycles /\ c.index = pending.index /\ c.entry = pending.entry
        /\ c.exit = pending.exit /\ c.proposal = pending.proposal /\ c.query = pending.query
        /\ c.nominal = pending.nominal /\ c.audit = pending.audit
    BY <2>2 DEF Cycles, Decisions
  <2>4. "NoClearing" \in Stops \ (PreflightStops \cup {"ImplementationError", "Deadline"})
    BY DEF Stops, PreflightStops
  <2> HIDE DEF c
  <2> QED BY <2>1, <2>3, <2>4, EndKeepsRecords
<1>2. ASSUME NEW p \in Clearings, SelectClearing(p) PROVE RecordInv'
  <2> DEFINE c == [pending EXCEPT !.proposal = p]
  <2>1. stage = "blocked" /\ GoOn("selected", c)
        /\ UNCHANGED <<live, queued, cycles, segments, corrections>>
    BY <1>2 DEF SelectClearing, records
  <2>2. /\ terminal = "None" /\ pending \in Cycles /\ pending.exit = "None" /\ Running
        /\ pending.entry = PieceEntry /\ SessionTypes
    BY <2>1, UnderwayOnRecord, Underway
  <2>3. p \in [E : Steps, X : Steps, H : Steps]
    <3>1. Boundaries \subseteq Nat
      BY <2>2 DEF Boundaries, SessionTypes
    <3> QED BY <3>1 DEF Clearings, Steps
  <2>4. c \in Cycles /\ c.entry = PieceEntry /\ c.exit = "None" /\ ExitOnRecord(c)
    BY <2>2, <2>3 DEF Cycles, ExitOnRecord
  <2>5. "selected" \in Stages \ {"idle"}
    BY DEF Stages
  <2> HIDE DEF c
  <2>6. CyclesOnRecord' /\ LandingTaken' /\ PieceOnRecord'
    BY <2>1, <2>2, <2>4, <2>5, GoOnKeepsRecords
  <2>7. integrity' = integrity
    BY <2>1 DEF GoOn, verdict
  <2>8. CorrectionsOnLedger'
    BY <2>1, <2>7, LedgerKept
  <2>9. StopFounded'
    BY <2>1, <2>2, GoOnKeepsStop DEF Running
  <2> QED BY <2>6, <2>8, <2>9 DEF RecordInv
<1> QED BY <1>1, <1>2

\* The flight to the entry of a correction is a segment that is no correction.
LEMMA EnterCorrectionKeepsRecords ==
  ASSUME IInv, RecordInv, NEW exit \in Exits \ {"None", "Committed"}, EnterCorrection(exit)
  PROVE  RecordInv'
<1> DEFINE p == pending.proposal
           c == [pending EXCEPT !.exit = exit, !.query = p.X]
           next == IF exit = "ClearReady" THEN "leaving" ELSE "entered"
<1>1. /\ stage = "selected" /\ (exit = "NoEarlierBoundary" <=> p.X = NoStep)
      /\ live' = [step |-> p.E, craft |-> "Flying"]
      /\ AppendSegment(NominalKind, pending.entry, p.E)
      /\ GoOn(next, c) /\ UNCHANGED <<queued, cycles, corrections>>
  BY DEF EnterCorrection
<1>2. /\ terminal = "None" /\ pending \in Cycles /\ pending.entry = PieceEntry
      /\ ProposalInTime(p)
  BY <1>1, Underway DEF IInv, PieceUnderway
<1>3. /\ p.E \in Nat /\ p.X \in Steps /\ pending.entry \in Nat
      /\ NominalKind \in Kinds /\ NominalKind # "LocalCorrection"
  BY <1>2 DEF ProposalInTime, Cycles, NominalKind, Kinds
<1>4. /\ c \in Cycles /\ c.entry = PieceEntry /\ c.exit = exit /\ c.proposal = p /\ c.query = p.X
  BY <1>2, <1>3 DEF Cycles
<1>5. ExitOnRecord(c)
  BY <1>1, <1>4 DEF ExitOnRecord
<1>6. \/ segments' = segments
      \/ \E s \in Segments : segments' = Append(segments, s) /\ s.kind # "LocalCorrection"
  <2> HIDE DEF p
  <2> QED BY <1>1, <1>3, SegmentAppended
<1>7. next \in Stages \ {"idle"} /\ next \in {"entered", "leaving"}
      /\ (next = "entered" => exit # "ClearReady") /\ Running'
  BY <1>1 DEF Stages, Running
<1> HIDE DEF c, next, p
<1>8. CyclesOnRecord' /\ LandingTaken' /\ PieceOnRecord'
  BY <1>1, <1>2, <1>4, <1>5, <1>7, GoOnKeepsRecords
<1>9. integrity' = integrity
  BY <1>1 DEF GoOn, verdict
<1>10. CorrectionsOnLedger'
  BY <1>1, <1>6, <1>9, LedgerKept
<1>11. StopFounded'
  BY <1>1, <1>2, <1>7, GoOnKeepsStop
<1> QED BY <1>8, <1>10, <1>11 DEF RecordInv

\* A correction that hands over, to its handoff or to the exit that was checked.
LEMMA HandOverKeepsRecords ==
  ASSUME IInv, RecordInv, stage \in {"entered", "leaving"}, NEW c \in Cycles, NEW h \in Nat,
         c.index = pending.index, c.entry = pending.entry, c.proposal = pending.proposal,
         c.decision = "LocalCleared", c.proven, c.exit # "ClearReady", ExitOnRecord(c),
         HandOver(c), live'.craft = "Coasting", h = HandedOver(c), h > pending.proposal.E,
         AppendSegment("LocalCorrection", pending.proposal.E, h)
  PROVE  RecordInv'
<1>1. /\ stage # "idle" /\ stage' = "idle" /\ cycles' = Append(cycles, c)
      /\ corrections' = corrections + 1
      /\ UNCHANGED <<flying, deadline, stop, terminal, integrity, replayed, finalized>>
  BY DEF HandOver, given
<1>2. /\ flying /\ integrity /\ ~finalized /\ terminal = "None" /\ stop = "NoNominal"
      /\ pending \in Cycles /\ pending.entry <= pending.proposal.E
      /\ cycles # <<>> => Last(cycles).exit # "Committed"
      /\ ProposalInTime(pending.proposal)
  BY <1>1, UnderwayOnRecord, Underway DEF IInv, PieceUnderway
<1>3. CyclesOnRecord' /\ LandingTaken' /\ PieceOnRecord'
  BY <1>1, <1>2, PushKeepsRecords
<1>4. CorrectionsOnLedger'
  <2> DEFINE s == [kind |-> "LocalCorrection", from |-> pending.proposal.E, to |-> h]
  <2>1. pending.proposal.E \in Nat /\ "LocalCorrection" \in Kinds
    BY <1>2 DEF ProposalInTime, Kinds
  <2>2. s \in Segments /\ segments' = Append(segments, s)
    BY <2>1, SegmentAppended
  <2>3. /\ s.kind = "LocalCorrection" /\ s.from = c.proposal.E /\ s.to = HandedOver(c)
        /\ c.entry <= s.from /\ s.from < s.to
    BY <1>2, <2>1
  <2> HIDE DEF s
  <2> QED BY <1>1, <2>2, <2>3, LedgerOfHandoff
<1>5. StopFounded'
  BY <1>1, <1>2 DEF StopFounded, PreflightStops, Running
<1> QED BY <1>3, <1>4, <1>5 DEF RecordInv

\* A correction flown is one correction more on the ledger and one cycle more that tells of it.
LEMMA ExecuteCorrectionKeepsRecords == ASSUME IInv, RecordInv, ExecuteCorrection PROVE RecordInv'
<1> DEFINE p == pending.proposal
           c == [pending EXCEPT !.decision = "LocalCleared", !.proven = TRUE]
<1>1. /\ stage = "entered" /\ live' = [step |-> p.H, craft |-> "Coasting"]
      /\ AppendSegment("LocalCorrection", p.E, p.H) /\ HandOver(c)
  BY DEF ExecuteCorrection
<1>2. /\ SessionTypes /\ pending \in Cycles /\ ProposalInTime(p) /\ pending.exit # "Committed"
      /\ ExitOnRecord(pending) /\ pending.exit # "ClearReady"
  BY <1>1, Underway, UnderwayOnRecord DEF IInv, PieceUnderway, RecordInv, PieceOnRecord
<1>3. /\ c \in Cycles /\ c.index = pending.index /\ c.entry = pending.entry
      /\ c.decision = "LocalCleared" /\ c.proposal = p /\ c.proven = TRUE
      /\ c.exit = pending.exit /\ c.query = pending.query
  BY <1>2 DEF Cycles, Decisions
<1>4. ExitOnRecord(c) /\ HandedOver(c) = p.H
  BY <1>2, <1>3 DEF ExitOnRecord, HandedOver
<1>5. p.H \in Nat /\ p.H > p.E
  BY <1>2, SessionAssumption DEF ProposalInTime
<1> HIDE DEF c, p
<1>6. p = pending.proposal
  BY DEF p
<1> QED BY <1>1, <1>2, <1>3, <1>4, <1>5, <1>6, HandOverKeepsRecords

\* A correction left early is one more too: its segment ends at the early exit.
LEMMA ExecuteEarlyExitKeepsRecords == ASSUME IInv, RecordInv, ExecuteEarlyExit PROVE RecordInv'
<1> DEFINE p == pending.proposal
           q == pending.query
           c == [pending EXCEPT !.decision = "LocalCleared", !.exit = "Committed", !.proven = TRUE]
<1>1. /\ stage = "leaving" /\ live' = [step |-> q, craft |-> "Coasting"]
      /\ AppendSegment("LocalCorrection", p.E, q) /\ HandOver(c)
  BY DEF ExecuteEarlyExit
<1>2. /\ SessionTypes /\ pending \in Cycles /\ ProposalInTime(p) /\ q # NoStep /\ q = p.X
  BY <1>1, Underway DEF IInv, PieceUnderway
<1>3. /\ c \in Cycles /\ c.index = pending.index /\ c.entry = pending.entry
      /\ c.decision = "LocalCleared" /\ c.proposal = p /\ c.proven = TRUE
      /\ c.exit = "Committed" /\ c.query = q
  BY <1>2 DEF Cycles, Decisions, Exits
<1>4. ExitOnRecord(c) /\ HandedOver(c) = q
  BY <1>2, <1>3 DEF ExitOnRecord, HandedOver
<1>5. q \in Nat /\ q > p.E
  BY <1>2, SessionAssumption DEF ProposalInTime, Steps
<1> HIDE DEF c, p, q
<1>6. p = pending.proposal
  BY DEF p
<1> QED BY <1>1, <1>2, <1>3, <1>4, <1>5, <1>6, HandOverKeepsRecords

\* A piece that ends in an error leaves the corrections before it as they were recorded.
LEMMA FailKeepsRecords ==
  ASSUME IInv, RecordInv, NEW step \in Nat, NEW craft, NEW recorded \in BOOLEAN,
         Fail(step, craft, recorded)
  PROVE  RecordInv'
<1>1. /\ stage # "idle" /\ stage' = "idle" /\ cycles' = Append(cycles, pending)
      /\ stop' = "ImplementationError" /\ terminal' = "ImplementationError" /\ integrity' = FALSE
      /\ UNCHANGED <<flying, deadline, corrections, replayed, finalized>>
  BY DEF Fail, given
<1>2. /\ flying /\ ~finalized /\ pending \in Cycles /\ ExitOnRecord(pending)
      /\ pending.exit # "Committed" /\ SessionTypes
  BY <1>1, Underway, UnderwayOnRecord
<1>3. cycles # <<>> /\ Last(cycles).exit = "Committed" =>
        \/ pending.nominal = Last(cycles).query /\ pending.audit = "Passed"
        \/ stop' = "ImplementationError" /\ pending.nominal = NoStep
  BY <1>1, CommittedNominal
<1>4. CyclesOnRecord' /\ LandingTaken' /\ PieceOnRecord'
  BY <1>1, <1>2, <1>3, PushKeepsRecords
<1>5. \/ segments' = segments
      \/ \E s \in Segments : segments' = Append(segments, s)
  <2>1. CASE ~recorded
    BY <2>1 DEF Fail
  <2>2. CASE recorded
    <3>1. stage \in {"selected", "entered", "leaving"} /\ AppendSegment(FlownKind, FlownFrom, step)
      BY <2>2 DEF Fail
    <3>2. FlownKind \in Kinds
      BY DEF FlownKind, NominalKind, Kinds
    <3>3. ProposalInTime(pending.proposal)
      BY <1>1, <3>1 DEF IInv, PieceUnderway
    <3>4. FlownFrom \in Nat
      BY <1>2, <3>3 DEF FlownFrom, ProposalInTime, Cycles
    <3> QED BY <3>1, <3>2, <3>4, SegmentAppended
  <2> QED BY <2>1, <2>2
<1>6. CorrectionsOnLedger'
  BY <1>1, <1>2, <1>5, LedgerKept
<1>7. StopFounded'
  BY <1>1, <1>2 DEF StopFounded, PreflightStops
<1> QED BY <1>4, <1>6, <1>7 DEF RecordInv

\* Finishing overturns at most the verdict; the ledger and the cycles stay as flown.
LEMMA FinishKeepsRecords ==
  ASSUME IInv, RecordInv, NEW proof \in BOOLEAN, Finish(proof)
  PROVE  RecordInv'
<1> DEFINE proved == ~flying \/ proof
           stopAfterProof == IF proved THEN stop ELSE "ImplementationError"
           sound == integrity /\ proved
           valid == ~flying \/ ValidRecords(stopAfterProof, sound)
<1>1. /\ stage = "idle" /\ terminal # "None"
      /\ proof => flying /\ Provable
      /\ replayed' = proof /\ integrity' = (sound /\ valid)
      /\ stop' = IF valid THEN stopAfterProof ELSE "ImplementationError"
      /\ terminal' = IF proved /\ valid THEN terminal ELSE "ImplementationError"
      /\ UNCHANGED <<flying, deadline, live, stage, cycles, segments, corrections>>
  BY DEF Finish, given, records
<1>2. SessionTypes
  BY DEF IInv
<1>3. valid \in BOOLEAN /\ (~flying => valid)
  BY <1>2 DEF SessionTypes
<1> HIDE DEF valid
<1>4. /\ stop' \in {stop, "ImplementationError"} /\ terminal' # "None"
      /\ integrity' => integrity
      /\ integrity' \in BOOLEAN
      /\ stop' # "ImplementationError" => proved
      /\ ~flying => stop' = stop /\ ~proof
  BY <1>1, <1>2, <1>3 DEF SessionTypes
<1>5. \A x : ExitOnRecord(x)' <=> ExitOnRecord(x)
  BY DEF ExitOnRecord
<1>6. CyclesOnRecord'
  BY <1>1, <1>4, <1>5 DEF RecordInv, CyclesOnRecord
<1>7. CorrectionsOnLedger'
  BY <1>1, <1>4, LedgerKept
<1>8. LandingTaken'
  BY <1>1, <1>4 DEF RecordInv, LandingTaken
<1>9. PieceOnRecord'
  BY <1>1 DEF PieceOnRecord
<1>10. StopFounded'
  <2>1. Provable' <=> Provable
    BY <1>1 DEF Provable, LedgerCovers
  <2>2. Running' <=> Running
    BY <1>1 DEF Running
  <2>3. flying /\ stop' # "ImplementationError" => proof
    BY <1>4
  <2> QED BY <1>1, <1>4, <2>1, <2>2, <2>3 DEF RecordInv, StopFounded, PreflightStops
<1> QED BY <1>6, <1>7, <1>8, <1>9, <1>10 DEF RecordInv

\* Before a session has begun nothing is recorded.
LEMMA InitSatisfiesRecords == Init => RecordInv
<1> SUFFICES ASSUME Init PROVE RecordInv
  OBVIOUS
<1>1. /\ live = [step |-> 0, craft |-> "Pad"] /\ stage = "idle"
      /\ cycles = <<>> /\ segments = <<>> /\ corrections = 0 /\ replayed = FALSE
      /\ finalized = FALSE
      /\ \/ flying = TRUE /\ stop = "NoNominal" /\ terminal = "None"
         \/ flying = FALSE /\ stop \in PreflightStops /\ terminal = stop
  BY DEF Init
<1>2. CyclesOnRecord /\ LandingTaken /\ PieceOnRecord
  BY <1>1 DEF CyclesOnRecord, LandingTaken, PieceOnRecord, PieceEntry
<1>3. CorrectionsIn(segments) = {}
  BY <1>1 DEF CorrectionsIn
<1>4. CorrectionsOnLedger
  BY <1>1, <1>3, FS_EmptySet DEF CorrectionsOnLedger, Ledgered
<1>5. StopFounded
  BY <1>1 DEF StopFounded, PreflightStops, Running
<1> QED BY <1>2, <1>4, <1>5 DEF RecordInv

\* Every step of the session keeps what is on record; one step of the proof per action.
LEMMA StepKeepsRecords == IInv /\ RecordInv /\ [Next]_vars => RecordInv'
<1> SUFFICES ASSUME IInv, RecordInv, [Next]_vars PROVE RecordInv'
  OBVIOUS
<1>1. live.step \in Nat /\ deadline \in Nat
  BY DEF IInv, SessionTypes
<1>2. CASE Begin
  BY <1>2, BeginKeepsRecords
<1>3. ASSUME NEW a \in Audits, BuildInitialNominal(a) \/ BuildAcquisitionNominal(a)
      PROVE  RecordInv'
  BY <1>3, PlanningKeepsRecords
<1>4. CASE ProvePrefix
  BY <1>4, ProvePrefixKeepsRecords
<1>5. ASSUME NEW k \in (live.step + 1)..deadline, ExecuteDirect(k) PROVE RecordInv'
  <2>1. k \in Nat
    BY <1>1
  <2> QED BY <1>5, <2>1, ExecuteDirectKeepsRecords
<1>6. CASE FindNoClearing \/ \E p \in Clearings : SelectClearing(p)
  BY <1>6, ClearingKeepsRecords
<1>7. ASSUME NEW x \in Exits \ {"None", "Committed"}, EnterCorrection(x) PROVE RecordInv'
  BY <1>7, EnterCorrectionKeepsRecords
<1>8. CASE ExecuteCorrection
  BY <1>8, ExecuteCorrectionKeepsRecords
<1>9. CASE ExecuteEarlyExit
  BY <1>9, ExecuteEarlyExitKeepsRecords
<1>10. ASSUME NEW k \in live.step..deadline, NEW c \in Crafts \ {"Pad"}, NEW r \in BOOLEAN,
              Fail(k, c, r)
       PROVE  RecordInv'
  <2>1. k \in Nat
    BY <1>1
  <2> QED BY <1>10, <2>1, FailKeepsRecords
<1>11. ASSUME NEW proof \in BOOLEAN, Finish(proof) PROVE RecordInv'
  BY <1>11, FinishKeepsRecords
<1>12. CASE UNCHANGED vars
  <2>1. UNCHANGED <<flying, deadline, live, stage, pending, queued, cycles, segments, corrections,
                    stop, integrity, replayed, terminal, progress, finalized>>
    BY <1>12 DEF vars, given, records, verdict
  <2>2. \A x : ExitOnRecord(x)' <=> ExitOnRecord(x)
    BY DEF ExitOnRecord
  <2>3. CyclesOnRecord' /\ PieceOnRecord' /\ LandingTaken'
    BY <2>1, <2>2 DEF RecordInv, CyclesOnRecord, PieceOnRecord, LandingTaken, PieceEntry
  <2>4. CorrectionsOnLedger'
    BY <2>1 DEF RecordInv, CorrectionsOnLedger
  <2>5. StopFounded'
    BY <2>1 DEF RecordInv, StopFounded, Running, Provable, LedgerCovers
  <2> QED BY <2>3, <2>4, <2>5 DEF RecordInv
<1> QED
  BY <1>2, <1>3, <1>4, <1>5, <1>6, <1>7, <1>8, <1>9, <1>10, <1>11, <1>12
  DEF Next, Advance, AskAgain

----------------------------------------------------------------------------
(* The trace, call by call.                                                 *)

\* A step in the middle of a call answers nothing.
CallGoesOn == terminal' = "None" /\ UNCHANGED <<flying, finalized, corrections, cycles, progress>>

\* A call that hands over pushes the correction it tells of.
CallHandsOver(c) ==
  /\ terminal' = "None" /\ cycles' = Append(cycles, c) /\ c.index = corrections
  /\ corrections' = corrections + 1
  /\ progress' = [kind |-> "Handoff", piece |-> c.index, entry |-> c.entry, stop |-> "None",
                  corrections |-> corrections + 1, step |-> HandedOver(c)]
  /\ UNCHANGED <<flying, finalized>>

\* A call that ends the flight tells of the piece it pushes, or of none.
CallEnds(piece, entry) ==
  /\ terminal' # "None"
  /\ progress' = TerminalProgress(piece, entry, stop', live'.step)
  /\ \/ piece = NoStep /\ entry = live'.step /\ cycles' = cycles
     \/ /\ piece = corrections /\ \E c \in Cycles : cycles' = Append(cycles, c) /\ c.entry = entry
  /\ UNCHANGED <<flying, finalized, corrections>>

\* The end of a piece, in an answer or in an error.
LEMMA EndAnswers ==
  ASSUME IInv, stage # "idle", NEW c \in Cycles, c.index = pending.index, c.entry = pending.entry,
         cycles' = Append(cycles, c), terminal' = stop', stop' # "None",
         progress' = TerminalProgress(c.index, c.entry, stop', live'.step),
         UNCHANGED <<flying, finalized, corrections>>
  PROVE  CallEnds(corrections, c.entry)
<1>1. c.index = corrections
  BY DEF IInv, PieceUnderway, CyclesChain
<1> QED BY <1>1 DEF CallEnds

\* Every step of a call is one of the three.
LEMMA AdvanceAnswers ==
  ASSUME IInv, RecordInv, Advance
  PROVE  /\ flying /\ terminal = "None" /\ ~finalized
         /\ \/ CallGoesOn
            \/ \E c \in Cycles : CallHandsOver(c)
            \/ \E piece \in Int, entry \in Int : CallEnds(piece, entry)
<1>0. /\ SessionTypes /\ live.step \in Nat /\ deadline \in Nat
      /\ corrections \in Int /\ (stage # "idle" => pending \in Cycles /\ terminal = "None")
  BY DEF IInv, SessionTypes, PieceUnderway
<1>a. stage # "idle" \/ Begin
  BY DEF Advance, BuildInitialNominal, BuildAcquisitionNominal, ProvePrefix, ExecuteDirect,
         SelectClearing, FindNoClearing, EnterCorrection, ExecuteCorrection, ExecuteEarlyExit, Fail
<1>b. flying /\ terminal = "None" /\ ~finalized
  BY <1>0, <1>a DEF Begin, IInv, VerdictFounded
<1> DEFINE Told == \/ CallGoesOn
                   \/ \E c \in Cycles : CallHandsOver(c)
                   \/ \E piece \in Int, entry \in Int : CallEnds(piece, entry)
<1>c. ASSUME NEW next, NEW c, GoOn(next, c), UNCHANGED <<cycles, corrections>> PROVE Told
  <2>1. CallGoesOn
    BY <1>b, <1>c DEF GoOn, given, verdict, CallGoesOn
  <2> QED BY <2>1
<1>d. ASSUME stage # "idle", NEW cause \in Stops, NEW c \in Cycles, c.index = pending.index,
             c.entry = pending.entry, EndWith(cause, c)
      PROVE  Told
  <2>1. CallEnds(corrections, c.entry)
    <3>1. cause # "None"
      BY DEF Stops, PreflightStops
    <3> QED BY <1>d, <3>1, EndAnswers DEF EndWith, given
  <2>2. c.entry \in Int
    BY DEF Cycles
  <2> QED BY <1>0, <2>1, <2>2
<1>e. ASSUME stage # "idle", NEW c \in Cycles, c.index = pending.index,
             live'.step = HandedOver(c), HandOver(c)
      PROVE  Told
  <2>1. c.index = corrections
    BY <1>e DEF IInv, PieceUnderway, CyclesChain
  <2>2. CallHandsOver(c)
    BY <1>b, <1>e, <2>1 DEF HandOver, given, CallHandsOver
  <2> QED BY <2>2
<1>f. ASSUME NEW piece \in Int, NEW entry \in Int, CallEnds(piece, entry) PROVE Told
  BY <1>f
<1> HIDE DEF Told
<1>1. ASSUME Begin PROVE Told
  <2>1. CASE live.step >= deadline
    <3>1. CallEnds(NoStep, live.step)
      BY <1>1, <2>1 DEF Begin, CallEnds, given, records
    <3>2. NoStep \in Int /\ live.step \in Int
      BY <1>0 DEF NoStep
    <3> QED BY <3>1, <3>2, <1>f
  <2>2. CASE ~(live.step >= deadline)
    <3>1. GoOn("planning", NewCycle)
      BY <1>1, <2>2 DEF Begin, GoOn
    <3>2. UNCHANGED <<cycles, corrections>>
      BY <1>1 DEF Begin, records
    <3> QED BY <3>1, <3>2, <1>c
  <2> QED BY <2>1, <2>2
<1>2. ASSUME stage # "idle", NEW step, NEW audit, NominalFound(step, audit) PROVE Told
  BY <1>2, <1>c DEF NominalFound, records
<1>3. ASSUME stage # "idle", NEW cause \in {"NoNominal", "Unsupported"}, NominalMissing(cause)
      PROVE  Told
  <2> DEFINE c == [pending EXCEPT !.nominal = live.step, !.decision = cause]
  <2>1. c \in Cycles /\ c.index = pending.index /\ c.entry = pending.entry
    BY <1>0, <1>3 DEF Cycles, Decisions, Steps
  <2>2. cause \in Stops /\ EndWith(cause, c)
    BY <1>3 DEF NominalMissing, Stops, PreflightStops
  <2> HIDE DEF c
  <2> QED BY <1>3, <2>1, <2>2, <1>d
<1>4. ASSUME NEW a \in Audits, BuildInitialNominal(a) PROVE Told
  <2>1. stage # "idle"
    BY <1>4 DEF BuildInitialNominal
  <2>2. NominalMissing("NoNominal") \/ NominalFound(live.step, a)
    BY <1>4 DEF BuildInitialNominal
  <2> QED BY <2>1, <2>2, <1>2, <1>3
<1>5. ASSUME NEW a \in Audits, BuildAcquisitionNominal(a) PROVE Told
  <2>1. stage # "idle"
    BY <1>5 DEF BuildAcquisitionNominal
  <2>2. \/ NominalMissing("NoNominal") \/ NominalMissing("Unsupported")
        \/ NominalFound(live.step, a) \/ NominalFound(queued, a)
    BY <1>5 DEF BuildAcquisitionNominal
  <2> QED BY <2>1, <2>2, <1>2, <1>3
<1>6. ASSUME stage # "idle", NEW cause \in Stops, NEW d \in Decisions,
             EndWith(cause, [pending EXCEPT !.decision = d])
      PROVE  Told
  <2> DEFINE c == [pending EXCEPT !.decision = d]
  <2>1. c \in Cycles /\ c.index = pending.index /\ c.entry = pending.entry
    BY <1>0, <1>6 DEF Cycles
  <2>2. EndWith(cause, c)
    BY <1>6
  <2> HIDE DEF c
  <2> QED BY <1>6, <2>1, <2>2, <1>d
<1>7. ASSUME ProvePrefix PROVE Told
  <2>1. stage # "idle"
    BY <1>7 DEF ProvePrefix
  <2>2. \/ EndWith("NominalRejected", [pending EXCEPT !.decision = "NominalRejected"])
        \/ EndWith("CorrectionLimit", [pending EXCEPT !.decision = "CorrectionLimit"])
        \/ GoOn("accepted", [pending EXCEPT !.decision = "NominalRejected"])
             /\ UNCHANGED <<cycles, corrections>>
        \/ GoOn("blocked", [pending EXCEPT !.decision = "TerrainBlocked"])
             /\ UNCHANGED <<cycles, corrections>>
    BY <1>7 DEF ProvePrefix
  <2>3. /\ {"NominalRejected", "CorrectionLimit"} \subseteq Stops
        /\ {"NominalRejected", "CorrectionLimit"} \subseteq Decisions
    BY DEF Stops, Decisions
  <2> QED BY <2>1, <2>2, <2>3, <1>6, <1>c
<1>8. ASSUME NEW k, ExecuteDirect(k) PROVE Told
  <2>1. stage # "idle" /\ EndWith("Landed", [pending EXCEPT !.decision = "Direct"])
    BY <1>8 DEF ExecuteDirect
  <2>2. "Landed" \in Stops /\ "Direct" \in Decisions
    BY DEF Stops, Decisions
  <2> QED BY <2>1, <2>2, <1>6
<1>9. ASSUME NEW p, SelectClearing(p) PROVE Told
  BY <1>9, <1>c DEF SelectClearing, records
<1>10. ASSUME FindNoClearing PROVE Told
  <2>1. stage # "idle" /\ EndWith("NoClearing", [pending EXCEPT !.decision = "NoClearing"])
    BY <1>10 DEF FindNoClearing
  <2>2. "NoClearing" \in Stops /\ "NoClearing" \in Decisions
    BY DEF Stops, Decisions
  <2> QED BY <2>1, <2>2, <1>6
<1>11. ASSUME NEW x, EnterCorrection(x) PROVE Told
  BY <1>11, <1>c DEF EnterCorrection
<1>12. ASSUME ExecuteCorrection PROVE Told
  <2> DEFINE c == [pending EXCEPT !.decision = "LocalCleared", !.proven = TRUE]
  <2>1. /\ stage = "entered" /\ live'.step = pending.proposal.H /\ HandOver(c)
    BY <1>12 DEF ExecuteCorrection
  <2>2. /\ c \in Cycles /\ c.index = pending.index /\ c.exit # "Committed"
        /\ c.proposal = pending.proposal
    BY <1>0, <2>1 DEF Cycles, Decisions, IInv, PieceUnderway
  <2>3. HandedOver(c) = pending.proposal.H
    BY <2>2 DEF HandedOver
  <2> HIDE DEF c
  <2> QED BY <2>1, <2>2, <2>3, <1>e
<1>13. ASSUME ExecuteEarlyExit PROVE Told
  <2> DEFINE c == [pending EXCEPT !.decision = "LocalCleared", !.exit = "Committed", !.proven = TRUE]
  <2>1. /\ stage = "leaving" /\ live'.step = pending.query /\ HandOver(c)
    BY <1>13 DEF ExecuteEarlyExit
  <2>2. /\ c \in Cycles /\ c.index = pending.index /\ c.exit = "Committed"
        /\ c.query = pending.query
    BY <1>0, <2>1 DEF Cycles, Decisions, Exits
  <2>3. HandedOver(c) = pending.query
    BY <2>2 DEF HandedOver
  <2> HIDE DEF c
  <2> QED BY <2>1, <2>2, <2>3, <1>e
<1>14. ASSUME NEW k, NEW craft, NEW r, Fail(k, craft, r) PROVE Told
  <2>1. /\ stage # "idle" /\ cycles' = Append(cycles, pending) /\ live'.step = k
        /\ stop' = "ImplementationError" /\ terminal' = stop'
        /\ progress' = TerminalProgress(pending.index, pending.entry, stop', live'.step)
        /\ UNCHANGED <<flying, finalized, corrections>>
    BY <1>14 DEF Fail, given
  <2>2. CallEnds(corrections, pending.entry)
    BY <1>0, <2>1, EndAnswers
  <2>3. pending.entry \in Int
    BY <1>0, <2>1 DEF Cycles
  <2> QED BY <1>0, <2>2, <2>3, <1>f
<1>15. Told
  BY <1>1, <1>4, <1>5, <1>7, <1>8, <1>9, <1>10, <1>11, <1>12, <1>13, <1>14 DEF Advance
<1> QED BY <1>b, <1>15 DEF Told

\* The recorder takes no step that the session does not.
LEMMA RecorderDrivesSession == BundleNext => [Next]_vars
BY DEF BundleNext, Drive, Conclude, WriteNext, Die, Rest, bundleVars, Next, AskAgain

\* A trace in which the flight goes on, or one that has just ended.
LEMMA TraceUnderway ==
  ASSUME IInv, TraceTold, flying, terminal = "None"
  PROVE  /\ entries \in Seq(Entries) /\ Len(entries) = corrections /\ corrections = Len(cycles)
         /\ corrections \in Nat /\ cycles \in Seq(Cycles) /\ ~TraceEnded
         /\ progress.kind \in {"None", "Handoff"}
         /\ progress.kind = "Handoff" => progress.corrections = corrections
<1>1. /\ entries \in Seq(Entries) /\ Len(entries) = corrections /\ corrections = Len(cycles)
      /\ corrections \in Nat /\ cycles \in Seq(Cycles)
      /\ \A i \in 1..corrections : entries[i] = HandoffEntry(i)
      /\ progress = IF corrections = 0 THEN [kind |-> "None"] ELSE entries[corrections]
  BY DEF TraceTold, IInv, CyclesChain, SessionTypes
<1>2. corrections # 0 =>
        entries[corrections].kind = "Handoff" /\ entries[corrections].corrections = corrections
  <2>1. corrections # 0 => entries[corrections] = HandoffEntry(corrections)
    BY <1>1
  <2> QED BY <2>1 DEF HandoffEntry
<1>3. ~TraceEnded
  <2>1. entries # <<>> => corrections # 0
    BY <1>1, EmptySeq
  <2> QED BY <1>1, <1>2, <2>1 DEF TraceEnded, Last
<1> QED BY <1>1, <1>2, <1>3

\* An answer is one more entry; a step in the middle of a call leaves the trace.
LEMMA AdvanceKeepsTrace ==
  ASSUME IInv, RecordInv, TraceTold, Advance, IInv',
         \/ progress' # progress /\ entries' = Append(entries, progress')
         \/ progress' = progress /\ entries' = entries
  PROVE  TraceTold'
<1>1. flying /\ terminal = "None"
  BY AdvanceAnswers
<1>2. /\ entries \in Seq(Entries) /\ Len(entries) = corrections /\ corrections = Len(cycles)
      /\ corrections \in Nat /\ cycles \in Seq(Cycles)
      /\ progress.kind \in {"None", "Handoff"}
      /\ progress.kind = "Handoff" => progress.corrections = corrections
      /\ \A i \in 1..corrections : entries[i] = HandoffEntry(i)
      /\ progress = IF corrections = 0 THEN [kind |-> "None"] ELSE entries[corrections]
  BY <1>1, TraceUnderway DEF TraceTold
<1>3. CASE CallGoesOn
  <2>1. entries' = entries /\ UNCHANGED <<flying, corrections, cycles, progress>> /\ terminal' = "None"
    BY <1>3 DEF CallGoesOn
  <2> QED BY <1>1, <1>2, <2>1 DEF TraceTold, HandoffEntry
<1>4. ASSUME NEW c \in Cycles, CallHandsOver(c) PROVE TraceTold'
  <2> DEFINE e == progress'
  <2>1. /\ terminal' = "None" /\ cycles' = Append(cycles, c) /\ c.index = corrections
        /\ corrections' = corrections + 1 /\ flying'
        /\ e = [kind |-> "Handoff", piece |-> c.index, entry |-> c.entry, stop |-> "None",
                corrections |-> corrections + 1, step |-> HandedOver(c)]
    BY <1>1, <1>4 DEF CallHandsOver
  <2>2. e \in Entries
    <3>1. HandedOver(c) \in Int /\ c.entry \in Int
      BY DEF HandedOver, Cycles, Steps, NoStep
    <3> QED BY <1>2, <2>1, <3>1 DEF Entries
  <2>3. e # progress
    BY <1>2, <2>1
  <2> HIDE DEF e
  <2>4. entries' = Append(entries, e)
    BY <2>3 DEF e
  <2>5. /\ entries' \in Seq(Entries) /\ Len(entries') = corrections + 1
        /\ \A i \in 1..corrections : entries'[i] = entries[i] /\ cycles'[i] = cycles[i]
        /\ entries'[corrections + 1] = e /\ cycles'[corrections + 1] = c
    <3>1. /\ entries' \in Seq(Entries) /\ Len(entries') = corrections + 1
          /\ \A i \in 1..corrections : entries'[i] = entries[i]
          /\ entries'[corrections + 1] = e
      BY <1>2, <2>2, <2>4, AppendProperties
    <3>2. /\ \A i \in 1..corrections : cycles'[i] = cycles[i]
          /\ cycles'[corrections + 1] = c
      BY <1>2, <2>1, AppendProperties
    <3> QED BY <3>1, <3>2
  <2>6. ASSUME NEW i \in 1..(corrections + 1)
        PROVE  entries'[i] = [kind |-> "Handoff", piece |-> i - 1, entry |-> cycles'[i].entry,
                              stop |-> "None", corrections |-> i, step |-> HandedOver(cycles'[i])]
    <3>1. CASE i = corrections + 1
      BY <1>2, <2>1, <2>5, <3>1
    <3>2. CASE i # corrections + 1
      <4>1. i \in 1..corrections
        BY <1>2, <3>2
      <4>2. entries'[i] = HandoffEntry(i) /\ cycles'[i] = cycles[i]
        BY <1>2, <2>5, <4>1
      <4> QED BY <4>2 DEF HandoffEntry
    <3> QED BY <3>1, <3>2
  <2>7. progress' = entries'[corrections + 1] /\ corrections + 1 # 0
    BY <1>2, <2>5 DEF e
  <2> QED BY <2>1, <2>5, <2>6, <2>7 DEF TraceTold, HandoffEntry, HandedOver
<1>5. ASSUME NEW piece \in Int, NEW entry \in Int, CallEnds(piece, entry) PROVE TraceTold'
  <2> DEFINE e == progress'
  <2>1. /\ terminal' # "None" /\ flying' /\ corrections' = corrections
        /\ e = [kind |-> "Terminal", piece |-> piece, entry |-> entry, stop |-> stop',
                corrections |-> corrections, step |-> live'.step]
        /\ \/ piece = NoStep /\ entry = live'.step /\ cycles' = cycles
           \/ piece = corrections /\ \E c \in Cycles : cycles' = Append(cycles, c) /\ c.entry = entry
    BY <1>1, <1>5 DEF CallEnds, TerminalProgress
  <2>2. stop' \in Stops /\ live'.step \in Nat
    BY DEF IInv, SessionTypes
  <2>3. e \in Entries /\ e # progress
    BY <1>2, <2>1, <2>2 DEF Entries
  <2> HIDE DEF e
  <2>4. entries' = Append(entries, e)
    BY <2>3 DEF e
  <2>5. /\ entries' \in Seq(Entries) /\ Len(entries') = corrections + 1
        /\ \A i \in 1..corrections : entries'[i] = entries[i]
        /\ entries'[corrections + 1] = e
    BY <1>2, <2>3, <2>4, AppendProperties
  <2>6. \A i \in 1..corrections : cycles'[i] = cycles[i]
    BY <1>2, <2>1, AppendProperties
  <2>7. \/ e.piece = NoStep /\ e.entry = live'.step
        \/ /\ e.piece = corrections /\ Len(cycles') = corrections + 1
           /\ e.entry = Last(cycles').entry
    <3>1. ASSUME piece = corrections, NEW c \in Cycles, cycles' = Append(cycles, c), c.entry = entry
          PROVE  /\ e.piece = corrections /\ Len(cycles') = corrections + 1
                 /\ e.entry = Last(cycles').entry
      <4>1. Len(cycles') = corrections + 1 /\ Last(cycles') = c
        BY <1>2, <3>1, LastGrows
      <4> QED BY <2>1, <3>1, <4>1
    <3> QED BY <2>1, <3>1
  <2>8. TerminalEntry(entries[corrections + 1])'
    <3>1. /\ e.kind = "Terminal" /\ e.stop = stop' /\ e.corrections = corrections
          /\ e.step = live'.step
      BY <2>1
    <3> QED BY <2>1, <2>5, <2>7, <3>1 DEF TerminalEntry
  <2> QED BY <1>2, <2>1, <2>5, <2>6, <2>8 DEF TraceTold, HandoffEntry, HandedOver
<1> QED BY <1>3, <1>4, <1>5, AdvanceAnswers

\* A session that preflight refused answers once; the answer of any other has ended its trace.
LEMMA AskAgainKeepsTrace ==
  ASSUME IInv, TraceTold, AskAgain, ~TraceEnded, entries' = Append(entries, progress)
  PROVE  TraceTold'
<1>1. /\ terminal # "None"
      /\ UNCHANGED <<flying, live, cycles, corrections, stop, terminal, progress>>
  BY DEF AskAgain, vars, given, records, verdict
<1>2. ~flying
  <2>1. ASSUME flying PROVE TraceEnded
    <3>1. entries \in Seq(Entries) /\ Len(entries) = corrections + 1 /\ corrections \in Nat
      BY <1>1, <2>1 DEF TraceTold, IInv, SessionTypes
    <3>2. TerminalEntry(entries[corrections + 1])
      BY <1>1, <2>1 DEF TraceTold
    <3>3. Last(entries).kind = "Terminal"
      BY <3>1, <3>2 DEF Last, TerminalEntry
    <3>4. entries # <<>>
      BY <3>1, EmptySeq
    <3> QED BY <3>3, <3>4 DEF TraceEnded
  <2> QED BY <2>1
<1>3. /\ progress = [kind |-> "Terminal", piece |-> NoStep, entry |-> NoStep, stop |-> stop,
                     corrections |-> 0, step |-> NoStep]
      /\ entries \in {<<>>, <<progress>>}
  BY <1>2 DEF TraceTold
<1>4. entries # <<progress>>
  BY <1>3 DEF TraceEnded, Last
<1>5. entries' = <<progress>>
  <2>1. entries = <<>>
    BY <1>3, <1>4
  <2>2. Append(<<>>, progress) = <<progress>>
    OBVIOUS
  <2> QED BY <2>1, <2>2
<1>6. progress \in Entries
  <2>1. stop \in Stops
    BY DEF IInv, SessionTypes
  <2> QED BY <1>3, <2>1 DEF Entries, NoStep
<1>7. entries' \in Seq(Entries)
  BY <1>5, <1>6
<1> QED BY <1>1, <1>2, <1>3, <1>5, <1>7 DEF TraceTold

\* The final stop is told by the last entry.
LEMMA ConclusionIsTold ==
  ASSUME IInv, TraceTold, TraceEnded, NEW proof \in BOOLEAN, Finish(proof), IInv',
         entries' = [entries EXCEPT ![Len(entries)].stop = stop']
  PROVE  TraceTold' /\ TraceEnded'
<1>1. /\ terminal # "None" /\ UNCHANGED <<flying, live, cycles, corrections>>
      /\ progress' = [progress EXCEPT !.stop = stop'] /\ terminal' # "None"
      /\ stop' \in Stops /\ entries \in Seq(Entries) /\ corrections \in Nat
      /\ Len(entries) \in Nat
  BY DEF Finish, given, records, IInv, SessionTypes, TraceTold
<1>2. entries # <<>> /\ Len(entries) >= 1
  BY <1>1, EmptySeq DEF TraceEnded
<1>3. /\ entries' \in Seq(Entries) /\ Len(entries') = Len(entries)
      /\ \A i \in 1..(Len(entries) - 1) : entries'[i] = entries[i]
      /\ entries'[Len(entries)] = [entries[Len(entries)] EXCEPT !.stop = stop']
  <2>1. [entries[Len(entries)] EXCEPT !.stop = stop'] \in Entries
    <3>1. entries[Len(entries)] \in Entries
      BY <1>1, <1>2
    <3> QED BY <1>1, <3>1 DEF Entries
  <2> QED BY <1>1, <1>2, <2>1
<1>4. entries[Len(entries)].kind = "Terminal"
  BY DEF TraceEnded, Last
<1>5. TraceEnded'
  <2>1. entries'[Len(entries')].kind = "Terminal"
    <3>1. entries[Len(entries)] \in Entries
      BY <1>1, <1>2
    <3> QED BY <1>3, <1>4, <3>1 DEF Entries
  <2>2. entries' # <<>>
    BY <1>2, <1>3, EmptySeq
  <2> QED BY <2>1, <2>2 DEF TraceEnded, Last
<1>6. CASE flying
  <2>1. /\ Len(entries) = corrections + 1 /\ TerminalEntry(entries[corrections + 1])
        /\ \A i \in 1..corrections : entries[i] = HandoffEntry(i)
    BY <1>1, <1>6 DEF TraceTold
  <2>2. \A i \in 1..corrections : entries'[i] = entries[i]
    BY <1>1, <1>3, <2>1
  <2>3. entries[corrections + 1] \in Entries
    BY <1>1, <1>2, <2>1
  <2>4. TerminalEntry(entries[corrections + 1])'
    BY <1>1, <1>3, <2>1, <2>3 DEF TerminalEntry, Entries
  <2> QED BY <1>1, <1>3, <1>5, <1>6, <2>1, <2>2, <2>4 DEF TraceTold, HandoffEntry, HandedOver
<1>7. CASE ~flying
  <2>1. /\ progress = [kind |-> "Terminal", piece |-> NoStep, entry |-> NoStep, stop |-> stop,
                       corrections |-> 0, step |-> NoStep]
        /\ entries = <<progress>>
    BY <1>2, <1>7 DEF TraceTold
  <2>2. progress' = [kind |-> "Terminal", piece |-> NoStep, entry |-> NoStep, stop |-> stop',
                     corrections |-> 0, step |-> NoStep]
    BY <1>1, <2>1
  <2>3. entries' = <<progress'>>
    BY <1>1, <2>1
  <2> QED BY <1>1, <1>3, <1>5, <1>7, <2>2, <2>3 DEF TraceTold
<1> QED BY <1>6, <1>7

\* Every step of the recorder keeps the trace, and what it is when it stops driving.
LEMMA StepKeepsTrace ==
  IInv /\ RecordInv /\ TraceTold /\ Concluded /\ [BundleNext]_bundleVars /\ IInv' =>
    TraceTold' /\ Concluded'
<1> SUFFICES ASSUME IInv, RecordInv, TraceTold, Concluded, [BundleNext]_bundleVars, IInv'
             PROVE  TraceTold' /\ Concluded'
  OBVIOUS
<1>1. CASE Drive
  <2>1. recorder = "driving" /\ recorder' = recorder /\ ~TraceEnded /\ ~finalized
    BY <1>1 DEF Drive, Concluded
  <2>2. CASE Advance
    <3>1. \/ progress' # progress /\ entries' = Append(entries, progress')
          \/ progress' = progress /\ entries' = entries
      <4>1. ~AskAgain
        BY <2>2, AdvanceAnswers DEF AskAgain
      <4> QED BY <1>1, <4>1 DEF Drive
    <3>2. finalized' = finalized
      BY <2>2, AdvanceAnswers DEF CallGoesOn, CallHandsOver, CallEnds
    <3> QED BY <2>1, <2>2, <3>1, <3>2, AdvanceKeepsTrace DEF Concluded
  <2>3. CASE AskAgain /\ entries' = Append(entries, progress)
    <3>1. finalized' = finalized
      BY <2>3 DEF AskAgain, vars, verdict
    <3> QED BY <2>1, <2>3, <3>1, AskAgainKeepsTrace DEF Concluded
  <2> QED BY <1>1, <2>2, <2>3 DEF Drive
<1>2. CASE Conclude
  <2>1. PICK proof \in BOOLEAN : Finish(proof)
    BY <1>2 DEF Conclude
  <2>2. /\ TraceEnded /\ recorder' = "writing"
        /\ entries' = [entries EXCEPT ![Len(entries)].stop = stop'] /\ finalized'
    BY <1>2, <2>1 DEF Conclude, Finish
  <2> QED BY <2>1, <2>2, ConclusionIsTold DEF Concluded
<1>3. CASE UNCHANGED <<vars, entries>> /\ (WriteNext \/ Die \/ UNCHANGED bundleVars)
  <2>1. UNCHANGED <<flying, live, cycles, corrections, stop, terminal, progress, finalized, entries>>
    BY <1>3 DEF vars, given, records, verdict
  <2>2. TraceTold'
    BY <2>1 DEF TraceTold, HandoffEntry, HandedOver, TerminalEntry
  <2>3. TraceEnded' <=> TraceEnded
    BY <2>1 DEF TraceEnded
  <2>4. \/ recorder = "writing" /\ recorder' \in {"refused", "done", "writing"}
        \/ recorder' \in {"dead", recorder}
    BY <1>3 DEF WriteNext, Die, bundleVars
  <2> QED BY <2>1, <2>2, <2>3, <2>4 DEF Concluded
<1> QED BY <1>1, <1>2, <1>3 DEF BundleNext, WriteNext, Die, Rest, bundleVars

----------------------------------------------------------------------------
(* The two accounts of a finished flight agree.                             *)

\* The i-th correction is found, whichever way it is looked for.
LEMMA CorrectedIsLedgered ==
  ASSUME IInv, RecordInv, NEW i \in 1..corrections
  PROVE  /\ Corrected(i).from = cycles[i].proposal.E /\ Corrected(i).to = HandedOver(cycles[i])
         /\ cycles[i].entry <= cycles[i].proposal.E
         /\ cycles[i].proposal.E < HandedOver(cycles[i])
         /\ \E s \in {segments[j] : j \in 1..Len(segments)} :
              /\ s.kind = "LocalCorrection" /\ s.from = cycles[i].proposal.E
              /\ s.to = HandedOver(cycles[i])
<1>1. segments \in Seq(Segments) /\ Corrections = CorrectionsIn(segments)
  BY DEF IInv, SessionTypes, Corrections, CorrectionsIn
<1>2. PICK j \in CorrectionsIn(segments) :
        /\ RankIn(segments, j) = i
        /\ segments[j].from = cycles[i].proposal.E /\ segments[j].to = HandedOver(cycles[i])
  BY DEF RecordInv, CorrectionsOnLedger, Ledgered
<1>3. Corrected(i) = segments[CHOOSE k \in CorrectionsIn(segments) : RankIn(segments, k) = i]
  BY <1>1 DEF Corrected, RankIn
<1>4. (CHOOSE k \in CorrectionsIn(segments) : RankIn(segments, k) = i) = j
  BY <1>1, <1>2, RankTellsCorrection
<1>5. j \in 1..Len(segments) /\ segments[j].kind = "LocalCorrection"
  BY DEF CorrectionsIn
<1>6. cycles[i].entry <= cycles[i].proposal.E /\ cycles[i].proposal.E < HandedOver(cycles[i])
  BY DEF RecordInv, CorrectionsOnLedger, Ledgered
<1> QED BY <1>2, <1>3, <1>4, <1>5, <1>6

\* The piece after a correction starts where it was handed over; the first starts with the flight.
LEMMA PieceStarts ==
  ASSUME IInv, RecordInv, NEW i \in 1..Len(cycles)
  PROVE  cycles[i].index = i - 1 /\ cycles[i].entry = IF i = 1 THEN 0 ELSE HandedOver(cycles[i - 1])
<1>1. Len(cycles) \in Nat /\ Chain(cycles) /\ cycles # <<>>
  BY EmptySeq DEF IInv, SessionTypes, CyclesChain
<1>2. CASE i = 1
  BY <1>1, <1>2 DEF RecordInv, CyclesOnRecord, Chain
<1>3. CASE i # 1
  <2>1. i - 1 \in 1..(Len(cycles) - 1) /\ (i - 1) + 1 = i
    BY <1>1, <1>3
  <2>2. cycles[(i - 1) + 1].entry = HandedOver(cycles[i - 1])
    BY <1>1, <2>1 DEF Chain
  <2> QED BY <1>1, <1>3, <2>1, <2>2 DEF Chain
<1> QED BY <1>2, <1>3

\* The records validate whatever the flight's stop, unless an error struck the queued landing.
LEMMA RecordsValidate ==
  ASSUME IInv, RecordInv, terminal # "None"
  PROVE  ValidRecords(stop, integrity) \/ StruckQueuedLanding
<1>1. /\ Len(cycles) \in Nat /\ Chain(cycles) /\ Counted(cycles, corrections) /\ corrections \in Nat
  BY DEF IInv, SessionTypes, CyclesChain
<1> SUFFICES ASSUME ~StruckQueuedLanding, NEW i \in 1..Len(cycles), cycles[i].exit # "None"
             PROVE  ValidExit(i, stop, integrity)
  BY DEF ValidRecords
<1>2. /\ (cycles[i].exit = "NoEarlierBoundary") <=> (cycles[i].proposal.X = NoStep)
      /\ cycles[i].query = cycles[i].proposal.X
      /\ cycles[i].exit = "ClearReady" => ~integrity
  BY DEF RecordInv, CyclesOnRecord, ExitOnRecord
<1>3. ASSUME cycles[i].exit = "Committed"
      PROVE  /\ cycles[i].proven /\ cycles[i].decision = "LocalCleared"
             /\ \E s \in {t \in {segments[j] : j \in 1..Len(segments)} :
                            t.kind = "LocalCorrection" /\ t.from = cycles[i].proposal.E} :
                  s.to = cycles[i].query
             /\ IF i < Len(cycles)
                THEN /\ cycles[i + 1].entry = cycles[i].query
                     /\ cycles[i + 1].nominal = cycles[i].query /\ cycles[i + 1].audit = "Passed"
                ELSE stop # "Landed"
  <2>1. cycles[i].proven /\ cycles[i].decision = "LocalCleared"
    BY <1>3 DEF RecordInv, CyclesOnRecord
  <2>2. i \in 1..corrections
    BY <1>1, <2>1 DEF Counted
  <2>3. HandedOver(cycles[i]) = cycles[i].query
    BY <1>3 DEF HandedOver
  <2>4. i = Len(cycles) - 1
    BY <1>3 DEF IInv, ExitsCommitted, CommittedLate
  <2>5. cycles[i + 1].entry = cycles[i].query
    BY <1>1, <2>3, <2>4 DEF Chain
  <2>6. cycles[i + 1].nominal = cycles[i].query /\ cycles[i + 1].audit = "Passed"
    <3>1. ~(stop = "ImplementationError" /\ cycles[i + 1].nominal = NoStep)
      BY <1>1, <1>3, <2>4 DEF StruckQueuedLanding, Last
    <3> QED BY <1>3, <2>4, <3>1 DEF RecordInv, LandingTaken
  <2> QED BY <1>1, <2>1, <2>2, <2>3, <2>4, <2>5, <2>6, CorrectedIsLedgered
<1> QED BY <1>2, <1>3 DEF ValidExit

\* The trace of a flight is the one its records tell.
LEMMA TraceValidates ==
  ASSUME IInv, RecordInv, TraceTold, flying, terminal # "None", NEW i \in DOMAIN entries
  PROVE  /\ TraceEnded /\ Len(entries) - 1 = corrections
         /\ IF entries[i].kind = "Handoff" THEN ValidHandoff(i) ELSE ValidTerminal(i)
<1>1. /\ entries \in Seq(Entries) /\ Len(entries) = corrections + 1 /\ corrections \in Nat
      /\ TerminalEntry(entries[corrections + 1])
      /\ \A k \in 1..corrections : entries[k] = HandoffEntry(k)
      /\ Len(cycles) \in Nat /\ corrections <= Len(cycles) /\ segments \in Seq(Segments)
      /\ cycles \in Seq(Cycles)
  BY DEF TraceTold, IInv, SessionTypes, CyclesChain, Counted
<1>2. TraceEnded
  <2>1. entries # <<>>
    BY <1>1, EmptySeq
  <2> QED BY <1>1, <2>1 DEF TraceEnded, Last, TerminalEntry
<1> DEFINE e == entries[i]
           before == IF i = 1 THEN 0 ELSE entries[i - 1].step
<1>3. i \in 1..(corrections + 1)
  BY <1>1
<1>4. ASSUME i \in 1..Len(cycles) PROVE cycles[i].index = i - 1 /\ cycles[i].entry = before
  <2>1. i # 1 => entries[i - 1].step = HandedOver(cycles[i - 1])
    <3>1. i # 1 => i - 1 \in 1..corrections
      BY <1>1, <1>3
    <3>2. i # 1 => entries[i - 1] = HandoffEntry(i - 1)
      BY <1>1, <3>1
    <3> QED BY <3>2 DEF HandoffEntry
  <2> QED BY <1>4, <2>1, PieceStarts
<1>5. CASE i \in 1..corrections
  <2>1. /\ e.kind = "Handoff" /\ e.piece = i - 1 /\ e.corrections = i
        /\ e.entry = cycles[i].entry /\ e.step = HandedOver(cycles[i])
    <3>1. e = HandoffEntry(i)
      BY <1>1, <1>5
    <3> QED BY <3>1 DEF HandoffEntry
  <2>2. i \in 1..Len(cycles) /\ cycles[i].index = i - 1 /\ cycles[i].entry = before
    BY <1>1, <1>4, <1>5
  <2>3. /\ Corrected(i).from = cycles[i].proposal.E /\ Corrected(i).to = e.step
        /\ e.entry <= Corrected(i).from /\ Corrected(i).from < e.step
    BY <1>5, <2>1, CorrectedIsLedgered
  <2>4. e.step >= e.entry
    <3>1. /\ cycles[i].entry \in Int /\ cycles[i].proposal.E \in Int
          /\ HandedOver(cycles[i]) \in Int
      <4>1. cycles[i] \in Cycles
        BY <1>1, <2>2
      <4> QED BY <4>1 DEF Cycles, HandedOver, Steps, NoStep
    <3> QED BY <2>1, <2>3, <3>1
  <2>5. i <= Cardinality(Corrections)
    <3>1. Corrections = CorrectionsIn(segments)
      BY DEF Corrections, CorrectionsIn
    <3>2. Cardinality(CorrectionsIn(segments)) \in Nat
      BY <1>1, CorrectionsFinite
    <3>3. Cardinality(CorrectionsIn(segments)) >= corrections
      BY DEF RecordInv, CorrectionsOnLedger
    <3> QED BY <1>1, <1>5, <3>1, <3>2, <3>3
  <2>6. cycles[i].decision = "LocalCleared"
    BY <1>5, <2>2 DEF IInv, CyclesChain, Counted
  <2>7. ValidHandoff(i)
    BY <2>1, <2>2, <2>3, <2>4, <2>5, <2>6 DEF ValidHandoff
  <2> QED BY <1>1, <1>2, <2>1, <2>7
<1>6. CASE i = corrections + 1
  <2>1. TerminalEntry(e)
    BY <1>1, <1>6
  <2>2. /\ i = Len(entries) /\ e.stop = stop /\ e.corrections = corrections
        /\ e.step = live.step /\ e.kind = "Terminal"
    BY <1>1, <1>6, <2>1 DEF TerminalEntry
  <2>3. CASE e.piece = NoStep /\ e.entry = live.step
    <3>1. ValidTerminal(i)
      BY <2>2, <2>3 DEF ValidTerminal
    <3> QED BY <1>1, <1>2, <2>2, <3>1
  <2>4. CASE /\ e.piece = corrections /\ Len(cycles) = corrections + 1
             /\ e.entry = Last(cycles).entry
    <3>1. /\ e.piece # NoStep /\ e.piece < Len(cycles) /\ e.piece + 1 = i
          /\ i \in 1..Len(cycles) /\ Last(cycles) = cycles[i]
      BY <1>1, <1>6, <2>4 DEF NoStep, Last
    <3>2. cycles[i].index = i - 1 /\ cycles[i].entry = before
      BY <1>4, <3>1
    <3>3. ValidTerminal(i)
      BY <1>1, <1>6, <2>2, <2>4, <3>1, <3>2 DEF ValidTerminal
    <3> QED BY <1>1, <1>2, <2>2, <3>3
  <2> QED BY <2>1, <2>3, <2>4 DEF TerminalEntry
<1> QED BY <1>1, <1>3, <1>5, <1>6

\* The receipt is refused only where an error struck the queued landing.
LEMMA ProgressValidates ==
  ASSUME IInv, RecordInv, TraceTold, finalized, TraceEnded
  PROVE  ValidProgress \/ StruckQueuedLanding
<1>1. terminal # "None"
  BY DEF IInv, VerdictFounded
<1>2. CASE flying
  <2>1. entries \in Seq(Entries) /\ Len(entries) = corrections + 1 /\ corrections \in Nat
    BY <1>1, <1>2 DEF TraceTold, IInv, SessionTypes
  <2>2. Len(entries) - 1 = corrections
    BY <2>1
  <2>3. \A i \in DOMAIN entries :
          IF entries[i].kind = "Handoff" THEN ValidHandoff(i) ELSE ValidTerminal(i)
    BY <1>1, <1>2, TraceValidates
  <2> QED BY <1>1, <2>2, <2>3, RecordsValidate DEF ValidProgress
<1>3. CASE ~flying
  <2>1. /\ corrections = 0
        /\ progress = [kind |-> "Terminal", piece |-> NoStep, entry |-> NoStep, stop |-> stop,
                       corrections |-> 0, step |-> NoStep]
        /\ entries = <<progress>>
    BY <1>3 DEF TraceTold, TraceEnded, RecordInv, StopFounded
  <2>2. Len(entries) = 1 /\ DOMAIN entries = {1} /\ entries[1] = progress
    BY <2>1
  <2>3. ValidTerminal(1)
    BY <1>3, <2>1, <2>2 DEF ValidTerminal
  <2> QED BY <1>3, <2>1, <2>2, <2>3 DEF ValidProgress
<1> QED BY <1>2, <1>3

\* And the flight that is recorded is one that its replay supports.
LEMMA ResultIsSupported ==
  ASSUME IInv, RecordInv, finalized, stop # "ImplementationError"
  PROVE  IF flying THEN ValidSupportedResult /\ Provable ELSE stop \in PreflightStops /\ ~replayed
<1>1. CASE ~flying
  BY <1>1 DEF RecordInv, StopFounded
<1>2. CASE flying
  <2>1. integrity /\ Provable
    BY <1>2 DEF IInv, VerdictFounded, SessionTypes, RecordInv, StopFounded
  <2>2. Corrections = CorrectionsIn(segments)
    BY DEF Corrections, CorrectionsIn
  <2>3. Cardinality(Corrections) = corrections
    BY <2>1, <2>2 DEF RecordInv, CorrectionsOnLedger
  <2>4. Cardinality({i \in 1..Len(cycles) : cycles[i].decision = "LocalCleared"}) = corrections
    <3>1. Len(cycles) \in Nat /\ corrections \in Nat /\ Counted(cycles, corrections)
      BY DEF IInv, SessionTypes, CyclesChain
    <3>2. {i \in 1..Len(cycles) : cycles[i].decision = "LocalCleared"} = 1..corrections
      BY <3>1 DEF Counted
    <3>3. Cardinality(1..corrections) = corrections
      BY <3>1, FS_Interval
    <3> QED BY <3>2, <3>3
  <2>5. stop = "Landed" => live.craft = "Landed" /\ integrity /\ replayed
    BY <2>1 DEF IInv, VerdictFounded
  <2> QED BY <1>2, <2>1, <2>3, <2>4, <2>5 DEF ValidSupportedResult, RecordInv, StopFounded
<1> QED BY <1>1, <1>2

----------------------------------------------------------------------------
(* The files, in the order they are written.                                *)

\* A sequence joined to another, told by its length and its places.
LEMMA Joined ==
  ASSUME NEW a \in Seq(Files), NEW b \in Seq(Files), NEW t \in Seq(Files),
         Len(t) = Len(a) + Len(b),
         \A i \in 1..Len(a) : t[i] = a[i], \A i \in 1..Len(b) : t[Len(a) + i] = b[i]
  PROVE  a \o b = t
<1>1. /\ a \o b \in Seq(Files) /\ Len(a \o b) = Len(a) + Len(b)
      /\ \A i \in 1..(Len(a) + Len(b)) :
           (a \o b)[i] = IF i <= Len(a) THEN a[i] ELSE b[i - Len(a)]
  BY ConcatProperties
<1>2. Len(a) \in Nat /\ Len(b) \in Nat
  OBVIOUS
<1>3. ASSUME NEW i \in 1..Len(t) PROVE (a \o b)[i] = t[i]
  <2>1. CASE i <= Len(a)
    BY <1>1, <1>2, <2>1
  <2>2. CASE ~(i <= Len(a))
    <3>1. i - Len(a) \in 1..Len(b) /\ Len(a) + (i - Len(a)) = i
      BY <1>2, <2>2
    <3>2. t[Len(a) + (i - Len(a))] = b[i - Len(a)]
      BY <3>1
    <3> QED BY <1>1, <1>2, <2>2, <3>1, <3>2
  <2> QED BY <2>1, <2>2
<1> QED BY <1>1, <1>3, SeqEqual

\* The two orders, spelled out.
LEMMA OrderSpelled ==
  /\ <<"scenario.json", "flight.json">> \o <<"report.html">>
       \o <<"summary.json", "progress.json", "bundle.json">>
     = <<"scenario.json", "flight.json", "report.html", "summary.json", "progress.json",
         "bundle.json">>
  /\ <<"scenario.json", "flight.json">> \o << >>
       \o <<"summary.json", "progress.json", "bundle.json">>
     = <<"scenario.json", "flight.json", "summary.json", "progress.json", "bundle.json">>
<1> DEFINE a == <<"scenario.json", "flight.json">>
           b == <<"summary.json", "progress.json", "bundle.json">>
           r == <<"report.html">>
           ar == <<"scenario.json", "flight.json", "report.html">>
           arb == <<"scenario.json", "flight.json", "report.html", "summary.json",
                    "progress.json", "bundle.json">>
           ab == <<"scenario.json", "flight.json", "summary.json", "progress.json",
                   "bundle.json">>
<1>1. /\ a \in Seq(Files) /\ b \in Seq(Files) /\ r \in Seq(Files) /\ ar \in Seq(Files)
      /\ arb \in Seq(Files) /\ ab \in Seq(Files)
  BY DEF Files, RequiredArtifacts
<1>2. Len(a) = 2 /\ Len(b) = 3 /\ Len(r) = 1 /\ Len(ar) = 3 /\ Len(arb) = 6 /\ Len(ab) = 5
  OBVIOUS
<1>3. /\ \A i \in 1..2 : ar[i] = a[i] /\ ab[i] = a[i]
      /\ \A i \in 1..1 : ar[2 + i] = r[i]
      /\ \A i \in 1..3 : arb[i] = ar[i] /\ arb[3 + i] = b[i] /\ ab[2 + i] = b[i]
  OBVIOUS
<1> HIDE DEF a, b, r, ar, arb, ab
<1>4. Len(ar) = Len(a) + Len(r) /\ Len(arb) = Len(ar) + Len(b) /\ Len(ab) = Len(a) + Len(b)
  BY <1>2
<1>5. a \o r = ar
  <2>1. (\A i \in 1..Len(a) : ar[i] = a[i]) /\ (\A i \in 1..Len(r) : ar[Len(a) + i] = r[i])
    BY <1>2, <1>3
  <2> QED BY <1>1, <1>4, <2>1, Joined
<1>6. ar \o b = arb
  <2>1. (\A i \in 1..Len(ar) : arb[i] = ar[i]) /\ (\A i \in 1..Len(b) : arb[Len(ar) + i] = b[i])
    BY <1>2, <1>3
  <2> QED BY <1>1, <1>4, <2>1, Joined
<1>7. a \o b = ab
  <2>1. (\A i \in 1..Len(a) : ab[i] = a[i]) /\ (\A i \in 1..Len(b) : ab[Len(a) + i] = b[i])
    BY <1>2, <1>3
  <2> QED BY <1>1, <1>4, <2>1, Joined
<1>8. a \o << >> = a
  BY <1>1, ConcatEmptySeq
<1>9. a \o r \o b = arb /\ a \o << >> \o b = ab
  BY <1>5, <1>6, <1>7, <1>8
<1> QED BY <1>9 DEF a, b, r, arb, ab

\* Every expected file once, and the receipt after all of them.
LEMMA OrderOfWriting ==
  /\ Len(WritingOrder) \in {5, 6} /\ DOMAIN WritingOrder = 1..Len(WritingOrder)
  /\ WritingOrder[Len(WritingOrder)] = "bundle.json"
  /\ \A i \in 1..Len(WritingOrder) : WritingOrder[i] \in Files
  /\ \A i, j \in 1..Len(WritingOrder) : WritingOrder[i] = WritingOrder[j] => i = j
  /\ \A f \in Files \ {"bundle.json"} :
       f \in ExpectedArtifacts <=> \E i \in 1..(Len(WritingOrder) - 1) : WritingOrder[i] = f
<1>1. CASE ReportEligible
  <2>1. WritingOrder = <<"scenario.json", "flight.json", "report.html", "summary.json",
                         "progress.json", "bundle.json">>
    BY <1>1, OrderSpelled DEF WritingOrder
  <2>2. ExpectedArtifacts = {"scenario.json", "flight.json", "summary.json", "progress.json",
                             "report.html"}
    BY <1>1 DEF ExpectedArtifacts, RequiredArtifacts
  <2> QED BY <2>1, <2>2 DEF Files, RequiredArtifacts
<1>2. CASE ~ReportEligible
  <2>1. WritingOrder = <<"scenario.json", "flight.json", "summary.json", "progress.json",
                         "bundle.json">>
    BY <1>2, OrderSpelled DEF WritingOrder
  <2>2. ExpectedArtifacts = {"scenario.json", "flight.json", "summary.json", "progress.json"}
    BY <1>2 DEF ExpectedArtifacts, RequiredArtifacts
  <2> QED BY <2>1, <2>2 DEF Files, RequiredArtifacts
<1> QED BY <1>1, <1>2

\* After the first n files the next one written is the one that follows them.
LEMMA NextFollows ==
  ASSUME NEW n \in 0..(Len(WritingOrder) - 1), WrittenUpTo(n)
  PROVE  NextFile = WritingOrder[n + 1] /\ disk[NextFile] = "absent"
<1> DEFINE absent == {i \in DOMAIN WritingOrder : disk[WritingOrder[i]] = "absent"}
<1>1. /\ Len(WritingOrder) \in Nat /\ DOMAIN WritingOrder = 1..Len(WritingOrder)
      /\ \A i \in 1..Len(WritingOrder) : WritingOrder[i] \in Files
      /\ \A i, j \in 1..Len(WritingOrder) : WritingOrder[i] = WritingOrder[j] => i = j
  BY OrderOfWriting
<1> HIDE DEF WritingOrder
<1>2. \A i \in 1..Len(WritingOrder) : disk[WritingOrder[i]] = "absent" <=> i > n
  <2> SUFFICES ASSUME NEW i \in 1..Len(WritingOrder)
               PROVE  disk[WritingOrder[i]] = "absent" <=> i > n
    OBVIOUS
  <2>1. (\E j \in 1..n : WritingOrder[j] = WritingOrder[i]) <=> i <= n
    BY <1>1
  <2> QED BY <1>1, <2>1 DEF WrittenUpTo
<1>3. absent = (n + 1)..Len(WritingOrder)
  BY <1>1, <1>2
<1>4. (CHOOSE i \in absent : \A j \in absent : i <= j) = n + 1
  BY <1>1, <1>3
<1>5. NextFile = WritingOrder[n + 1]
  BY <1>4 DEF NextFile
<1> QED BY <1>1, <1>2, <1>5

\* What is read of the flight and its trace does not change while files are written.
LEMMA FlightStandsStill ==
  ASSUME UNCHANGED <<vars, entries>>
  PROVE  /\ ValidProgress' <=> ValidProgress
         /\ WritingOrder' = WritingOrder /\ ExpectedArtifacts' = ExpectedArtifacts
         /\ finalized' = finalized
<1>1. UNCHANGED <<flying, live, cycles, segments, corrections, stop, integrity, replayed,
                  finalized, entries>>
  BY DEF vars, given, records, verdict
<1>2. ReportEligible' <=> ReportEligible
  BY <1>1 DEF ReportEligible
<1>3. WritingOrder' = WritingOrder /\ ExpectedArtifacts' = ExpectedArtifacts
  BY <1>2 DEF WritingOrder, ExpectedArtifacts
<1>4. Corrections' = Corrections
  BY <1>1 DEF Corrections
<1>5. \A i : Corrected(i)' = Corrected(i)
  BY <1>1, <1>4 DEF Corrected
<1>6. \A i : (ValidHandoff(i)' <=> ValidHandoff(i)) /\ (ValidTerminal(i)' <=> ValidTerminal(i))
  BY <1>1, <1>4, <1>5 DEF ValidHandoff, ValidTerminal
<1>7. TraceEnded' <=> TraceEnded
  BY <1>1 DEF TraceEnded
<1>8. ValidRecords(stop, integrity)' <=> ValidRecords(stop, integrity)
  BY <1>1 DEF ValidRecords, ValidExit
<1> QED BY <1>1, <1>3, <1>6, <1>7, <1>8 DEF ValidProgress

\* Whatever is written, and wherever the process dies, only a sealed bundle has a receipt.
LEMMA StepKeepsDisk == Concluded /\ DiskInv /\ [BundleNext]_bundleVars => DiskInv'
<1> SUFFICES ASSUME Concluded, DiskInv, [BundleNext]_bundleVars PROVE DiskInv'
  OBVIOUS
<1>0. /\ disk \in [Files -> {"absent", "torn", "whole"}] /\ "bundle.json" \in Files
      /\ Len(WritingOrder) \in Nat /\ Len(WritingOrder) >= 1
  BY OrderOfWriting DEF DiskInv, Files
<1>1. CASE Drive
  BY <1>1 DEF Drive, DiskInv, Files
<1>2. CASE Conclude
  <2>1. disk' = disk /\ recorder' = "writing" /\ \A f \in Files : disk[f] = "absent"
    BY <1>2 DEF Conclude, DiskInv
  <2>2. WrittenUpTo(0)'
    BY <2>1 DEF WrittenUpTo
  <2>3. 0 \in 0..(Len(WritingOrder') - 1)
    BY OrderSpelled DEF WritingOrder
  <2> QED BY <1>0, <2>1, <2>2, <2>3 DEF DiskInv
<1>3. CASE WriteNext
  <2>1. recorder = "writing" /\ UNCHANGED <<vars, entries>> /\ finalized
    BY <1>3 DEF WriteNext, Concluded
  <2>2. PICK n \in 0..(Len(WritingOrder) - 1) : WrittenUpTo(n)
    BY <2>1 DEF DiskInv
  <2>3. NextFile = WritingOrder[n + 1] /\ disk[NextFile] = "absent"
    BY <2>2, NextFollows
  <2>4. /\ n + 1 \in 1..Len(WritingOrder) /\ NextFile \in Files
        /\ NextFile = "bundle.json" <=> n + 1 = Len(WritingOrder)
    <3>1. n + 1 \in 1..Len(WritingOrder) /\ Len(WritingOrder) \in 1..Len(WritingOrder)
      BY <1>0
    <3> HIDE DEF WritingOrder
    <3> QED BY <2>3, <3>1, OrderOfWriting
  <2>5. disk["bundle.json"] # "whole"
    BY <2>1 DEF DiskInv
  <2>6. CASE NextFile = "bundle.json" /\ ~ValidProgress
    <3>1. recorder' = "refused" /\ disk' = disk
      BY <1>3, <2>6 DEF WriteNext
    <3> QED BY <1>0, <2>1, <2>5, <2>6, <3>1, FlightStandsStill DEF DiskInv
  <2>7. CASE ~(NextFile = "bundle.json" /\ ~ValidProgress)
    <3>1. /\ disk' = [disk EXCEPT ![NextFile] = "whole"]
          /\ recorder' = IF NextFile = "bundle.json" THEN "done" ELSE "writing"
      BY <1>3, <2>7 DEF WriteNext
    <3>2. disk' \in [Files -> {"absent", "torn", "whole"}]
      BY <1>0, <3>1
    <3>3. \A f \in Files : disk'[f] = IF \E i \in 1..(n + 1) : WritingOrder[i] = f
                                      THEN "whole" ELSE "absent"
      <4> SUFFICES ASSUME NEW f \in Files
                   PROVE  disk'[f] = IF \E i \in 1..(n + 1) : WritingOrder[i] = f
                                     THEN "whole" ELSE "absent"
        OBVIOUS
      <4>1. CASE f = NextFile
        BY <1>0, <2>3, <2>4, <3>1, <4>1
      <4>2. CASE f # NextFile
        <5>1. (\E i \in 1..(n + 1) : WritingOrder[i] = f) <=> \E i \in 1..n : WritingOrder[i] = f
          BY <2>3, <4>2
        <5> QED BY <1>0, <2>2, <3>1, <4>2, <5>1 DEF WrittenUpTo
      <4> QED BY <4>1, <4>2
    <3>4. CASE NextFile = "bundle.json"
      <4>1. recorder' = "done" /\ disk'["bundle.json"] = "whole" /\ ValidProgress
        BY <1>0, <2>7, <3>1, <3>4
      <4>2. ASSUME NEW f \in Files \ {"bundle.json"}
            PROVE  disk'[f] = IF f \in ExpectedArtifacts THEN "whole" ELSE "absent"
        <5>1. (\E i \in 1..(n + 1) : WritingOrder[i] = f) <=> f \in ExpectedArtifacts
          BY <1>0, <2>4, <3>4, OrderOfWriting
        <5> QED BY <3>3, <5>1
      <4>3. Sealed'
        BY <2>1, <4>1, <4>2, FlightStandsStill DEF Sealed
      <4> QED BY <3>2, <4>1, <4>3 DEF DiskInv
    <3>5. CASE NextFile # "bundle.json"
      <4>1. recorder' = "writing" /\ disk'["bundle.json"] # "whole"
        BY <1>0, <2>5, <3>1, <3>5
      <4>2. n + 1 \in 0..(Len(WritingOrder) - 1)
        BY <1>0, <2>4, <3>5
      <4>3. WrittenUpTo(n + 1)'
        BY <2>1, <3>3, FlightStandsStill DEF WrittenUpTo
      <4> QED BY <2>1, <3>2, <4>1, <4>2, <4>3, FlightStandsStill DEF DiskInv
    <3> QED BY <3>4, <3>5
  <2> QED BY <2>6, <2>7
<1>4. CASE Die
  <2>1. recorder \in {"driving", "writing"} /\ recorder' = "dead" /\ disk["bundle.json"] # "whole"
    BY <1>4 DEF Die, DiskInv
  <2>2. disk' = disk \/ disk' = [disk EXCEPT ![NextFile] = "torn"]
    BY <1>4 DEF Die
  <2>3. disk' \in [Files -> {"absent", "torn", "whole"}] /\ disk'["bundle.json"] # "whole"
    BY <1>0, <2>1, <2>2
  <2> QED BY <2>1, <2>3 DEF DiskInv
<1>5. CASE UNCHANGED bundleVars
  <2>1. UNCHANGED <<vars, entries, disk, recorder>>
    BY <1>5 DEF bundleVars
  <2>2. Sealed' <=> Sealed
    BY <2>1, FlightStandsStill DEF Sealed
  <2>3. \A n : WrittenUpTo(n)' <=> WrittenUpTo(n)
    BY <2>1, FlightStandsStill DEF WrittenUpTo
  <2> QED BY <2>1, <2>2, <2>3, FlightStandsStill DEF DiskInv
<1> QED BY <1>1, <1>2, <1>3, <1>4, <1>5 DEF BundleNext, Rest

----------------------------------------------------------------------------
(* The theorems.                                                            *)

\* Invariance: the session's invariant, its records, its trace and its directory, together, from
\* the reservation of the directory to the receipt or to the death of the process.
THEOREM BundleInvariance == BundleSpec => []BundleInv
<1>1. BundleInit => BundleInv
  <2> SUFFICES ASSUME BundleInit PROVE BundleInv
    OBVIOUS
  <2>1. IInv /\ RecordInv
    BY InitSatisfiesInv, InitSatisfiesRecords DEF BundleInit
  <2>2. TraceTold
    <3>1. entries = <<>> /\ corrections = 0 /\ entries \in Seq(Entries) /\ Len(entries) = 0
      BY DEF BundleInit, Init
    <3> QED BY <3>1 DEF BundleInit, Init, TraceTold, PreflightStops
  <2>3. Concluded /\ DiskInv
    BY DEF BundleInit, Init, Concluded, DiskInv, Files
  <2> QED BY <2>1, <2>2, <2>3 DEF BundleInv
<1>2. BundleInv /\ [BundleNext]_bundleVars => BundleInv'
  <2> SUFFICES ASSUME BundleInv, [BundleNext]_bundleVars PROVE BundleInv'
    OBVIOUS
  <2>1. [Next]_vars
    BY RecorderDrivesSession DEF bundleVars
  <2>2. IInv' /\ RecordInv'
    BY <2>1, StepKeepsInv, StepKeepsRecords DEF BundleInv
  <2> QED BY <2>2, StepKeepsTrace, StepKeepsDisk DEF BundleInv
<1>3. QED
  BY <1>1, <1>2, PTL DEF BundleSpec

\* The receipt seals the bundle (pd-eval-cli, waypoint_v2_bundle.rs): wherever the process dies, a
\* whole receipt stands beside exactly the whole files it names, of a finished flight whose trace
\* validates.
THEOREM ReceiptSeals == BundleSpec => []ReceiptSealsTheBundle
<1>1. BundleInv => ReceiptSealsTheBundle
  BY DEF BundleInv, DiskInv, Sealed, ReceiptSealsTheBundle
<1> QED BY <1>1, BundleInvariance, PTL

\* A recorded flight replays (validate_progress, validate_records and
\* validate_supported_saved_result against advance_piece and finish): for every policy, deadline and
\* answer of the searches the accounts that two crates keep of a flight agree, unless an error
\* struck the piece a checked landing was queued for.
THEOREM RecordedFlightsReplay == BundleSpec => []RecordedFlightReplays
<1>1. BundleInv => RecordedFlightReplays
  <2> SUFFICES ASSUME BundleInv PROVE RecordedFlightReplays
    OBVIOUS
  <2>1. ASSUME recorder = "refused" PROVE StruckQueuedLanding
    BY <2>1, ProgressValidates DEF BundleInv, Concluded, DiskInv
  <2>2. ASSUME recorder = "done", stop # "ImplementationError" PROVE ReplayAccepts
    <3>1. disk["bundle.json"] = "whole" /\ Sealed
      BY <2>2 DEF BundleInv, DiskInv
    <3>2. ExpectedArtifacts \subseteq Files \ {"bundle.json"}
      BY DEF ExpectedArtifacts, RequiredArtifacts, Files
    <3>3. \A f \in ExpectedArtifacts : disk[f] = "whole"
      BY <3>1, <3>2 DEF Sealed
    <3>4. IF flying THEN ValidSupportedResult /\ Provable ELSE stop \in PreflightStops /\ ~replayed
      BY <2>2, <3>1, ResultIsSupported DEF BundleInv, Sealed
    <3> QED BY <3>1, <3>3, <3>4 DEF ReplayAccepts, Sealed
  <2> QED BY <2>1, <2>2 DEF RecordedFlightReplays
<1> QED BY <1>1, BundleInvariance, PTL
=============================================================================

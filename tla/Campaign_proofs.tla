--------------------------- MODULE Campaign_proofs ---------------------------
(***************************************************************************)
(* Theorems about collection campaigns, for every number of runs, outputs   *)
(* and missions, every schedule and any drift of the inputs: what is on disk*)
(* after any crash is true, exposures are on record, the ledger is kept.    *)
(***************************************************************************)
EXTENDS Campaign, FiniteSetTheorems, SequenceTheorems, TLAPS

----------------------------------------------------------------------------
(* What the state is made of.                                               *)

Versions == {0, 1}
Evidences == [source : Versions, mission : Versions]
Snapshots == [inputs : [Inputs -> Versions], receipts : SUBSET Outputs]
Takeoffs == [before : Evidences]
Episodes == [before : Evidences, after : Evidences, verified : BOOLEAN]
Disposals == [kind : Dispositions, verified : BOOLEAN]
AttemptRecords == [mission : Missions, kind : Dispositions, verified : BOOLEAN]
RunStates ==
  [at : Places, output : Outputs \cup {NoRun}, bound : SUBSET Outputs,
   before : Snapshots \cup {Nothing}, after : Snapshots \cup {Nothing},
   episode : Takeoffs \cup Episodes \cup {Nothing},
   disposition : Disposals \cup {Nothing}, attempts : Seq(AttemptRecords)]

\* Everything that may be written under, and for, an output.
PathsOf(d) ==
  {Request(d), Usage(d), Summary(d)}
    \cup UNION {{Evaluation(d, n), Seal(d, n), Attempt(d, n)} : n \in Positions}
IsFile(f) == f \in [by : Runs, whole : BOOLEAN, data : {f.data}]

TypeInv ==
  /\ inputs \in [Inputs -> Versions]
  /\ owner \in [Outputs -> Runs \cup {NoRun}]
  /\ runs \in [Runs -> RunStates]
  /\ files = [p \in DOMAIN files |-> files[p]]
  /\ \A p \in DOMAIN files : IsFile(files[p]) /\ \E d \in Outputs : p \in PathsOf(d)

----------------------------------------------------------------------------
(* The inductive invariant: who owns what, and for each run and each output *)
(* what memory and disk have in common.                                     *)

Off == {"idle", "stopped"}
Attempting == {"load", "execute", "flight", "save", "record"}
Concluding == {"after", "summary"}
Under(r) == runs[r].at \notin Off \cup {"done"}

\* A run at work owns its output, and all that is in an output is its owner's.
OwnedInv ==
  /\ \A r \in Runs : runs[r].at \notin Off =>
       runs[r].output \in Outputs /\ owner[runs[r].output] = r
  /\ \A d \in Outputs : owner[d] # NoRun =>
       /\ runs[owner[d]].at # "idle"
       /\ runs[owner[d]].at # "stopped" => runs[owner[d]].output = d
  /\ \A d \in Outputs : \A p \in PathsOf(d) :
       Exists(p) /\ p # Usage(d) => owner[d] # NoRun /\ files[p].by = owner[d]

\* The receipt is created, then complete before any mission is read.
Receipted(r) ==
  LET p == Usage(runs[r].output)
  IN /\ runs[r].at = "receipt" => Exists(p) /\ files[p].by = r /\ ~files[p].whole
     /\ runs[r].at \in {"check", "list", "before"} \cup Reading => Whole(p) /\ files[p].by = r

\* What a run has in memory is what its place says.
Shaped(r) ==
  /\ runs[r].at \in Attempting \cup Concluding => runs[r].before \in Snapshots
  /\ runs[r].at = "flight" => runs[r].episode \in Takeoffs
  /\ runs[r].at = "save" => runs[r].episode \in Episodes
  /\ runs[r].at = "record" => runs[r].disposition \in Disposals
  /\ runs[r].at = "summary" => runs[r].after \in Snapshots
  /\ runs[r].at \notin Attempting \cup Concluding => runs[r].attempts = <<>>

\* The attempts in memory are the records on disk, one by one; nothing is there of later ones.
Verdict(d, n, verified) == Loadable(d, n) /\ files[Evaluation(d, n)].data.verified = verified
Recorded(r) ==
  LET d == runs[r].output
      done == runs[r].attempts
  IN /\ Len(done) <= Len(Schedule)
     /\ runs[r].at \in Attempting => Len(done) < Len(Schedule)
     /\ runs[r].at \in Concluding => Len(done) = Len(Schedule)
     /\ \A n \in 1..Len(done) :
          /\ done[n].mission = Schedule[n]
          /\ Whole(Attempt(d, n)) /\ files[Attempt(d, n)].data = done[n]
     /\ \A n \in Positions : n > Len(done) => ~Exists(Attempt(d, n))
     /\ runs[r].at = "record" /\ runs[r].disposition.kind = "Executed"
          => Verdict(d, Len(done) + 1, runs[r].disposition.verified)

\* Inputs only ever move away from what was declared, so what was seen of them is ordered: at the
\* start, before the episode, after it, and last (after the campaign, or now).
Between(m, from, b, a, to) ==
  /\ b \in Evidences /\ a \in Evidences
  /\ from["source"] <= b.source /\ b.source <= a.source /\ a.source <= to["source"]
  /\ from[m] = 0 /\ b.mission <= a.mission /\ a.mission <= to[m]
Last(r) == IF runs[r].at = "summary" THEN runs[r].after.inputs ELSE inputs
SeenInOrder(r, n) ==
  LET e == files[Evaluation(runs[r].output, n)].data
  IN  /\ Whole(Evaluation(runs[r].output, n))
      /\ Between(Schedule[n], runs[r].before.inputs, e.before, e.after, Last(r))
Scoped(r) ==
  LET me == runs[r]
      m == Mission(r)
  IN /\ \A i \in Inputs : me.before.inputs[i] <= Last(r)[i]
     /\ me.at \in {"execute", "flight", "save"} => me.before.inputs[m] = 0
     /\ me.at = "flight" =>
          Between(m, me.before.inputs, me.episode.before, me.episode.before, inputs)
     /\ me.at = "save" =>
          Between(m, me.before.inputs, me.episode.before, me.episode.after, inputs)
     /\ me.at = "record" /\ me.disposition.kind = "Executed" =>
          SeenInOrder(r, Len(me.attempts) + 1)
     /\ \A n \in 1..Len(me.attempts) : me.attempts[n].kind = "Executed" => SeenInOrder(r, n)

RunInv(r) ==
  /\ Receipted(r) /\ Shaped(r)
  /\ Under(r) => Recorded(r)
  /\ runs[r].at \in Attempting \cup Concluding => Scoped(r)

\* The three promises, of one output.
CaptureKept(d) ==
  \A n \in Positions :
    Whole(Attempt(d, n)) /\ files[Attempt(d, n)].data.kind = "Executed"
      => Verdict(d, n, files[Attempt(d, n)].data.verified)
ToldInFull(d) ==
  /\ Len(files[Summary(d)].data.attempts) = Len(Schedule)
  /\ \A n \in Positions :
       /\ files[Summary(d)].data.attempts[n].mission = Schedule[n]
       /\ Whole(Attempt(d, n))
       /\ files[Attempt(d, n)].data = files[Summary(d)].data.attempts[n]
OneScope(d) ==
  LET summary == files[Summary(d)].data
  IN  summary.integrity =>
        \A n \in Positions : summary.attempts[n].kind = "Executed" =>
          LET e == files[Evaluation(d, n)].data
          IN /\ e.before = e.after
             /\ e.after = [source |-> summary.before.inputs["source"], mission |-> 0]
OutputInv(d) ==
  /\ CaptureKept(d)
  /\ Whole(Summary(d)) =>
       owner[d] # NoRun /\ runs[owner[d]].at = "done" /\ ToldInFull(d) /\ OneScope(d)

CampaignInv ==
  /\ TypeInv /\ OwnedInv
  /\ \A r \in Runs : RunInv(r)
  /\ \A d \in Outputs : OutputInv(d)

----------------------------------------------------------------------------
(* Paths.                                                                   *)

\* The paths of different outputs, kinds and attempts are different.
LEMMA PathsApart ==
  ASSUME NEW d, NEW e, NEW n, NEW m
  PROVE  /\ Request(d) \notin {Usage(e), Summary(e), Evaluation(e, m), Seal(e, m), Attempt(e, m)}
         /\ Usage(d) \notin {Request(e), Summary(e), Evaluation(e, m), Seal(e, m), Attempt(e, m)}
         /\ Summary(d) \notin {Request(e), Usage(e), Evaluation(e, m), Seal(e, m), Attempt(e, m)}
         /\ Evaluation(d, n) \notin {Seal(e, m), Attempt(e, m)}
         /\ Seal(d, n) \notin {Evaluation(e, m), Attempt(e, m)}
         /\ Attempt(d, n) \notin {Evaluation(e, m), Seal(e, m)}
         /\ Attempt(d, n) = Attempt(e, m) => d = e /\ n = m
         /\ Evaluation(d, n) = Evaluation(e, m) => d = e /\ n = m
         /\ Seal(d, n) = Seal(e, m) => d = e /\ n = m
         /\ Usage(d) = Usage(e) => d = e
         /\ Summary(d) = Summary(e) => d = e
BY DEF Request, Usage, Summary, Evaluation, Seal, Attempt

\* A path belongs to the one output it names.
LEMMA PathNamesOutput ==
  ASSUME NEW d, NEW p \in PathsOf(d)
  PROVE  /\ p[2] = d
         /\ \A e : p \in PathsOf(e) => e = d
BY DEF PathsOf, Request, Usage, Summary, Evaluation, Seal, Attempt

\* What belongs to an output.
LEMMA PathsWithin ==
  ASSUME NEW d
  PROVE  /\ {Request(d), Usage(d), Summary(d)} \subseteq PathsOf(d)
         /\ \A n \in Positions : {Evaluation(d, n), Seal(d, n), Attempt(d, n)} \subseteq PathsOf(d)
BY DEF PathsOf

\* The schedule has positions, and a mission at each.
LEMMA ScheduleHasMissions ==
  /\ Len(Schedule) \in Nat \ {0} /\ Positions = 1..Len(Schedule)
  /\ \A n \in Positions : Schedule[n] \in Missions
  /\ Missions \subseteq Inputs /\ "source" \in Inputs /\ "manifest" \in Inputs
  /\ NoRun \notin Runs
<1>1. Schedule \in Seq(Missions) /\ Schedule # <<>>
  BY CampaignAssumption
<1>2. Len(Schedule) \in Nat /\ Len(Schedule) # 0
  BY <1>1, EmptySeq, LenProperties
<1> QED BY <1>1, <1>2, CampaignAssumption, ElementOfSeq DEF Positions, Inputs, NoRun

----------------------------------------------------------------------------
(* A step of a run: it moves on, and touches only what is in its output.    *)

Kept(p) ==
  /\ p \in DOMAIN files' <=> p \in DOMAIN files
  /\ p \in DOMAIN files => files'[p] = files[p]
AttemptsKept(d) ==
  \A n \in Positions : Kept(Attempt(d, n)) /\ Kept(Evaluation(d, n)) /\ Kept(Seal(d, n))
FilesMove(r, d) ==
  /\ files' = [p \in DOMAIN files' |-> files'[p]]
  /\ DOMAIN files \subseteq DOMAIN files'
  /\ \A p \in DOMAIN files' :
       \/ p \in DOMAIN files /\ files'[p] = files[p]
       \/ p \in PathsOf(d) /\ IsFile(files'[p]) /\ files'[p].by = r
Advances(r, s) ==
  /\ runs' = [runs EXCEPT ![r] = s] /\ s \in RunStates
  /\ runs[r].at \notin Off
  /\ s.at # "idle" /\ (s.at # "stopped" => s.output = runs[r].output)
  /\ FilesMove(r, runs[r].output)
  /\ UNCHANGED <<inputs, owner>>

\* Types and ownership survive any such step.
LEMMA AdvanceKeepsOwners ==
  ASSUME TypeInv, OwnedInv, NEW r \in Runs, NEW s, Advances(r, s)
  PROVE  TypeInv' /\ OwnedInv'
<1> DEFINE d == runs[r].output
<1>1. d \in Outputs /\ owner[d] = r /\ r # NoRun
  BY ScheduleHasMissions DEF Advances, OwnedInv
<1>2. /\ runs' \in [Runs -> RunStates] /\ runs'[r] = s
      /\ \A q \in Runs \ {r} : runs'[q] = runs[q]
  BY DEF Advances, TypeInv
<1>3. TypeInv'
  <2>1. \A p \in DOMAIN files' : IsFile(files'[p]) /\ \E e \in Outputs : p \in PathsOf(e)
    BY <1>1 DEF Advances, FilesMove, TypeInv
  <2>2. inputs' \in [Inputs -> Versions] /\ owner' \in [Outputs -> Runs \cup {NoRun}]
    BY DEF Advances, TypeInv
  <2>3. files' = [p \in DOMAIN files' |-> files'[p]]
    BY DEF Advances, FilesMove
  <2> QED BY <1>2, <2>1, <2>2, <2>3 DEF TypeInv, IsFile
<1>4. ASSUME NEW q \in Runs, runs'[q].at \notin Off
      PROVE  runs'[q].output \in Outputs /\ owner'[runs'[q].output] = q
  <2>1. CASE q = r
    BY <1>1, <1>2, <1>4, <2>1 DEF Advances, Off
  <2>2. CASE q # r
    BY <1>2, <1>4, <2>2 DEF Advances, OwnedInv
  <2> QED BY <2>1, <2>2
<1>5. ASSUME NEW e \in Outputs, owner'[e] # NoRun
      PROVE  /\ runs'[owner'[e]].at # "idle"
             /\ runs'[owner'[e]].at # "stopped" => runs'[owner'[e]].output = e
  <2>1. owner' = owner /\ owner[e] \in Runs
    BY <1>5 DEF Advances, TypeInv
  <2>2. CASE owner[e] = r
    <3>1. e = d
      BY <1>5, <2>1, <2>2 DEF Advances, OwnedInv, Off
    <3> QED BY <1>2, <2>1, <2>2, <3>1 DEF Advances
  <2>3. CASE owner[e] # r
    BY <1>2, <1>5, <2>1, <2>3 DEF OwnedInv
  <2> QED BY <2>2, <2>3
<1>6. ASSUME NEW e \in Outputs, NEW p \in PathsOf(e), p \in DOMAIN files', p # Usage(e)
      PROVE  owner'[e] # NoRun /\ files'[p].by = owner'[e]
  <2>1. owner' = owner
    BY DEF Advances
  <2>2. CASE p \in DOMAIN files /\ files'[p] = files[p]
    BY <1>6, <2>1, <2>2 DEF OwnedInv, Exists
  <2>3. CASE p \in PathsOf(d) /\ files'[p].by = r
    BY <1>1, <1>6, <2>1, <2>3, PathNamesOutput
  <2> QED BY <1>6, <2>2, <2>3 DEF Advances, FilesMove
<1> QED BY <1>3, <1>4, <1>5, <1>6 DEF OwnedInv, Exists

\* Every file of another output is as it was.
LEMMA AdvanceKeepsFiles ==
  ASSUME TypeInv, OwnedInv, NEW r \in Runs, NEW s, Advances(r, s),
         NEW e \in Outputs, e # runs[r].output, NEW p \in PathsOf(e)
  PROVE  Kept(p)
<1>1. p \notin PathsOf(runs[r].output)
  BY PathNamesOutput
<1> QED BY <1>1 DEF Advances, FilesMove, Kept

\* Inputs move on, never back.
InputsMove == inputs' \in [Inputs -> Versions] /\ \A i \in Inputs : inputs[i] <= inputs'[i]

\* What was seen in order is in order when the last look is later.
LEMMA LaterLook ==
  ASSUME NEW m \in Missions, NEW from \in [Inputs -> Versions], NEW b, NEW a,
         NEW to \in [Inputs -> Versions], NEW later \in [Inputs -> Versions],
         \A i \in Inputs : to[i] <= later[i], Between(m, from, b, a, to)
  PROVE  Between(m, from, b, a, later)
<1>1. m \in Inputs /\ "source" \in Inputs
  BY ScheduleHasMissions
<1>2. /\ to[m] \in Int /\ later[m] \in Int /\ to[m] <= later[m]
      /\ to["source"] \in Int /\ later["source"] \in Int /\ to["source"] <= later["source"]
  BY <1>1 DEF Versions
<1>3. a \in Evidences /\ a.source \in Int /\ a.mission \in Int
  BY DEF Between, Evidences, Versions
<1> QED BY <1>2, <1>3 DEF Between

\* The next attempt of a run that has some left is one of the schedule.
LEMMA NextIsScheduled ==
  ASSUME TypeInv, NEW r \in Runs, Recorded(r), runs[r].at \in Attempting
  PROVE  /\ Number(r) \in Positions /\ Number(r) = Len(runs[r].attempts) + 1
         /\ Mission(r) \in Missions /\ Mission(r) = Schedule[Number(r)]
<1>1. runs[r].attempts \in Seq(AttemptRecords)
  BY DEF TypeInv, RunStates
<1>2. Len(runs[r].attempts) \in Nat
  BY <1>1, LenProperties
<1> QED BY <1>2, ScheduleHasMissions DEF Number, Mission, Recorded

\* What is true of one run stays true while its files and its memory stay and inputs move on.
LEMMA RunIsKept ==
  ASSUME TypeInv, NEW q \in Runs, RunInv(q), InputsMove, runs'[q] = runs[q],
         runs[q].at \notin Off => \A p \in PathsOf(runs[q].output) : Kept(p)
  PROVE  RunInv(q)'
<1>1. CASE runs[q].at \in Off
  BY <1>1 DEF RunInv, Receipted, Shaped, Off, Reading, Attempting, Concluding, Under
<1>2. CASE runs[q].at \notin Off
  <2> DEFINE d == runs[q].output
             me == runs[q]
  <2>1. \A p \in PathsOf(d) : Kept(p)
    BY <1>2
  <2>2. Kept(Usage(d))
    BY <2>1, PathsWithin
  <2>3. \A n \in Positions : Kept(Attempt(d, n)) /\ Kept(Evaluation(d, n)) /\ Kept(Seal(d, n))
    BY <2>1, PathsWithin
  <2>4. Receipted(q)' /\ Shaped(q)'
    BY <2>2 DEF RunInv, Receipted, Shaped, Kept, Whole, Exists
  <2>5. me.attempts \in Seq(AttemptRecords) /\ Len(me.attempts) \in Nat
    BY LenProperties DEF TypeInv, RunStates
  <2>6. ASSUME Under(q) PROVE Recorded(q)'
    <3>1. Recorded(q) /\ 1..Len(me.attempts) \subseteq Positions
      BY <2>5, <2>6, ScheduleHasMissions DEF RunInv, Recorded
    <3>2. ASSUME NEW n \in 1..Len(me.attempts)
          PROVE  /\ n \in Positions /\ Whole(Attempt(d, n))'
                 /\ files'[Attempt(d, n)].data = me.attempts[n]
      BY <2>3, <3>1 DEF Recorded, Kept, Whole, Exists
    <3>3. ASSUME NEW n \in Positions, n > Len(me.attempts)
          PROVE  Attempt(d, n) \notin DOMAIN files'
      BY <2>3, <3>1, <3>3 DEF Recorded, Kept, Whole, Exists
    <3>4. ASSUME me.at = "record", me.disposition.kind = "Executed"
          PROVE  Verdict(d, Len(me.attempts) + 1, me.disposition.verified)'
      <4>1. Len(me.attempts) + 1 \in Positions
        BY <3>1, <3>4, NextIsScheduled DEF Attempting
      <4> QED BY <2>3, <3>1, <3>4, <4>1 DEF Recorded, Verdict, Loadable, Whole, Exists, Kept
    <3> QED BY <3>1, <3>2, <3>3, <3>4 DEF Recorded, Whole, Exists
  <2>7. ASSUME me.at \in Attempting \cup Concluding PROVE Scoped(q)'
    <3>1. Scoped(q) /\ Recorded(q) /\ me.before \in Snapshots
      BY <2>7 DEF RunInv, Under, Off, Attempting, Concluding, Shaped
    <3>2. /\ Last(q) \in [Inputs -> Versions] /\ Last(q)' \in [Inputs -> Versions]
          /\ \A i \in Inputs : Last(q)[i] <= Last(q)'[i]
      <4>1. CASE me.at = "summary"
        <5>1. me.after.inputs \in [Inputs -> Versions]
          BY <4>1 DEF RunInv, Shaped, Snapshots
        <5> QED BY <4>1, <5>1 DEF Last, Versions
      <4>2. CASE me.at # "summary"
        BY <4>2 DEF Last, InputsMove, TypeInv
      <4> QED BY <4>1, <4>2
    <3>3. ASSUME NEW n \in Positions, SeenInOrder(q, n) PROVE SeenInOrder(q, n)'
      <4>1. Kept(Evaluation(d, n)) /\ Schedule[n] \in Missions
        BY <2>3, ScheduleHasMissions
      <4> DEFINE e == files[Evaluation(d, n)].data
      <4>2. Between(Schedule[n], me.before.inputs, e.before, e.after, Last(q)')
        BY <3>1, <3>2, <3>3, <4>1, LaterLook DEF SeenInOrder, Snapshots
      <4> QED BY <3>3, <4>1, <4>2 DEF SeenInOrder, Kept, Whole, Exists
    <3>4. \A i \in Inputs : me.before.inputs[i] <= Last(q)'[i]
      BY <3>1, <3>2 DEF Scoped, Snapshots, Versions
    <3>5. ASSUME me.at \in {"flight", "save", "record"}
          PROVE  Mission(q) \in Missions /\ Len(me.attempts) + 1 \in Positions
      BY <3>1, <3>5, NextIsScheduled DEF Attempting
    <3>6. inputs \in [Inputs -> Versions]
      BY DEF TypeInv
    <3>7. ASSUME me.at = "flight"
          PROVE  Between(Mission(q), me.before.inputs, me.episode.before, me.episode.before, inputs')
      BY <3>1, <3>5, <3>6, <3>7, LaterLook DEF Scoped, InputsMove, Snapshots
    <3>8. ASSUME me.at = "save"
          PROVE  Between(Mission(q), me.before.inputs, me.episode.before, me.episode.after, inputs')
      BY <3>1, <3>5, <3>6, <3>8, LaterLook DEF Scoped, InputsMove, Snapshots
    <3>9. \A n \in 1..Len(me.attempts) : n \in Positions
      BY <2>5, <3>1, ScheduleHasMissions DEF Recorded
    <3>10. Mission(q)' = Mission(q)
      BY DEF Mission, Number
    <3> QED BY <3>1, <3>3, <3>4, <3>5, <3>7, <3>8, <3>9, <3>10 DEF Scoped
  <2> QED BY <2>4, <2>6, <2>7 DEF RunInv, Under
<1> QED BY <1>1, <1>2

\* What is true of one output stays true while its files and its owner stay.
LEMMA OutputIsKept ==
  ASSUME NEW d \in Outputs, OutputInv(d), owner'[d] = owner[d],
         Whole(Summary(d)) => runs'[owner[d]].at = runs[owner[d]].at,
         Kept(Summary(d)), AttemptsKept(d)
  PROVE  OutputInv(d)'
<1>1. Kept(Summary(d))
  OBVIOUS
<1>2. \A n \in Positions : Kept(Attempt(d, n)) /\ Kept(Evaluation(d, n)) /\ Kept(Seal(d, n))
  BY DEF AttemptsKept
<1>3. CaptureKept(d)'
  BY <1>2 DEF OutputInv, CaptureKept, Verdict, Loadable, Kept, Whole, Exists
<1>4. ASSUME Whole(Summary(d))'
      PROVE  owner'[d] # NoRun /\ runs'[owner'[d]].at = "done" /\ ToldInFull(d)' /\ OneScope(d)'
  <2>1. Whole(Summary(d)) /\ files'[Summary(d)] = files[Summary(d)]
    BY <1>1, <1>4 DEF Kept, Whole, Exists
  <2>2. owner[d] # NoRun /\ runs[owner[d]].at = "done" /\ ToldInFull(d) /\ OneScope(d)
    BY <2>1 DEF OutputInv
  <2>3. ToldInFull(d)'
    BY <1>2, <2>1, <2>2 DEF ToldInFull, Kept, Whole, Exists
  <2>4. ASSUME NEW n \in Positions, files[Summary(d)].data.attempts[n].kind = "Executed"
        PROVE  files'[Evaluation(d, n)] = files[Evaluation(d, n)]
    <3>1. Whole(Attempt(d, n)) /\ files[Attempt(d, n)].data.kind = "Executed"
      BY <2>2, <2>4 DEF ToldInFull
    <3>2. Whole(Evaluation(d, n))
      BY <3>1 DEF OutputInv, CaptureKept, Verdict, Loadable
    <3> QED BY <1>2, <3>2 DEF Kept, Whole, Exists
  <2>5. OneScope(d)'
    BY <2>1, <2>2, <2>4 DEF OneScope
  <2> QED BY <2>1, <2>2, <2>3, <2>5
<1> QED BY <1>3, <1>4 DEF OutputInv

----------------------------------------------------------------------------
(* What is left to show of a step: its own run, its own output.             *)

\* The other runs and outputs keep the invariant by themselves.
LEMMA AdvanceKeepsTheRest ==
  ASSUME CampaignInv, NEW r \in Runs, NEW s, Advances(r, s),
         NEW d \in Outputs, d = runs[r].output, RunInv(r)', OutputInv(d)'
  PROVE  CampaignInv'
<1>1. TypeInv /\ OwnedInv /\ TypeInv' /\ OwnedInv'
  BY AdvanceKeepsOwners DEF CampaignInv
<1>2. InputsMove /\ owner' = owner
  BY <1>1 DEF Advances, InputsMove, TypeInv, Versions
<1>3. r \notin {NoRun} /\ d \in Outputs /\ owner[d] = r
  BY <1>1, ScheduleHasMissions DEF Advances, OwnedInv
<1>4. ASSUME NEW q \in Runs, q # r PROVE RunInv(q)'
  <2>1. runs'[q] = runs[q]
    BY <1>4 DEF Advances
  <2>2. ASSUME runs[q].at \notin Off PROVE \A p \in PathsOf(runs[q].output) : Kept(p)
    <3>1. runs[q].output \in Outputs /\ runs[q].output # d
      BY <1>1, <1>3, <1>4, <2>2 DEF OwnedInv
    <3> QED BY <1>1, <3>1, AdvanceKeepsFiles
  <2> QED BY <1>1, <1>2, <2>1, <2>2, RunIsKept DEF CampaignInv
<1>5. ASSUME NEW e \in Outputs, e # d PROVE OutputInv(e)'
  <2>1. \A p \in PathsOf(e) : Kept(p)
    BY <1>1, <1>5, AdvanceKeepsFiles
  <2>2. Kept(Summary(e)) /\ AttemptsKept(e)
    BY <2>1, PathsWithin DEF AttemptsKept
  <2>3. ASSUME Whole(Summary(e)) PROVE runs'[owner[e]].at = runs[owner[e]].at
    <3>1. owner[e] # NoRun /\ runs[owner[e]].at = "done" /\ OutputInv(e)
      BY <2>3 DEF CampaignInv, OutputInv
    <3>2. owner[e] # r
      BY <1>1, <1>5, <3>1 DEF OwnedInv
    <3> QED BY <1>1, <3>1, <3>2 DEF Advances, TypeInv
  <2>4. OutputInv(e) /\ owner'[e] = owner[e]
    BY <1>2 DEF CampaignInv
  <2>5. Whole(Summary(e)) => runs'[owner[e]].at = runs[owner[e]].at
    BY <2>3
  <2> QED BY <2>2, <2>4, <2>5, OutputIsKept
<1> QED BY <1>1, <1>4, <1>5 DEF CampaignInv

\* A run at work has an output of its own with no complete summary in it.
LEMMA NothingPublished ==
  ASSUME CampaignInv, NEW r \in Runs, Under(r)
  PROVE  /\ runs[r].output \in Outputs /\ owner[runs[r].output] = r
         /\ ~Whole(Summary(runs[r].output))
         /\ Recorded(r) /\ OutputInv(runs[r].output)
         /\ runs[r] \in RunStates /\ runs[r].attempts \in Seq(AttemptRecords)
         /\ Len(runs[r].attempts) \in Nat
<1>1. runs[r].output \in Outputs /\ owner[runs[r].output] = r
  BY DEF CampaignInv, OwnedInv, Under
<1>2. OutputInv(runs[r].output)
  BY <1>1 DEF CampaignInv
<1>3. ~Whole(Summary(runs[r].output))
  BY <1>1, <1>2 DEF OutputInv, Under
<1>4. Recorded(r)
  BY DEF CampaignInv, RunInv
<1>5. runs[r] \in RunStates /\ runs[r].attempts \in Seq(AttemptRecords)
  BY DEF CampaignInv, TypeInv, RunStates
<1> QED BY <1>1, <1>2, <1>3, <1>4, <1>5, LenProperties

\* A run that goes on without a new summary, capture or record leaves the promises of its output.
LEMMA OutputOfMover ==
  ASSUME CampaignInv, NEW r \in Runs, Under(r), NEW d \in Outputs, d = runs[r].output,
         UNCHANGED owner, Kept(Summary(d)), AttemptsKept(d)
  PROVE  OutputInv(d)'
<1>1. d \in Outputs /\ OutputInv(d) /\ owner'[d] = owner[d] /\ ~Whole(Summary(d))
  BY NothingPublished
<1>2. Kept(Summary(d)) /\ AttemptsKept(d)
  OBVIOUS
<1>3. Whole(Summary(d)) => runs'[owner[d]].at = runs[owner[d]].at
  BY <1>1
<1> QED BY <1>1, <1>2, <1>3, OutputIsKept

Stopped == [Fresh EXCEPT !.at = "stopped"]

\* A run that stops, whatever it left in its output, need only leave the promises of it.
LEMMA HaltKeepsTheRest ==
  ASSUME CampaignInv, NEW r \in Runs, Under(r), Halt(r), UNCHANGED <<inputs, owner>>,
         NEW d \in Outputs, d = runs[r].output, FilesMove(r, d), OutputInv(d)'
  PROVE  CampaignInv'
<1>1. Stopped \in RunStates /\ Stopped.at = "stopped" /\ Stopped.attempts = <<>>
  <2>1. <<>> \in Seq(AttemptRecords)
    BY EmptySeq
  <2> QED BY <2>1 DEF Stopped, Fresh, RunStates, Places
<1>2. runs' = [runs EXCEPT ![r] = Stopped]
  BY DEF Halt, Stopped
<1>3. Advances(r, Stopped)
  BY <1>1, <1>2 DEF Advances, Under, Off
<1>4. runs'[r] = Stopped
  BY <1>2 DEF CampaignInv, TypeInv
<1>5. RunInv(r)'
  BY <1>1, <1>4 DEF RunInv, Receipted, Shaped, Reading, Attempting, Concluding, Under, Off
<1> QED BY <1>3, <1>5, AdvanceKeepsTheRest

\* Nothing is written.
LEMMA NoFileMoves ==
  ASSUME TypeInv, UNCHANGED files, NEW r, NEW d
  PROVE  FilesMove(r, d) /\ Kept(Summary(d)) /\ AttemptsKept(d)
BY DEF FilesMove, Kept, AttemptsKept, TypeInv

\* A run that ends without writing keeps the invariant.
LEMMA QuietHalt ==
  ASSUME CampaignInv, NEW r \in Runs, Under(r), Halt(r), UNCHANGED <<inputs, owner, files>>
  PROVE  CampaignInv'
<1>1. PICK d \in Outputs : d = runs[r].output
  BY NothingPublished
<1>2. FilesMove(r, d) /\ OutputInv(d)'
  BY <1>1, NoFileMoves, OutputOfMover DEF CampaignInv
<1> QED BY <1>1, <1>2, HaltKeepsTheRest

\* So does one that moves on without writing, if its new place agrees with its memory.
LEMMA QuietAdvance ==
  ASSUME CampaignInv, NEW r \in Runs, Under(r), NEW s, runs' = [runs EXCEPT ![r] = s],
         s \in RunStates, s.at \notin Off, s.output = runs[r].output,
         UNCHANGED <<inputs, owner, files>>, RunInv(r)'
  PROVE  CampaignInv'
<1>1. PICK d \in Outputs : d = runs[r].output
  BY NothingPublished
<1>2. FilesMove(r, d) /\ OutputInv(d)'
  BY <1>1, NoFileMoves, OutputOfMover DEF CampaignInv
<1>3. Advances(r, s)
  BY <1>1, <1>2 DEF Advances, Under, Off
<1> QED BY <1>1, <1>2, <1>3, AdvanceKeepsTheRest

----------------------------------------------------------------------------
(* Writing a new file.                                                      *)

\* A new file is there whole, and the run goes on; or it is torn, and the run has ended.
LEMMA Written ==
  ASSUME CampaignInv, NEW r \in Runs, Under(r), NEW p \in PathsOf(runs[r].output), NEW data,
         NEW next, WriteThen(r, p, data, next)
  PROVE  /\ FilesMove(r, runs[r].output)
         /\ p \notin DOMAIN files /\ p \in DOMAIN files'
         /\ \A q : q # p => Kept(q)
         /\ \/ files'[p] = File(r, TRUE, data) /\ runs' = [runs EXCEPT ![r] = next]
            \/ files'[p] = File(r, FALSE, Nothing) /\ Halt(r)
<1>1. PICK file \in {File(r, TRUE, data), File(r, FALSE, Nothing)} :
        /\ files' = Put(p, file) /\ p \notin DOMAIN files
        /\ \/ file = File(r, TRUE, data) /\ runs' = [runs EXCEPT ![r] = next]
           \/ file = File(r, FALSE, Nothing) /\ Halt(r)
  BY DEF WriteThen, Exists
<1>2. /\ DOMAIN files' = DOMAIN files \cup {p} /\ files'[p] = file
      /\ \A q \in DOMAIN files : files'[q] = files[q]
      /\ files' = [q \in DOMAIN files' |-> files'[q]]
  BY <1>1 DEF Put
<1>3. IsFile(file) /\ file.by = r
  <2>1. \A whole \in BOOLEAN : \A content : LET f == File(r, whole, content) IN IsFile(f) /\ f.by = r
    BY DEF IsFile, File
  <2> QED BY <1>1, <2>1
<1>4. FilesMove(r, runs[r].output)
  BY <1>2, <1>3 DEF FilesMove
<1>5. \A q : q # p => Kept(q)
  BY <1>2 DEF Kept
<1> QED BY <1>1, <1>2, <1>4, <1>5

----------------------------------------------------------------------------
(* Entry.                                                                   *)

Entering == {"request", "usage", "receipt", "check", "list", "before"}

\* Before the first attempt nothing is recorded, and nothing is to be told.
LEMMA NothingRecorded ==
  ASSUME CampaignInv, NEW r \in Runs, runs[r].at \in Entering,
         NEW d \in Outputs, d = runs[r].output, AttemptsKept(d),
         NEW s \in RunStates, runs' = [runs EXCEPT ![r] = s],
         s.at \in Entering \cup {"load"}, s.output = d, s.attempts = runs[r].attempts
  PROVE  Recorded(r)' /\ s.attempts = <<>> /\ Under(r)
<1>1. Under(r) /\ runs[r].attempts = <<>>
  BY DEF CampaignInv, RunInv, Shaped, Under, Off, Entering, Attempting, Concluding
<1>2. Recorded(r) /\ Len(<<>>) = 0
  BY <1>1, NothingPublished, EmptySeq
<1>3. runs'[r] = s
  BY DEF CampaignInv, TypeInv
<1>4. \A n \in Positions : Attempt(d, n) \notin DOMAIN files'
  <2>1. \A n \in Positions : n > 0
    BY ScheduleHasMissions
  <2> QED BY <1>1, <1>2, <2>1 DEF Recorded, Exists, AttemptsKept, Kept
<1>5. Len(Schedule) \in Nat \ {0} /\ 1..0 = {}
  BY ScheduleHasMissions
<1> QED BY <1>1, <1>2, <1>3, <1>4, <1>5
        DEF Recorded, Exists, Entering, Attempting, Concluding

\* So a step of the entry need only answer for the receipt.
LEMMA EntryStep ==
  ASSUME CampaignInv, NEW r \in Runs, runs[r].at \in Entering,
         NEW d \in Outputs, d = runs[r].output, FilesMove(r, d),
         Kept(Summary(d)), AttemptsKept(d), UNCHANGED <<inputs, owner>>,
         NEW s \in RunStates, runs' = [runs EXCEPT ![r] = s],
         s.at \in Entering, s.output = d, s.attempts = runs[r].attempts, Receipted(r)'
  PROVE  CampaignInv'
<1>1. Recorded(r)' /\ s.attempts = <<>> /\ Under(r)
  BY NothingRecorded
<1>2. runs'[r] = s
  BY DEF CampaignInv, TypeInv
<1>3. RunInv(r)'
  BY <1>1, <1>2 DEF RunInv, Shaped, Entering, Attempting, Concluding
<1>4. OutputInv(d)'
  BY <1>1, OutputOfMover
<1>5. Advances(r, s)
  BY DEF Advances, Entering, Off
<1> QED BY <1>3, <1>4, <1>5, AdvanceKeepsTheRest

\* The write or the exclusive creation of what is not a capture, a record or a summary.
LEMMA OthersUntouched ==
  ASSUME NEW d, NEW p \in {Request(d), Usage(d)}, \A q : q # p => Kept(q)
  PROVE  Kept(Summary(d)) /\ AttemptsKept(d) /\ p \in PathsOf(d)
BY PathsApart, PathsWithin DEF AttemptsKept

\* Moving to another place keeps a run's shape.
LEMMA MovedOn ==
  ASSUME TypeInv, NEW r \in Runs, NEW place \in Places
  PROVE  LET s == [runs[r] EXCEPT !.at = place]
         IN  /\ s \in RunStates /\ s.at = place /\ s.output = runs[r].output
             /\ s.attempts = runs[r].attempts /\ s.before = runs[r].before
             /\ s.after = runs[r].after /\ s.episode = runs[r].episode
             /\ s.disposition = runs[r].disposition
             /\ Move(r, place) <=> runs' = [runs EXCEPT ![r] = s]
BY DEF TypeInv, RunStates, Move

\* The request: nothing has been recorded yet.
LEMMA WriteRequestKeeps ==
  ASSUME CampaignInv, NEW r \in Runs, WriteRequest(r)
  PROVE  CampaignInv'
<1> DEFINE next == [runs[r] EXCEPT !.at = "usage"]
<1>1. runs[r].at \in Entering /\ Under(r) /\ UNCHANGED <<inputs, owner>>
  BY DEF WriteRequest, Entering, Under, Off
<1>2. PICK d \in Outputs : d = runs[r].output
  BY <1>1, NothingPublished
<1>3. WriteThen(r, Request(d), Nothing, next) /\ Request(d) \in PathsOf(d)
  BY <1>2, PathsWithin DEF WriteRequest
<1>4. /\ FilesMove(r, d) /\ \A q : q # Request(d) => Kept(q)
      /\ runs' = [runs EXCEPT ![r] = next] \/ Halt(r)
  BY <1>1, <1>2, <1>3, Written
<1>5. Kept(Summary(d)) /\ AttemptsKept(d)
  BY <1>4, OthersUntouched
<1>6. CASE Halt(r)
  BY <1>1, <1>2, <1>4, <1>5, <1>6, OutputOfMover, HaltKeepsTheRest
<1>7. CASE runs' = [runs EXCEPT ![r] = next]
  <2>1. next \in RunStates /\ next.at = "usage" /\ next.output = d
        /\ next.attempts = runs[r].attempts
    BY ZenonT(40), <1>2, MovedOn DEF CampaignInv, Places
  <2>2. runs'[r] = next
    BY <1>7 DEF CampaignInv, TypeInv
  <2>3. Receipted(r)'
    BY <2>1, <2>2 DEF Receipted, Reading
  <2>4. next.at \in Entering
    BY <2>1 DEF Entering
  <2> HIDE DEF next
  <2> QED BY <1>1, <1>2, <1>4, <1>5, <1>7, <2>1, <2>3, <2>4, EntryStep
<1> QED BY <1>4, <1>6, <1>7

\* The receipt exists, and is torn until it is filled.
LEMMA CreateReceiptKeeps ==
  ASSUME CampaignInv, NEW r \in Runs, CreateReceipt(r)
  PROVE  CampaignInv'
<1> DEFINE next == [runs[r] EXCEPT !.at = "receipt"]
<1>1. runs[r].at \in Entering /\ Under(r) /\ UNCHANGED <<inputs, owner>>
  BY DEF CreateReceipt, Entering, Under, Off
<1>2. PICK d \in Outputs : d = runs[r].output
  BY <1>1, NothingPublished
<1> DEFINE p == Usage(d)
           file == File(r, FALSE, [digest |-> inputs["manifest"]])
<1>3. CASE Halt(r) /\ UNCHANGED files
  BY <1>1, <1>3, QuietHalt
<1>4. CASE p \notin DOMAIN files /\ files' = Put(p, file) /\ Move(r, "receipt")
  <2>1. file.by = r /\ file.whole = FALSE /\ IsFile(file)
    BY DEF File, IsFile
  <2> HIDE DEF file
  <2>2. /\ DOMAIN files' = DOMAIN files \cup {p} /\ files'[p] = file
        /\ \A q \in DOMAIN files : files'[q] = files[q]
        /\ files' = [q \in DOMAIN files' |-> files'[q]]
    BY <1>4 DEF Put
  <2>3. FilesMove(r, d) /\ \A q : q # p => Kept(q)
    BY <2>1, <2>2, PathsWithin DEF FilesMove, Kept
  <2>4. Kept(Summary(d)) /\ AttemptsKept(d)
    BY <2>3, OthersUntouched
  <2>5. /\ next \in RunStates /\ next.at = "receipt" /\ next.output = d
        /\ next.attempts = runs[r].attempts /\ runs' = [runs EXCEPT ![r] = next]
    BY ZenonT(40), <1>2, <1>4, MovedOn DEF CampaignInv, Places
  <2>6. runs'[r] = next
    BY <2>5 DEF CampaignInv, TypeInv
  <2>7. Receipted(r)'
    BY <2>1, <2>2, <2>5, <2>6 DEF Receipted, Reading, Exists
  <2>8. next.at \in Entering
    BY <2>5 DEF Entering
  <2> HIDE DEF next
  <2> QED BY <1>1, <1>2, <2>3, <2>4, <2>5, <2>7, <2>8, EntryStep
<1> QED BY <1>2, <1>3, <1>4 DEF CreateReceipt, Exists

\* The receipt is whole, before anything is read.
LEMMA FillReceiptKeeps ==
  ASSUME CampaignInv, NEW r \in Runs, FillReceipt(r)
  PROVE  /\ CampaignInv'
         /\ \A d \in Outputs : Whole(Usage(d)) => files'[Usage(d)] = files[Usage(d)]
<1> DEFINE next == [runs[r] EXCEPT !.at = "check"]
<1>1. runs[r].at \in Entering /\ Under(r) /\ UNCHANGED <<inputs, owner>>
  BY DEF FillReceipt, Entering, Under, Off
<1>2. PICK d \in Outputs : d = runs[r].output
  BY <1>1, NothingPublished
<1> DEFINE p == Usage(d)
           file == [files[p] EXCEPT !.whole = TRUE]
<1>3. p \in DOMAIN files /\ files[p].by = r /\ ~files[p].whole /\ IsFile(files[p])
  BY <1>2 DEF CampaignInv, TypeInv, RunInv, Receipted, Exists, FillReceipt
<1>4. file.by = r /\ file.whole = TRUE /\ IsFile(file)
  <2>1. PICK f : f = files[p] /\ f.by = r /\ f \in [by : Runs, whole : BOOLEAN, data : {f.data}]
    BY <1>3 DEF IsFile
  <2>2. LET g == [f EXCEPT !.whole = TRUE]
        IN  g.by = r /\ g.whole = TRUE /\ g \in [by : Runs, whole : BOOLEAN, data : {g.data}]
    BY <2>1
  <2> QED BY <2>1, <2>2 DEF IsFile
<1>5. files' = [files EXCEPT ![p] = file]
  BY <1>2 DEF FillReceipt
<1> HIDE DEF file
<1>6. /\ DOMAIN files' = DOMAIN files /\ files'[p] = file
      /\ \A q \in DOMAIN files : q # p => files'[q] = files[q]
      /\ files' = [q \in DOMAIN files' |-> files'[q]]
  BY <1>3, <1>5 DEF CampaignInv, TypeInv
<1>7. FilesMove(r, d) /\ \A q : q # p => Kept(q)
  BY <1>4, <1>6, PathsWithin DEF FilesMove, Kept
<1>8. Kept(Summary(d)) /\ AttemptsKept(d)
  BY <1>7, OthersUntouched
<1>9. /\ next \in RunStates /\ next.at = "check" /\ next.output = d
      /\ next.attempts = runs[r].attempts /\ runs' = [runs EXCEPT ![r] = next]
  BY ZenonT(40), <1>2, MovedOn DEF CampaignInv, Places, FillReceipt
<1>10. runs'[r] = next
  BY <1>9 DEF CampaignInv, TypeInv
<1>11. Receipted(r)'
  BY <1>3, <1>4, <1>6, <1>9, <1>10 DEF Receipted, Reading, Exists, Whole
<1>12. next.at \in Entering
  BY <1>9 DEF Entering
<1> HIDE DEF next
<1>13. CampaignInv'
  BY <1>1, <1>2, <1>7, <1>8, <1>9, <1>11, <1>12, EntryStep
<1>14. ASSUME NEW e \in Outputs, Whole(Usage(e)) PROVE files'[Usage(e)] = files[Usage(e)]
  <2>1. Usage(e) \in DOMAIN files /\ Usage(e) # p
    BY <1>3, <1>14 DEF Whole, Exists
  <2> QED BY <1>6, <2>1
<1> QED BY <1>13, <1>14

\* All receipts are parsed, or the run ends.
LEMMA CheckUsageKeeps ==
  ASSUME CampaignInv, NEW r \in Runs, CheckUsage(r)
  PROVE  CampaignInv'
<1> DEFINE next == [runs[r] EXCEPT !.at = "list"]
<1>1. runs[r].at \in Entering /\ Under(r) /\ UNCHANGED <<inputs, owner, files>>
  BY DEF CheckUsage, Entering, Under, Off
<1>2. PICK d \in Outputs : d = runs[r].output
  BY <1>1, NothingPublished
<1>3. CASE Halt(r)
  BY <1>1, <1>3, QuietHalt
<1>4. CASE Move(r, "list")
  <2>1. /\ next \in RunStates /\ next.at = "list" /\ next.output = d
        /\ next.attempts = runs[r].attempts /\ runs' = [runs EXCEPT ![r] = next]
    BY ZenonT(40), <1>2, <1>4, MovedOn DEF CampaignInv, Places
  <2>2. runs'[r] = next
    BY <2>1 DEF CampaignInv, TypeInv
  <2>3. Receipted(r)'
    BY <1>1, <1>2, <2>1, <2>2
       DEF CheckUsage, CampaignInv, RunInv, Receipted, Reading, Whole, Exists
  <2>4. FilesMove(r, d) /\ Kept(Summary(d)) /\ AttemptsKept(d) /\ next.at \in Entering
    BY <1>1, <2>1, NoFileMoves DEF CampaignInv, Entering
  <2> HIDE DEF next
  <2> QED BY <1>1, <1>2, <2>1, <2>3, <2>4, EntryStep
<1> QED BY <1>3, <1>4 DEF CheckUsage

\* The receipts to be bound are listed.
LEMMA ListReceiptsKeeps ==
  ASSUME CampaignInv, NEW r \in Runs, ListReceipts(r)
  PROVE  CampaignInv'
<1> DEFINE next == [runs[r] EXCEPT !.at = "before", !.bound = Receipts]
<1>1. runs[r].at \in Entering /\ Under(r) /\ UNCHANGED <<inputs, owner, files>>
  BY DEF ListReceipts, Entering, Under, Off
<1>2. PICK d \in Outputs : d = runs[r].output
  BY <1>1, NothingPublished
<1>3. /\ next \in RunStates /\ next.at = "before" /\ next.output = d
      /\ next.attempts = runs[r].attempts /\ runs' = [runs EXCEPT ![r] = next]
  BY <1>2 DEF CampaignInv, TypeInv, RunStates, Places, ListReceipts, Receipts
<1> HIDE DEF next
<1>4. runs'[r] = next
  BY <1>3 DEF CampaignInv, TypeInv
<1>5. Receipted(r)'
  BY <1>1, <1>2, <1>3, <1>4
     DEF ListReceipts, CampaignInv, RunInv, Receipted, Reading, Whole, Exists
<1>6. FilesMove(r, d) /\ Kept(Summary(d)) /\ AttemptsKept(d) /\ next.at \in Entering
  BY <1>1, <1>3, NoFileMoves DEF CampaignInv, Entering
<1> QED BY <1>1, <1>2, <1>3, <1>5, <1>6, EntryStep

\* A snapshot is of the inputs as they are.
LEMMA SnapshotTaken ==
  ASSUME TypeInv, NEW r \in Runs
  PROVE  Snapshot(r) \in Snapshots /\ Snapshot(r).inputs = inputs
BY DEF TypeInv, RunStates, Snapshot, Snapshots

\* The first snapshot is what everything later is compared with.
LEMMA SnapshotBeforeKeeps ==
  ASSUME CampaignInv, NEW r \in Runs, SnapshotBefore(r)
  PROVE  CampaignInv'
<1> DEFINE next == [runs[r] EXCEPT !.at = "load", !.before = Snapshot(r)]
<1>1. runs[r].at \in Entering /\ Under(r) /\ UNCHANGED <<inputs, owner, files>>
  BY DEF SnapshotBefore, Entering, Under, Off
<1>2. PICK d \in Outputs : d = runs[r].output
  BY <1>1, NothingPublished
<1>3. Snapshot(r) \in Snapshots /\ Snapshot(r).inputs = inputs
  BY SnapshotTaken DEF CampaignInv
<1>4. /\ next \in RunStates /\ next.at = "load" /\ next.output = d /\ next.before = Snapshot(r)
      /\ next.attempts = runs[r].attempts /\ runs' = [runs EXCEPT ![r] = next]
  BY <1>2, <1>3 DEF CampaignInv, TypeInv, RunStates, Places, SnapshotBefore
<1> HIDE DEF next
<1>5. runs'[r] = next
  BY <1>4 DEF CampaignInv, TypeInv
<1>6. Receipted(r)'
  BY <1>1, <1>2, <1>4, <1>5
     DEF SnapshotBefore, CampaignInv, RunInv, Receipted, Reading, Whole, Exists
<1>7. FilesMove(r, d) /\ Kept(Summary(d)) /\ AttemptsKept(d)
  BY <1>1, NoFileMoves DEF CampaignInv
<1>8. Recorded(r)' /\ next.attempts = <<>>
  BY <1>1, <1>2, <1>4, <1>7, NothingRecorded
<1>9. Shaped(r)'
  BY <1>3, <1>4, <1>5 DEF Shaped, Attempting, Concluding
<1>10. Scoped(r)'
  <2>1. \A i \in Inputs : inputs[i] <= inputs[i] /\ Len(<<>>) = 0
    BY EmptySeq DEF CampaignInv, TypeInv, Versions
  <2>2. 1..0 = {}
    OBVIOUS
  <2> QED BY <1>1, <1>3, <1>4, <1>5, <1>8, <2>1, <2>2 DEF Scoped, Last
<1>11. RunInv(r)'
  BY <1>6, <1>8, <1>9, <1>10 DEF RunInv
<1> QED BY <1>1, <1>2, <1>4, <1>11, QuietAdvance DEF Off

----------------------------------------------------------------------------
(* Attempts.                                                                *)

\* What a run in an attempt knows.
LEMMA InAttempt ==
  ASSUME CampaignInv, NEW r \in Runs, runs[r].at \in Attempting
  PROVE  /\ Under(r) /\ Recorded(r) /\ Scoped(r) /\ Shaped(r) /\ Receipted(r)
         /\ runs[r].before \in Snapshots /\ Last(r) = inputs
         /\ Number(r) \in Positions /\ Number(r) = Len(runs[r].attempts) + 1
         /\ Mission(r) \in Missions /\ Mission(r) \in Inputs /\ "source" \in Inputs
         /\ Mission(r) = Schedule[Number(r)]
<1>1. Under(r)
  BY DEF Under, Off, Attempting
<1>2. Recorded(r) /\ Scoped(r) /\ Shaped(r) /\ Receipted(r) /\ TypeInv
  BY <1>1 DEF CampaignInv, RunInv
<1>3. runs[r].before \in Snapshots /\ Last(r) = inputs
  BY <1>2 DEF Shaped, Last, Attempting
<1> QED BY <1>1, <1>2, <1>3, NextIsScheduled, ScheduleHasMissions

\* Within an attempt, while nothing is written, a run answers only for what it has just seen.
LEMMA AttemptStep ==
  ASSUME CampaignInv, NEW r \in Runs, runs[r].at \in Attempting,
         UNCHANGED <<inputs, owner, files>>,
         NEW s \in RunStates, runs' = [runs EXCEPT ![r] = s],
         s.at \in Attempting, s.output = runs[r].output, s.attempts = runs[r].attempts,
         s.before = runs[r].before,
         s.at = "flight" => s.episode \in Takeoffs,
         s.at = "save" => s.episode \in Episodes,
         s.at = "record" => s.disposition \in Disposals /\ s.disposition.kind # "Executed",
         NEW m, m = Mission(r),
         s.at \in {"execute", "flight", "save"} => s.before.inputs[m] = 0,
         s.at = "flight" =>
           Between(m, s.before.inputs, s.episode.before, s.episode.before, inputs),
         s.at = "save" => Between(m, s.before.inputs, s.episode.before, s.episode.after, inputs)
  PROVE  CampaignInv'
<1>1. Under(r) /\ Recorded(r) /\ Scoped(r) /\ Shaped(r) /\ Receipted(r)
  BY InAttempt
<1>2. runs'[r] = s /\ Last(r) = inputs /\ Last(r)' = inputs
  BY InAttempt DEF CampaignInv, TypeInv, Last, Attempting
<1>3. Receipted(r)'
  BY <1>1, <1>2 DEF Receipted, Attempting, Reading, Whole, Exists
<1>4. Shaped(r)'
  BY <1>2, InAttempt DEF Shaped, Attempting, Concluding
<1>5. Recorded(r)'
  BY <1>1, <1>2 DEF Recorded, Attempting, Concluding, Whole, Exists
<1>6. \A n : SeenInOrder(r, n) => SeenInOrder(r, n)'
  BY <1>2 DEF SeenInOrder, Whole, Exists
<1>7. Mission(r)' = m
  BY <1>2 DEF Mission, Number
<1>8. Scoped(r)'
  BY <1>1, <1>2, <1>6, <1>7 DEF Scoped, Attempting
<1>9. RunInv(r)'
  BY <1>3, <1>4, <1>5, <1>8 DEF RunInv
<1>10. s.at \notin Off
  BY DEF Off, Attempting
<1> QED BY <1>1, <1>9, <1>10, QuietAdvance

\* An attempt ends without a result.
LEMMA DisposeKeeps ==
  ASSUME CampaignInv, NEW r \in Runs, runs[r].at \in Attempting,
         UNCHANGED <<inputs, owner, files>>,
         NEW kind \in Dispositions, kind # "Executed", Dispose(r, kind)
  PROVE  CampaignInv'
<1> DEFINE next == Disposed(r, kind, FALSE)
<1>1. /\ next \in RunStates /\ next.at = "record" /\ next.output = runs[r].output
      /\ next.attempts = runs[r].attempts /\ next.before = runs[r].before
      /\ next.disposition \in Disposals /\ next.disposition.kind # "Executed"
  BY ZenonT(40) DEF CampaignInv, TypeInv, RunStates, Places, Disposed, Disposals
<1>2. runs' = [runs EXCEPT ![r] = next]
  BY DEF Dispose
<1>3. next.at \in Attempting
  BY <1>1 DEF Attempting
<1> HIDE DEF next
<1> QED BY <1>1, <1>2, <1>3, AttemptStep

\* A mission is loaded under the receipt, unedited since it was declared.
LEMMA LoadMissionKeeps ==
  ASSUME CampaignInv, NEW r \in Runs, LoadMission(r)
  PROVE  CampaignInv'
<1> DEFINE next == [runs[r] EXCEPT !.at = "execute"]
<1>1. runs[r].at \in Attempting /\ UNCHANGED <<inputs, owner, files>>
  BY DEF LoadMission, Attempting
<1>2. CASE inputs[Mission(r)] = 0 /\ Move(r, "execute")
  <2>1. /\ next \in RunStates /\ next.at = "execute" /\ next.output = runs[r].output
        /\ next.attempts = runs[r].attempts /\ next.before = runs[r].before
        /\ runs' = [runs EXCEPT ![r] = next]
    BY ZenonT(40), <1>2, MovedOn DEF CampaignInv, Places
  <2>2. /\ runs[r].before \in Snapshots /\ Mission(r) \in Inputs
        /\ runs[r].before.inputs[Mission(r)] <= inputs[Mission(r)]
    BY <1>1, InAttempt DEF Scoped
  <2>3. next.before.inputs[Mission(r)] = 0
    BY <1>2, <2>1, <2>2 DEF Snapshots, Versions
  <2>4. next.at \in Attempting
    BY <2>1 DEF Attempting
  <2> HIDE DEF next
  <2> QED BY <1>1, <2>1, <2>3, <2>4, AttemptStep
<1>3. CASE Dispose(r, "InputInvalid")
  BY <1>1, <1>3, DisposeKeeps DEF Dispositions
<1> QED BY <1>2, <1>3 DEF LoadMission

\* A refusal is disposed of without evidence.
LEMMA RefuseAttemptKeeps ==
  ASSUME CampaignInv, NEW r \in Runs, NEW kind \in Refusals, RefuseAttempt(r, kind)
  PROVE  CampaignInv'
<1>1. kind \in Dispositions /\ kind # "Executed" /\ runs[r].at \in Attempting
  BY CampaignAssumption DEF Dispositions, RefuseAttempt, Attempting
<1> QED BY <1>1, DisposeKeeps DEF RefuseAttempt

\* What a run sees of its sources and its mission is what they are now.
LEMMA EvidenceIsNow ==
  ASSUME CampaignInv, NEW r \in Runs, runs[r].at \in Attempting
  PROVE  /\ Evidence(r) \in Evidences
         /\ Evidence(r).source = inputs["source"] /\ Evidence(r).mission = inputs[Mission(r)]
BY InAttempt DEF CampaignInv, TypeInv, Evidence, Evidences

\* The evidence before the episode follows the first snapshot.
LEMMA TakeOffKeeps ==
  ASSUME CampaignInv, NEW r \in Runs, TakeOff(r)
  PROVE  CampaignInv'
<1> DEFINE episode == [before |-> Evidence(r)]
           next == [runs[r] EXCEPT !.at = "flight", !.episode = episode]
<1>1. runs[r].at \in Attempting /\ runs[r].at = "execute" /\ UNCHANGED <<inputs, owner, files>>
  BY DEF TakeOff, Attempting
<1>2. PICK seen \in Evidences : seen = Evidence(r) /\ seen.source = inputs["source"]
                                /\ seen.mission = inputs[Mission(r)]
  BY <1>1, EvidenceIsNow
<1>3. episode \in Takeoffs /\ episode.before = seen
  BY <1>2 DEF Takeoffs
<1> HIDE DEF episode
<1>4. /\ next \in RunStates /\ next.at = "flight" /\ next.output = runs[r].output
      /\ next.attempts = runs[r].attempts /\ next.before = runs[r].before
      /\ next.episode = episode
  BY ZenonT(40), <1>3 DEF CampaignInv, TypeInv, RunStates, Places
<1>5. runs' = [runs EXCEPT ![r] = next]
  BY <1>1 DEF TakeOff, episode
<1> HIDE DEF next
<1>6. PICK m : m = Mission(r)
  OBVIOUS
<1>7. /\ runs[r].before.inputs[m] = 0 /\ runs[r].before.inputs["source"] <= inputs["source"]
      /\ runs[r].before.inputs[m] <= inputs[m]
  BY <1>1, <1>6, InAttempt DEF Scoped
<1>8. /\ inputs[m] \in Int /\ inputs["source"] \in Int
  BY <1>1, <1>6, InAttempt DEF CampaignInv, TypeInv, Versions
<1>9. Between(m, runs[r].before.inputs, seen, seen, inputs)
  BY <1>2, <1>6, <1>7, <1>8 DEF Between
<1>10. next.at \in Attempting
  BY <1>4 DEF Attempting
<1> QED BY <1>1, <1>3, <1>4, <1>5, <1>6, <1>7, <1>9, <1>10, AttemptStep

\* The evidence after it follows the one before.
LEMMA TouchdownKeeps ==
  ASSUME CampaignInv, NEW r \in Runs, NEW landed \in BOOLEAN, Touchdown(r, landed)
  PROVE  CampaignInv'
<1> DEFINE before == runs[r].episode.before
           after == Evidence(r)
           episode == [before |-> before, after |-> after,
                       verified |-> VerifiedLanding(before, after, landed)]
           next == [runs[r] EXCEPT !.at = "save", !.episode = episode]
<1>1. runs[r].at \in Attempting /\ runs[r].at = "flight" /\ UNCHANGED <<inputs, owner, files>>
  BY DEF Touchdown, Attempting
<1>2. PICK seen \in Evidences : seen = Evidence(r) /\ seen.source = inputs["source"]
                                /\ seen.mission = inputs[Mission(r)]
  BY <1>1, EvidenceIsNow
<1>3. PICK m : m = Mission(r)
  OBVIOUS
<1>4. /\ runs[r].before.inputs[m] = 0
      /\ Between(m, runs[r].before.inputs, before, before, inputs)
  BY <1>1, <1>3, InAttempt DEF Scoped
<1>5. episode \in Episodes /\ episode.before = before /\ episode.after = seen
  BY <1>2, <1>4 DEF Episodes, VerifiedLanding, Between
<1>6. runs' = [runs EXCEPT ![r] = next]
  BY <1>1 DEF Touchdown
<1> HIDE DEF episode
<1>7. /\ next \in RunStates /\ next.at = "save" /\ next.output = runs[r].output
      /\ next.attempts = runs[r].attempts /\ next.before = runs[r].before
      /\ next.episode = episode
  BY ZenonT(40), <1>5 DEF CampaignInv, TypeInv, RunStates, Places
<1> HIDE DEF next
<1>8. inputs[m] \in Int /\ inputs["source"] \in Int
  BY <1>1, <1>3, InAttempt DEF CampaignInv, TypeInv, Versions
<1>9. Between(m, runs[r].before.inputs, before, seen, inputs)
  BY <1>2, <1>3, <1>4, <1>8 DEF Between
<1>10. next.at \in Attempting
  BY <1>7 DEF Attempting
<1> HIDE DEF before, after
<1> QED BY <1>1, <1>3, <1>4, <1>5, <1>6, <1>7, <1>9, <1>10, AttemptStep

\* Writing a capture, in part or whole, moves only the two files of the attempt under way, and
\* takes nothing from what its output promises: there is no record of that attempt yet.
LEMMA CapturePut ==
  ASSUME CampaignInv, NEW r \in Runs, runs[r].at = "save", UNCHANGED owner,
         NEW d \in Outputs, d = runs[r].output, NEW k, k = Number(r),
         NEW evaluation \in {"absent", "torn", "whole"}, NEW seal \in {"absent", "torn", "whole"},
         PutCapture(r, evaluation, seal)
  PROVE  /\ FilesMove(r, d)
         /\ \A q : q \notin {Evaluation(d, k), Seal(d, k)} => Kept(q)
         /\ evaluation = "whole" => /\ Evaluation(d, k) \in DOMAIN files'
                                    /\ files'[Evaluation(d, k)] = File(r, TRUE, runs[r].episode)
         /\ seal = "whole" => /\ Seal(d, k) \in DOMAIN files'
                              /\ files'[Seal(d, k)] = File(r, TRUE, runs[r].episode)
         /\ OutputInv(d)'
<1> DEFINE paths == (IF evaluation = "absent" THEN {} ELSE {Evaluation(d, k)})
                      \cup (IF seal = "absent" THEN {} ELSE {Seal(d, k)})
           file(p) == File(r, (IF p = Seal(d, k) THEN seal ELSE evaluation) = "whole",
                           runs[r].episode)
<1>1. files' = [p \in DOMAIN files \cup paths |-> IF p \notin paths THEN files[p] ELSE file(p)]
  BY DEF PutCapture
<1>2. paths \subseteq {Evaluation(d, k), Seal(d, k)}
  OBVIOUS
<1>3. \A p : IsFile(file(p)) /\ file(p).by = r
  BY DEF IsFile, File
<1>4. k \in Positions /\ k > Len(runs[r].attempts) /\ Recorded(r) /\ Under(r)
  BY InAttempt, NothingPublished DEF Attempting
<1>5. {Evaluation(d, k), Seal(d, k)} \subseteq PathsOf(d) /\ Evaluation(d, k) # Seal(d, k)
  BY <1>4, PathsWithin, PathsApart
<1>6. /\ evaluation = "whole" => file(Evaluation(d, k)) = File(r, TRUE, runs[r].episode)
      /\ seal = "whole" => file(Seal(d, k)) = File(r, TRUE, runs[r].episode)
      /\ evaluation = "whole" => Evaluation(d, k) \in paths
      /\ seal = "whole" => Seal(d, k) \in paths
  BY <1>5
<1> HIDE DEF paths, file
<1>7. FilesMove(r, d)
  BY <1>1, <1>2, <1>3, <1>5 DEF FilesMove
<1>8. \A q : q \notin {Evaluation(d, k), Seal(d, k)} => Kept(q)
  BY <1>1, <1>2 DEF Kept
<1>9. OutputInv(d)'
  <2>1. Kept(Summary(d)) /\ ~Whole(Summary(d)) /\ OutputInv(d)
    BY <1>4, <1>8, PathsApart, NothingPublished
  <2>2. ~Whole(Summary(d))'
    BY <2>1 DEF Kept, Whole, Exists
  <2>3. ASSUME NEW n \in Positions, Whole(Attempt(d, n))',
               files'[Attempt(d, n)].data.kind = "Executed"
        PROVE  Verdict(d, n, files[Attempt(d, n)].data.verified)'
    <3>1. Kept(Attempt(d, n))
      BY <1>8, PathsApart
    <3>2. Whole(Attempt(d, n)) /\ files'[Attempt(d, n)] = files[Attempt(d, n)]
      BY <2>3, <3>1 DEF Kept, Whole, Exists
    <3>3. n # k
      BY <1>4, <3>2 DEF Recorded, Whole
    <3>4. Kept(Evaluation(d, n)) /\ Kept(Seal(d, n))
      BY <1>8, <3>3, PathsApart
    <3>5. Verdict(d, n, files[Attempt(d, n)].data.verified)
      BY <2>1, <2>3, <3>2 DEF OutputInv, CaptureKept
    <3> QED BY <3>2, <3>4, <3>5 DEF Verdict, Loadable, Kept, Whole, Exists
  <2> QED BY <2>2, <2>3 DEF OutputInv, CaptureKept
<1> QED BY <1>1, <1>6, <1>7, <1>8, <1>9

\* What is on disk of the attempts made is not touched by a capture.
LEMMA CaptureIsOfTheNext ==
  ASSUME CampaignInv, NEW r \in Runs, runs[r].at = "save",
         NEW d \in Outputs, d = runs[r].output, NEW k, k = Number(r),
         \A q : q \notin {Evaluation(d, k), Seal(d, k)} => Kept(q)
  PROVE  /\ Kept(Usage(d))
         /\ \A n \in Positions : Kept(Attempt(d, n))
         /\ \A n \in 1..Len(runs[r].attempts) : n \in Positions /\ Kept(Evaluation(d, n))
<1>1. Number(r) = Len(runs[r].attempts) + 1 /\ Len(runs[r].attempts) \in Nat /\ Recorded(r)
  BY InAttempt, NothingPublished DEF Attempting
<1>2. \A n \in 1..Len(runs[r].attempts) : n \in Positions /\ n # k
  BY <1>1, ScheduleHasMissions DEF Recorded
<1> QED BY <1>2, PathsApart

\* A run that has put a capture on disk has a disposition to record, and it is true.
LEMMA CaptureStep ==
  ASSUME CampaignInv, NEW r \in Runs, runs[r].at = "save", UNCHANGED <<inputs, owner>>,
         NEW d \in Outputs, d = runs[r].output, NEW k, k = Number(r),
         FilesMove(r, d), \A q : q \notin {Evaluation(d, k), Seal(d, k)} => Kept(q), OutputInv(d)',
         NEW kind \in Dispositions, NEW verified \in BOOLEAN,
         runs' = [runs EXCEPT ![r] = Disposed(r, kind, verified)],
         kind = "Executed" =>
           /\ Evaluation(d, k) \in DOMAIN files' /\ Seal(d, k) \in DOMAIN files'
           /\ files'[Evaluation(d, k)] = File(r, TRUE, runs[r].episode)
           /\ files'[Seal(d, k)] = File(r, TRUE, runs[r].episode)
           /\ verified = runs[r].episode.verified
  PROVE  CampaignInv'
<1> DEFINE next == Disposed(r, kind, verified)
           me == runs[r]
<1>1. /\ next \in RunStates /\ next.at = "record" /\ next.output = me.output
      /\ next.attempts = me.attempts /\ next.before = me.before
      /\ next.disposition \in Disposals /\ next.disposition.kind = kind
      /\ next.disposition.verified = verified
  BY ZenonT(40) DEF CampaignInv, TypeInv, RunStates, Places, Disposed, Disposals
<1>2. runs' = [runs EXCEPT ![r] = next]
  OBVIOUS
<1> HIDE DEF next
<1>3. runs'[r] = next
  BY <1>2 DEF CampaignInv, TypeInv
<1>4. /\ Under(r) /\ Recorded(r) /\ Scoped(r) /\ Receipted(r)
      /\ me.before \in Snapshots /\ Last(r) = inputs /\ k \in Positions
      /\ k = Len(me.attempts) + 1 /\ Mission(r) = Schedule[k]
  BY InAttempt DEF Attempting
<1>5. /\ Kept(Usage(d)) /\ \A n \in Positions : Kept(Attempt(d, n))
      /\ \A n \in 1..Len(me.attempts) : n \in Positions /\ Kept(Evaluation(d, n))
  BY CaptureIsOfTheNext
<1>6. Advances(r, next)
  BY <1>1, <1>2 DEF Advances, Off
<1>7. Receipted(r)'
  BY <1>1, <1>3, <1>4, <1>5 DEF Receipted, Reading, Whole, Exists, Kept
<1>8. Shaped(r)'
  BY <1>1, <1>3, <1>4 DEF Shaped, Attempting, Concluding
<1>9. Recorded(r)'
  <2>1. \A n \in 1..Len(me.attempts) :
          Whole(Attempt(d, n))' /\ files'[Attempt(d, n)].data = me.attempts[n]
    BY <1>4, <1>5 DEF Recorded, Whole, Exists, Kept
  <2>2. \A n \in Positions : n > Len(me.attempts) => Attempt(d, n) \notin DOMAIN files'
    BY <1>4, <1>5 DEF Recorded, Exists, Kept
  <2>3. ASSUME kind = "Executed" PROVE Verdict(d, k, verified)'
    BY <2>3 DEF Verdict, Loadable, Whole, Exists, File
  <2> QED BY <1>1, <1>3, <1>4, <2>1, <2>2, <2>3
          DEF Recorded, Whole, Exists, Attempting, Concluding
<1>10. Scoped(r)'
  <2>1. Last(r)' = inputs
    BY <1>1, <1>3 DEF Last
  <2>2. ASSUME NEW n \in 1..Len(me.attempts), SeenInOrder(r, n) PROVE SeenInOrder(r, n)'
    BY <1>1, <1>3, <1>4, <1>5, <2>1, <2>2 DEF SeenInOrder, Whole, Exists, Kept
  <2>3. ASSUME kind = "Executed" PROVE SeenInOrder(r, k)'
    <3>1. files'[Evaluation(d, k)].data = me.episode /\ files'[Evaluation(d, k)].whole
      BY <2>3 DEF File
    <3>2. Between(Schedule[k], me.before.inputs, me.episode.before, me.episode.after, inputs)
      BY <1>4 DEF Scoped
    <3> QED BY <1>1, <1>3, <2>1, <2>3, <3>1, <3>2 DEF SeenInOrder, Whole, Exists
  <2>4. \A i \in Inputs : next.before.inputs[i] <= Last(r)'[i]
    BY <1>1, <1>4, <2>1 DEF Scoped
  <2>5. \A n \in 1..Len(next.attempts) : next.attempts[n].kind = "Executed" => SeenInOrder(r, n)'
    BY <1>1, <1>4, <2>2 DEF Scoped
  <2> QED BY <1>1, <1>3, <1>4, <2>3, <2>4, <2>5 DEF Scoped
<1>11. RunInv(r)'
  BY <1>7, <1>8, <1>9, <1>10 DEF RunInv
<1> QED BY <1>6, <1>11, AdvanceKeepsTheRest

\* A saved capture loads with the verdict disposed.
LEMMA SaveCaptureKeeps ==
  ASSUME CampaignInv, NEW r \in Runs, SaveCapture(r)
  PROVE  CampaignInv'
<1>1. runs[r].at = "save" /\ UNCHANGED <<inputs, owner>> /\ PutCapture(r, "whole", "whole")
  BY DEF SaveCapture
<1>2. PICK d \in Outputs : d = runs[r].output
  BY <1>1, NothingPublished DEF Under, Off
<1>3. PICK k : k = Number(r)
  OBVIOUS
<1>4. /\ FilesMove(r, d) /\ \A q : q \notin {Evaluation(d, k), Seal(d, k)} => Kept(q)
      /\ OutputInv(d)'
      /\ Evaluation(d, k) \in DOMAIN files' /\ Seal(d, k) \in DOMAIN files'
      /\ files'[Evaluation(d, k)] = File(r, TRUE, runs[r].episode)
      /\ files'[Seal(d, k)] = File(r, TRUE, runs[r].episode)
  BY <1>1, <1>2, <1>3, CapturePut
<1>5. PICK verified \in BOOLEAN : verified = runs[r].episode.verified
  BY <1>1 DEF CampaignInv, RunInv, Shaped, Episodes
<1>6. runs' = [runs EXCEPT ![r] = Disposed(r, "Executed", verified)]
  BY <1>5 DEF SaveCapture
<1>7. "Executed" \in Dispositions
  BY DEF Dispositions
<1> QED BY <1>1, <1>2, <1>3, <1>4, <1>5, <1>6, <1>7, CaptureStep

\* A capture lost on the way is disposed of as lost, or the run ends.
LEMMA LoseCaptureKeeps ==
  ASSUME CampaignInv, NEW r \in Runs, LoseCapture(r)
  PROVE  CampaignInv'
<1>1. runs[r].at = "save" /\ UNCHANGED <<inputs, owner>> /\ Under(r)
  BY DEF LoseCapture, Under, Off
<1>2. PICK d \in Outputs : d = runs[r].output
  BY <1>1, NothingPublished
<1>3. PICK k : k = Number(r)
  OBVIOUS
<1>4. PICK evaluation \in {"absent", "torn", "whole"}, seal \in {"absent", "torn", "whole"} :
        PutCapture(r, evaluation, seal)
  BY DEF LoseCapture
<1>5. /\ FilesMove(r, d) /\ \A q : q \notin {Evaluation(d, k), Seal(d, k)} => Kept(q)
      /\ OutputInv(d)'
  BY <1>1, <1>2, <1>3, <1>4, CapturePut
<1>6. CASE Dispose(r, "CaptureFailed")
  <2>1. runs' = [runs EXCEPT ![r] = Disposed(r, "CaptureFailed", FALSE)]
    BY <1>6 DEF Dispose
  <2>2. "CaptureFailed" \in Dispositions /\ "CaptureFailed" # "Executed"
    BY DEF Dispositions
  <2> QED BY <1>1, <1>2, <1>3, <1>5, <2>1, <2>2, CaptureStep
<1>7. CASE Halt(r)
  BY <1>1, <1>2, <1>5, <1>7, HaltKeepsTheRest
<1> QED BY <1>6, <1>7 DEF LoseCapture

\* The record on disk is the attempt in memory.
LEMMA RecordAttemptKeeps ==
  ASSUME CampaignInv, NEW r \in Runs, RecordAttempt(r)
  PROVE  CampaignInv'
<1> DEFINE me == runs[r]
           attempt == [mission |-> Mission(r), kind |-> me.disposition.kind,
                       verified |-> me.disposition.verified]
           done == Append(me.attempts, attempt)
           next == [me EXCEPT !.at = AfterAttempt(done), !.attempts = done,
                              !.disposition = Nothing]
<1>1. runs[r].at = "record" /\ runs[r].at \in Attempting /\ UNCHANGED <<inputs, owner>>
  BY DEF RecordAttempt, Attempting
<1>2. PICK d \in Outputs : d = runs[r].output
  BY <1>1, NothingPublished DEF Under, Off
<1>3. PICK k : k = Number(r)
  OBVIOUS
<1>4. /\ Under(r) /\ Recorded(r) /\ Scoped(r) /\ Receipted(r)
      /\ me.before \in Snapshots /\ Last(r) = inputs /\ k \in Positions
      /\ k = Len(me.attempts) + 1 /\ Mission(r) = Schedule[k] /\ Mission(r) \in Missions
      /\ me.disposition \in Disposals
  BY <1>1, <1>3, InAttempt DEF Shaped
<1>5. /\ me.attempts \in Seq(AttemptRecords) /\ Len(me.attempts) \in Nat
  BY <1>4, NothingPublished
<1>6. attempt \in AttemptRecords /\ attempt.mission = Schedule[k]
      /\ attempt.kind = me.disposition.kind /\ attempt.verified = me.disposition.verified
  BY <1>4 DEF AttemptRecords, Disposals
<1> HIDE DEF attempt
<1>7. /\ done \in Seq(AttemptRecords) /\ Len(done) = k
      /\ \A n \in 1..Len(me.attempts) : done[n] = me.attempts[n]
      /\ done[k] = attempt
  BY <1>4, <1>5, <1>6, AppendProperties
<1> HIDE DEF done
<1>8. WriteThen(r, Attempt(d, k), attempt, next) /\ Attempt(d, k) \in PathsOf(d)
  BY <1>2, <1>3, <1>4, PathsWithin DEF RecordAttempt, attempt, done
<1>9. /\ FilesMove(r, d) /\ \A q : q # Attempt(d, k) => Kept(q)
      /\ Attempt(d, k) \notin DOMAIN files /\ Attempt(d, k) \in DOMAIN files'
      /\ \/ files'[Attempt(d, k)] = File(r, TRUE, attempt) /\ runs' = [runs EXCEPT ![r] = next]
         \/ files'[Attempt(d, k)] = File(r, FALSE, Nothing) /\ Halt(r)
  BY <1>2, <1>4, <1>8, Written
<1>10. /\ Kept(Usage(d)) /\ Kept(Summary(d))
       /\ \A n \in Positions : Kept(Evaluation(d, n)) /\ Kept(Seal(d, n))
       /\ \A n \in Positions : n # k => Kept(Attempt(d, n))
  BY <1>9, PathsApart
<1>11. OutputInv(d) /\ ~Whole(Summary(d)) /\ ~Whole(Summary(d))'
  BY <1>2, <1>4, <1>10, NothingPublished DEF Kept, Whole, Exists
<1>12. ASSUME NEW n \in Positions, n # k, Whole(Attempt(d, n))',
              files'[Attempt(d, n)].data.kind = "Executed"
       PROVE  Verdict(d, n, files[Attempt(d, n)].data.verified)'
  <2>1. Whole(Attempt(d, n)) /\ files'[Attempt(d, n)] = files[Attempt(d, n)]
    BY <1>10, <1>12 DEF Kept, Whole, Exists
  <2>2. Verdict(d, n, files[Attempt(d, n)].data.verified)
    BY <1>11, <1>12, <2>1 DEF OutputInv, CaptureKept
  <2> QED BY <1>10, <2>1, <2>2 DEF Verdict, Loadable, Kept, Whole, Exists
<1>13. CASE files'[Attempt(d, k)] = File(r, FALSE, Nothing) /\ Halt(r)
  <2>1. ~Whole(Attempt(d, k))'
    BY <1>13 DEF Whole, File
  <2>2. OutputInv(d)'
    BY <1>11, <1>12, <2>1 DEF OutputInv, CaptureKept
  <2> QED BY <1>1, <1>2, <1>4, <1>9, <1>13, <2>2, HaltKeepsTheRest
<1>14. CASE files'[Attempt(d, k)] = File(r, TRUE, attempt) /\ runs' = [runs EXCEPT ![r] = next]
  <2>1. files'[Attempt(d, k)].whole /\ files'[Attempt(d, k)].data = attempt
    BY <1>14 DEF File
  <2>2. AfterAttempt(done) \in {"load", "after"}
        /\ AfterAttempt(done) = IF k < Len(Schedule) THEN "load" ELSE "after"
    BY <1>7 DEF AfterAttempt
  <2>3. /\ next \in RunStates /\ next.at = AfterAttempt(done) /\ next.output = d
        /\ next.attempts = done /\ next.before = me.before
    BY ZenonT(40), <1>2, <1>7, <2>2 DEF CampaignInv, TypeInv, RunStates, Places
  <2> HIDE DEF next
  <2>4. runs'[r] = next
    BY <1>14 DEF CampaignInv, TypeInv
  <2>5. ASSUME attempt.kind = "Executed"
        PROVE  Verdict(d, k, files[Attempt(d, k)].data.verified)' /\ SeenInOrder(r, k)
    <3>1. Verdict(d, k, attempt.verified) /\ SeenInOrder(r, k)
      BY <1>1, <1>2, <1>4, <1>6, <2>5 DEF Recorded, Scoped
    <3> QED BY <1>4, <1>10, <2>1, <3>1 DEF Verdict, Loadable, Kept, Whole, Exists
  <2>6. OutputInv(d)'
    <3>1. CaptureKept(d)'
      BY <1>12, <2>1, <2>5 DEF CaptureKept
    <3> QED BY <1>11, <3>1 DEF OutputInv
  <2>7. Receipted(r)'
    BY <1>1, <1>2, <1>4, <1>10, <2>2, <2>3, <2>4 DEF Receipted, Reading, Whole, Exists, Kept
  <2>8. Shaped(r)'
    BY <1>4, <2>2, <2>3, <2>4 DEF Shaped, Attempting, Concluding
  <2>9. \A n \in 1..k : n \in Positions /\ (n = k \/ n \in 1..Len(me.attempts))
    BY <1>4, <1>5, ScheduleHasMissions
  <2>10. Recorded(r)'
    <3>1. ASSUME NEW n \in 1..k
          PROVE  /\ done[n].mission = Schedule[n]
                 /\ Whole(Attempt(d, n))' /\ files'[Attempt(d, n)].data = done[n]
      <4>1. CASE n = k
        BY <1>6, <1>7, <1>9, <2>1, <4>1 DEF Whole, Exists
      <4>2. CASE n # k
        BY <1>2, <1>4, <1>7, <1>10, <2>9, <4>2 DEF Recorded, Whole, Exists, Kept
      <4> QED BY <4>1, <4>2
    <3>2. ASSUME NEW n \in Positions, n > k PROVE Attempt(d, n) \notin DOMAIN files'
      <4>1. n # k /\ n > Len(me.attempts)
        BY <1>4, <1>5, <3>2, ScheduleHasMissions
      <4> QED BY <1>2, <1>4, <1>10, <4>1 DEF Recorded, Exists, Kept
    <3>3. /\ k \in Nat /\ k <= Len(Schedule)
          /\ next.at \in Attempting => k < Len(Schedule)
          /\ next.at \in Concluding => k = Len(Schedule)
          /\ next.at # "record"
      BY <1>4, <2>2, <2>3, ScheduleHasMissions DEF Attempting, Concluding
    <3> QED BY <1>7, <2>3, <2>4, <3>1, <3>2, <3>3 DEF Recorded, Exists
  <2>11. Scoped(r)'
    <3>1. Last(r)' = inputs
      BY <1>1, <2>2, <2>3, <2>4 DEF Last
    <3>2. ASSUME NEW n \in 1..k, done[n].kind = "Executed" PROVE SeenInOrder(r, n)'
      <4>1. SeenInOrder(r, n)
        BY <1>4, <1>7, <2>5, <2>9, <3>2 DEF Scoped
      <4>2. Kept(Evaluation(d, n))
        BY <1>10, <2>9
      <4> QED BY <1>2, <1>4, <2>3, <2>4, <3>1, <4>1, <4>2 DEF SeenInOrder, Whole, Exists, Kept
    <3>3. \A i \in Inputs : next.before.inputs[i] <= inputs[i]
      BY <1>4, <2>3 DEF Scoped
    <3> QED BY <1>7, <2>2, <2>3, <2>4, <3>1, <3>2, <3>3 DEF Scoped
  <2>12. RunInv(r)'
    BY <2>7, <2>8, <2>10, <2>11 DEF RunInv
  <2>13. Advances(r, next)
    BY <1>1, <1>2, <1>9, <1>14, <2>2, <2>3 DEF Advances, Off
  <2> QED BY <1>2, <2>6, <2>12, <2>13, AdvanceKeepsTheRest
<1> QED BY <1>9, <1>13, <1>14

----------------------------------------------------------------------------
(* Publication.                                                             *)

\* The last snapshot follows everything seen before.
LEMMA SnapshotAfterKeeps ==
  ASSUME CampaignInv, NEW r \in Runs, SnapshotAfter(r)
  PROVE  CampaignInv'
<1> DEFINE me == runs[r]
           next == [me EXCEPT !.at = "summary", !.after = Snapshot(r)]
<1>1. me.at = "after" /\ Under(r) /\ UNCHANGED <<inputs, owner, files>>
  BY DEF SnapshotAfter, Under, Off
<1>2. PICK taken \in Snapshots : taken = Snapshot(r) /\ taken.inputs = inputs
  BY SnapshotTaken DEF CampaignInv
<1>3. /\ next \in RunStates /\ next.at = "summary" /\ next.output = me.output
      /\ next.attempts = me.attempts /\ next.before = me.before /\ next.after = taken
  BY ZenonT(40), <1>2 DEF CampaignInv, TypeInv, RunStates, Places
<1>4. runs' = [runs EXCEPT ![r] = next]
  BY DEF SnapshotAfter
<1> HIDE DEF next
<1>5. runs'[r] = next
  BY <1>4 DEF CampaignInv, TypeInv
<1>6. Receipted(r) /\ Shaped(r) /\ Recorded(r) /\ Scoped(r)
  BY <1>1 DEF CampaignInv, RunInv, Concluding
<1>7. Receipted(r)'
  BY <1>1, <1>3, <1>5, <1>6 DEF Receipted, Reading, Whole, Exists
<1>8. Shaped(r)'
  BY <1>1, <1>3, <1>5, <1>6 DEF Shaped, Attempting, Concluding
<1>9. Recorded(r)'
  BY <1>1, <1>3, <1>5, <1>6 DEF Recorded, Attempting, Concluding, Whole, Exists
<1>10. Last(r)' = inputs /\ Last(r) = inputs
  BY <1>1, <1>2, <1>3, <1>5 DEF Last
<1>11. Scoped(r)'
  BY <1>1, <1>3, <1>5, <1>6, <1>10 DEF Scoped, SeenInOrder, Whole, Exists
<1>12. RunInv(r)'
  BY <1>7, <1>8, <1>9, <1>11 DEF RunInv
<1> QED BY <1>1, <1>3, <1>4, <1>12, QuietAdvance DEF Off

\* A scope that ends as it began was the same all along.
LEMMA SameScopeThroughout ==
  ASSUME NEW m \in Missions, NEW from \in [Inputs -> Versions], NEW b, NEW a,
         Between(m, from, b, a, from)
  PROVE  b = a /\ a = [source |-> from["source"], mission |-> 0]
<1>1. m \in Inputs /\ "source" \in Inputs
  BY ScheduleHasMissions
<1>2. from["source"] \in Int /\ from[m] = 0
  BY <1>1 DEF Between, Versions
<1>3. /\ a \in Evidences /\ b \in Evidences /\ a.source \in Int /\ b.source \in Int
      /\ a.mission \in {0, 1} /\ b.mission \in {0, 1}
  BY DEF Between, Evidences, Versions
<1>4. a.source = from["source"] /\ b.source = from["source"] /\ a.mission = 0 /\ b.mission = 0
  BY <1>2, <1>3 DEF Between
<1> QED BY <1>3, <1>4 DEF Evidences

\* The summary tells the records, of one scope if it says so.
LEMMA SummariseKeeps ==
  ASSUME CampaignInv, NEW r \in Runs, Summarise(r)
  PROVE  CampaignInv'
<1> DEFINE me == runs[r]
           next == [Fresh EXCEPT !.at = "done", !.output = me.output]
           summary == [attempts |-> me.attempts, before |-> me.before,
                       integrity |-> Integrity(me.before, me.after)]
<1>1. me.at = "summary" /\ Under(r) /\ UNCHANGED <<inputs, owner>>
  BY DEF Summarise, Under, Off
<1>2. PICK d \in Outputs : d = me.output /\ owner[d] = r
  BY <1>1, NothingPublished
<1>3. PICK data : data = summary
  OBVIOUS
<1>4. /\ data.attempts = me.attempts /\ data.before = me.before
      /\ data.integrity => me.before = me.after
  BY <1>3 DEF Integrity
<1>5. /\ Recorded(r) /\ OutputInv(d) /\ Scoped(r) /\ Receipted(r)
      /\ me.before \in Snapshots /\ me.after \in Snapshots
      /\ me.attempts \in Seq(AttemptRecords) /\ Len(me.attempts) = Len(Schedule)
  BY <1>1, <1>2, NothingPublished DEF CampaignInv, RunInv, Shaped, Concluding, Recorded
<1>6. WriteThen(r, Summary(d), data, next) /\ Summary(d) \in PathsOf(d)
  BY <1>2, <1>3, PathsWithin DEF Summarise
<1> HIDE DEF summary, next
<1>7. /\ FilesMove(r, d) /\ \A q : q # Summary(d) => Kept(q)
      /\ \/ files'[Summary(d)] = File(r, TRUE, data) /\ runs' = [runs EXCEPT ![r] = next]
         \/ files'[Summary(d)] = File(r, FALSE, Nothing) /\ Halt(r)
  BY <1>1, <1>2, <1>6, Written
<1>8. AttemptsKept(d) /\ Kept(Usage(d))
  BY <1>7, PathsApart DEF AttemptsKept
<1>9. CaptureKept(d)'
  BY <1>5, <1>8 DEF OutputInv, CaptureKept, Verdict, Loadable, AttemptsKept, Kept, Whole, Exists
<1>10. CASE files'[Summary(d)] = File(r, FALSE, Nothing) /\ Halt(r)
  <2>1. ~Whole(Summary(d))'
    BY <1>10 DEF Whole, File
  <2>2. OutputInv(d)'
    BY <1>9, <2>1 DEF OutputInv
  <2> QED BY <1>1, <1>2, <1>7, <1>10, <2>2, HaltKeepsTheRest
<1>11. CASE files'[Summary(d)] = File(r, TRUE, data) /\ runs' = [runs EXCEPT ![r] = next]
  <2>1. files'[Summary(d)].data = data
    BY <1>11 DEF File
  <2>2. /\ next \in RunStates /\ next.at = "done" /\ next.output = d /\ next.attempts = <<>>
    <3>1. <<>> \in Seq(AttemptRecords)
      BY EmptySeq
    <3> QED BY <1>2, <3>1 DEF next, Fresh, RunStates, Places
  <2>3. runs'[r] = next
    BY <1>11 DEF CampaignInv, TypeInv
  <2>4. RunInv(r)'
    BY <1>1, <1>2, <1>5, <1>8, <2>2, <2>3
       DEF RunInv, Receipted, Shaped, Under, Off, Reading, Attempting, Concluding, Whole, Exists, Kept
  <2>5. ASSUME NEW n \in Positions
        PROVE  /\ data.attempts[n].mission = Schedule[n]
               /\ Whole(Attempt(d, n))' /\ files'[Attempt(d, n)].data = data.attempts[n]
    <3>1. n \in 1..Len(me.attempts)
      BY <1>5, ScheduleHasMissions
    <3> QED BY <1>2, <1>4, <1>5, <1>8, <3>1 DEF Recorded, AttemptsKept, Kept, Whole, Exists
  <2>6. ToldInFull(d)'
    BY <1>4, <1>5, <2>1, <2>5 DEF ToldInFull
  <2>7. ASSUME data.integrity, NEW n \in Positions, data.attempts[n].kind = "Executed"
        PROVE  LET e == files'[Evaluation(d, n)].data
               IN  e.before = e.after
                   /\ e.after = [source |-> data.before.inputs["source"], mission |-> 0]
    <3>1. n \in 1..Len(me.attempts) /\ Schedule[n] \in Missions
      BY <1>5, ScheduleHasMissions
    <3>2. SeenInOrder(r, n) /\ Last(r) = me.before.inputs /\ me.before.inputs \in [Inputs -> Versions]
      BY <1>1, <1>4, <1>5, <2>7, <3>1 DEF Scoped, Last, Snapshots
    <3>3. files'[Evaluation(d, n)] = files[Evaluation(d, n)]
      BY <1>2, <1>8, <3>2 DEF SeenInOrder, AttemptsKept, Kept, Whole, Exists
    <3> QED BY <1>2, <1>4, <3>1, <3>2, <3>3, SameScopeThroughout DEF SeenInOrder
  <2>8. OneScope(d)'
    BY <2>1, <2>7 DEF OneScope
  <2>9. OutputInv(d)'
    BY <1>1, <1>2, <1>9, <2>2, <2>3, <2>6, <2>8, ScheduleHasMissions DEF OutputInv
  <2>10. Advances(r, next)
    BY <1>1, <1>2, <1>7, <1>11, <2>2 DEF Advances, Off
  <2> QED BY <1>2, <2>4, <2>9, <2>10, AdvanceKeepsTheRest
<1> QED BY <1>7, <1>10, <1>11

----------------------------------------------------------------------------
(* The surroundings.                                                        *)

\* A run may stop anywhere.
LEMMA StopKeeps ==
  ASSUME CampaignInv, NEW r \in Runs, Stop(r)
  PROVE  CampaignInv'
BY QuietHalt DEF Stop, Under, Off

\* A refused request leaves no output.
LEMMA RefuseRequestKeeps ==
  ASSUME CampaignInv, NEW r \in Runs, NEW d, RefuseRequest(r, d)
  PROVE  CampaignInv'
<1>1. runs[r].at = "idle" /\ UNCHANGED <<inputs, owner, files>> /\ Halt(r)
  BY DEF RefuseRequest
<1>2. Stopped \in RunStates /\ Stopped.at = "stopped" /\ Stopped.attempts = <<>>
  <2>1. <<>> \in Seq(AttemptRecords)
    BY EmptySeq
  <2> QED BY <2>1 DEF Stopped, Fresh, RunStates, Places
<1>3. runs' = [runs EXCEPT ![r] = Stopped]
  BY <1>1 DEF Halt, Stopped
<1> USE DEF CampaignInv
<1>4. /\ runs' \in [Runs -> RunStates] /\ runs'[r] = Stopped
      /\ \A q \in Runs \ {r} : runs'[q] = runs[q]
  BY <1>2, <1>3 DEF TypeInv
<1>5. TypeInv'
  BY <1>1, <1>4 DEF TypeInv, IsFile
<1>6. OwnedInv'
  <2>1. \A e \in Outputs : owner[e] # NoRun => owner[e] \in Runs /\ owner[e] # r
    BY <1>1 DEF OwnedInv, TypeInv
  <2> QED BY <1>1, <1>2, <1>4, <2>1 DEF OwnedInv, Off, Exists
<1>7. RunInv(r)'
  BY <1>2, <1>4 DEF RunInv, Receipted, Shaped, Reading, Attempting, Concluding, Under, Off
<1>8. InputsMove /\ \A p : Kept(p)
  BY <1>1 DEF InputsMove, TypeInv, Kept, Versions
<1>9. ASSUME NEW q \in Runs, q # r PROVE RunInv(q)'
  BY <1>4, <1>8, <1>9, RunIsKept
<1>10. ASSUME NEW e \in Outputs PROVE OutputInv(e)'
  <2>1. Whole(Summary(e)) => runs'[owner[e]].at = runs[owner[e]].at
    <3>1. ASSUME Whole(Summary(e)) PROVE owner[e] \in Runs /\ owner[e] # r
      BY <1>1, <3>1 DEF OutputInv, TypeInv
    <3> QED BY <1>4, <3>1
  <2>2. Kept(Summary(e)) /\ AttemptsKept(e)
    BY <1>8 DEF AttemptsKept
  <2> QED BY <1>1, <2>1, <2>2, OutputIsKept
<1> QED BY <1>5, <1>6, <1>7, <1>9, <1>10

\* An output is reserved: nothing of it exists, except the receipt of an earlier run.
LEMMA ReserveKeeps ==
  ASSUME CampaignInv, NEW r \in Runs, NEW d \in Outputs, Reserve(r, d)
  PROVE  CampaignInv'
<1> DEFINE next == [runs[r] EXCEPT !.at = "request", !.output = d]
<1>1. /\ runs[r].at = "idle" /\ owner[d] = NoRun /\ owner' = [owner EXCEPT ![d] = r]
      /\ UNCHANGED <<inputs, files>> /\ TypeInv /\ OwnedInv /\ RunInv(r)
  BY DEF Reserve, CampaignInv
<1>2. /\ next \in RunStates /\ next.at = "request" /\ next.output = d
      /\ next.attempts = runs[r].attempts /\ runs' = [runs EXCEPT ![r] = next]
  <2>1. runs[r] \in RunStates
    BY <1>1 DEF TypeInv
  <2>2. /\ next \in RunStates /\ next.at = "request" /\ next.output = d
        /\ next.attempts = runs[r].attempts
    BY <2>1 DEF RunStates, Places
  <2>3. runs' = [runs EXCEPT ![r] = next]
    BY <1>1 DEF Reserve, TypeInv
  <2> QED BY <2>2, <2>3
<1> HIDE DEF next
<1>3. /\ runs' \in [Runs -> RunStates] /\ runs'[r] = next
      /\ \A q \in Runs \ {r} : runs'[q] = runs[q]
  BY <1>1, <1>2 DEF TypeInv
<1>4. /\ owner' \in [Outputs -> Runs \cup {NoRun}] /\ owner'[d] = r /\ r # NoRun
      /\ \A e \in Outputs \ {d} : owner'[e] = owner[e]
  BY <1>1, ScheduleHasMissions DEF TypeInv
<1>5. TypeInv'
  BY <1>1, <1>3, <1>4 DEF TypeInv, IsFile
<1>6. \A e \in Outputs : owner[e] # NoRun => owner[e] \in Runs /\ owner[e] # r
  BY <1>1 DEF OwnedInv, TypeInv
<1>7. OwnedInv'
  <2>1. ASSUME NEW q \in Runs, runs'[q].at \notin Off
        PROVE  runs'[q].output \in Outputs /\ owner'[runs'[q].output] = q
    <3>1. CASE q = r
      BY <1>2, <1>3, <1>4, <3>1
    <3>2. CASE q # r
      <4>1. runs'[q] = runs[q] /\ runs[q].output \in Outputs /\ owner[runs[q].output] = q
        BY <1>1, <1>3, <2>1, <3>2 DEF OwnedInv
      <4>2. q # NoRun
        BY ScheduleHasMissions
      <4> QED BY <1>1, <1>4, <4>1, <4>2
    <3> QED BY <3>1, <3>2
  <2>2. ASSUME NEW e \in Outputs, owner'[e] # NoRun
        PROVE  /\ runs'[owner'[e]].at # "idle"
               /\ runs'[owner'[e]].at # "stopped" => runs'[owner'[e]].output = e
    BY <1>1, <1>2, <1>3, <1>4, <1>6, <2>2 DEF OwnedInv
  <2>3. ASSUME NEW e \in Outputs, NEW p \in PathsOf(e), Exists(p), p # Usage(e)
        PROVE  owner'[e] # NoRun /\ files[p].by = owner'[e]
    BY <1>1, <1>4, <2>3 DEF OwnedInv
  <2> QED BY <1>1, <2>1, <2>2, <2>3 DEF OwnedInv, Exists
<1>8. InputsMove /\ \A p : Kept(p)
  BY <1>1 DEF InputsMove, TypeInv, Kept, Versions
<1>9. next.attempts = <<>>
  BY <1>1, <1>2 DEF RunInv, Shaped, Attempting, Concluding
<1>10. RunInv(r)'
  <2>1. Len(<<>>) = 0 /\ Len(Schedule) \in Nat /\ 1..0 = {}
    BY EmptySeq, ScheduleHasMissions
  <2>2. \A n \in Positions : ~Exists(Attempt(d, n))
    BY <1>1, PathsApart, PathsWithin DEF OwnedInv
  <2>3. Recorded(r)'
    BY <1>1, <1>2, <1>3, <1>9, <2>1, <2>2 DEF Recorded, Attempting, Concluding, Exists
  <2> QED BY <1>2, <1>3, <1>9, <2>3
          DEF RunInv, Receipted, Shaped, Reading, Attempting, Concluding
<1>11. ASSUME NEW q \in Runs, q # r PROVE RunInv(q)'
  BY <1>1, <1>3, <1>8, <1>11, RunIsKept DEF CampaignInv
<1>12. ASSUME NEW e \in Outputs PROVE OutputInv(e)'
  <2>1. OutputInv(e) /\ Kept(Summary(e)) /\ AttemptsKept(e)
    BY <1>8 DEF AttemptsKept, CampaignInv
  <2>2. CASE e # d
    <3>1. Whole(Summary(e)) => runs'[owner[e]].at = runs[owner[e]].at
      BY <1>3, <1>6, <2>1 DEF OutputInv
    <3> QED BY <1>4, <2>1, <2>2, <3>1, OutputIsKept
  <2>3. CASE e = d
    <3>1. ~Whole(Summary(d))
      BY <1>1, PathsApart, PathsWithin DEF OwnedInv, Whole
    <3>2. CaptureKept(d)'
      BY <1>1, <2>1, <2>3 DEF OutputInv, CaptureKept, Verdict, Loadable, Whole, Exists
    <3> QED BY <1>1, <2>3, <3>1, <3>2 DEF OutputInv, Whole, Exists
  <2> QED BY <2>2, <2>3
<1> QED BY <1>5, <1>7, <1>10, <1>11, <1>12 DEF CampaignInv

\* An edit moves an input away from what was declared, and nothing else.
LEMMA DriftKeeps ==
  ASSUME CampaignInv, NEW i \in Inputs, Drift(i)
  PROVE  CampaignInv'
<1>1. /\ UNCHANGED <<owner, files, runs>> /\ inputs[i] = 0 /\ inputs' = [inputs EXCEPT ![i] = 1]
      /\ TypeInv /\ OwnedInv
  BY DEF Drift, CampaignInv
<1>2. InputsMove /\ \A p : Kept(p)
  BY <1>1 DEF InputsMove, TypeInv, Kept, Versions
<1>3. TypeInv'
  BY <1>1, <1>2 DEF TypeInv, IsFile, InputsMove
<1>4. OwnedInv'
  BY <1>1 DEF OwnedInv, Exists
<1>5. \A r \in Runs : RunInv(r)'
  BY <1>1, <1>2, RunIsKept DEF CampaignInv
<1>6. ASSUME NEW d \in Outputs PROVE OutputInv(d)'
  <2>1. Kept(Summary(d)) /\ AttemptsKept(d) /\ OutputInv(d)
    BY <1>2 DEF AttemptsKept, CampaignInv
  <2> QED BY <1>1, <2>1, OutputIsKept
<1> QED BY <1>3, <1>4, <1>5, <1>6 DEF CampaignInv

\* What a stopped run left is removed: no run at work has it, and no other output loses a file.
LEMMA DiscardKeeps ==
  ASSUME CampaignInv, NEW d \in Outputs, Discard(d)
  PROVE  /\ CampaignInv'
         /\ \A p : p \in DOMAIN files' <=> p \in DOMAIN files /\ (p[2] # d \/ p = Usage(d))
         /\ \A e \in Outputs : Kept(Usage(e))
         /\ \A e \in Outputs \ {d} : \A p \in PathsOf(e) : Kept(p)
<1>1. /\ owner[d] # NoRun /\ runs[owner[d]].at = "stopped"
      /\ owner' = [owner EXCEPT ![d] = NoRun]
      /\ files' = [p \in {q \in DOMAIN files : q[2] # d \/ q = Usage(d)} |-> files[p]]
      /\ UNCHANGED <<inputs, runs>> /\ TypeInv /\ OwnedInv
  BY DEF Discard, CampaignInv
<1>2. /\ \A p : p \in DOMAIN files' <=> p \in DOMAIN files /\ (p[2] # d \/ p = Usage(d))
      /\ \A p \in DOMAIN files' : files'[p] = files[p]
      /\ files' = [p \in DOMAIN files' |-> files'[p]]
  BY <1>1
<1>3. /\ owner' \in [Outputs -> Runs \cup {NoRun}] /\ owner'[d] = NoRun
      /\ \A e \in Outputs \ {d} : owner'[e] = owner[e]
  BY <1>1 DEF TypeInv
<1>4. \A e \in Outputs \ {d} : \A p \in PathsOf(e) : Kept(p)
  <2>1. ASSUME NEW e \in Outputs, e # d, NEW p \in PathsOf(e) PROVE p[2] # d
    BY <2>1, PathNamesOutput
  <2> QED BY <1>2, <2>1 DEF Kept
<1>5. \A e \in Outputs : Kept(Usage(e))
  <2>1. Kept(Usage(d))
    BY <1>2 DEF Kept
  <2> QED BY <1>4, <2>1, PathsWithin
<1>6. TypeInv'
  BY <1>1, <1>2, <1>3 DEF TypeInv, IsFile
<1>7. \A q \in Runs : runs[q].at \notin Off => runs[q].output # d /\ runs[q].output \in Outputs
  BY <1>1 DEF OwnedInv, Off
<1>8. OwnedInv'
  <2>1. ASSUME NEW e \in Outputs, NEW p \in PathsOf(e), p \in DOMAIN files', p # Usage(e)
        PROVE  owner'[e] # NoRun /\ files'[p].by = owner'[e]
    <3>1. e # d
      BY <1>2, <2>1, PathNamesOutput
    <3> QED BY <1>1, <1>2, <1>3, <2>1, <3>1 DEF OwnedInv, Exists
  <2> QED BY <1>1, <1>3, <1>7, <2>1 DEF OwnedInv, Exists
<1>9. ASSUME NEW q \in Runs PROVE RunInv(q)'
  <2>1. InputsMove
    BY <1>1 DEF InputsMove, TypeInv, Versions
  <2>2. RunInv(q) /\ runs'[q] = runs[q]
    BY <1>1 DEF CampaignInv
  <2>3. runs[q].at \notin Off => \A p \in PathsOf(runs[q].output) : Kept(p)
    BY <1>4, <1>7
  <2> QED BY <1>1, <2>1, <2>2, <2>3, RunIsKept
<1>10. ASSUME NEW e \in Outputs PROVE OutputInv(e)'
  <2>1. CASE e = d
    <3>1. /\ Summary(d) \notin DOMAIN files'
          /\ \A n \in Positions : Attempt(d, n) \notin DOMAIN files'
      <4>1. /\ Summary(d)[2] = d /\ Summary(d) # Usage(d)
            /\ \A n \in Positions : Attempt(d, n)[2] = d /\ Attempt(d, n) # Usage(d)
        BY DEF Summary, Attempt, Usage
      <4> QED BY <1>2, <4>1
    <3> QED BY <2>1, <3>1 DEF OutputInv, CaptureKept, Whole, Exists
  <2>2. CASE e # d
    <3>1. OutputInv(e) /\ Kept(Summary(e)) /\ AttemptsKept(e)
      BY <1>4, <2>2, PathsWithin DEF CampaignInv, AttemptsKept
    <3> QED BY <1>1, <1>3, <2>2, <3>1, OutputIsKept
  <2> QED BY <2>1, <2>2
<1> QED BY <1>2, <1>4, <1>5, <1>6, <1>8, <1>9, <1>10 DEF CampaignInv

----------------------------------------------------------------------------
(* The invariant.                                                           *)

\* The invariant holds when nothing has run.
LEMMA CampaignBegins ==
  ASSUME Init
  PROVE  CampaignInv
<1>1. <<>> \in Seq(AttemptRecords) /\ Len(<<>>) = 0
  BY EmptySeq
<1>2. Fresh \in RunStates /\ Fresh.at = "idle" /\ Fresh.attempts = <<>>
  BY <1>1 DEF Fresh, RunStates, Places
<1>3. DOMAIN files = {} /\ files = [p \in DOMAIN files |-> files[p]]
  BY DEF Init
<1>4. TypeInv
  BY <1>2, <1>3 DEF Init, TypeInv, Versions
<1>5. OwnedInv
  BY <1>2, <1>3 DEF Init, OwnedInv, Off, Exists
<1>6. \A r \in Runs : RunInv(r)
  BY <1>2 DEF Init, RunInv, Receipted, Shaped, Under, Off, Reading, Attempting, Concluding
<1>7. \A d \in Outputs : OutputInv(d)
  BY <1>3 DEF OutputInv, CaptureKept, Whole, Exists
<1> QED BY <1>4, <1>5, <1>6, <1>7 DEF CampaignInv

\* Every step keeps it.
LEMMA CampaignStep ==
  ASSUME CampaignInv, [Next]_vars
  PROVE  CampaignInv'
<1>1. CASE UNCHANGED vars
  BY SMTT(30), <1>1 DEF vars, CampaignInv, TypeInv, IsFile, OwnedInv, RunInv, Receipted, Shaped, Under,
              Recorded, Scoped, SeenInOrder, Last, Mission, Number, Verdict, Loadable, OutputInv,
              CaptureKept, ToldInFull, OneScope, Whole, Exists
<1>2. ASSUME NEW r \in Runs, Step(r) PROVE CampaignInv'
  <2>1. CASE \E d \in Outputs : Reserve(r, d) \/ RefuseRequest(r, d)
    BY <2>1, ReserveKeeps, RefuseRequestKeeps
  <2>2. CASE WriteRequest(r) \/ CreateReceipt(r) \/ FillReceipt(r)
    BY <2>2, WriteRequestKeeps, CreateReceiptKeeps, FillReceiptKeeps
  <2>3. CASE CheckUsage(r) \/ ListReceipts(r) \/ SnapshotBefore(r)
    BY <2>3, CheckUsageKeeps, ListReceiptsKeeps, SnapshotBeforeKeeps
  <2>4. CASE LoadMission(r) \/ \E kind \in Refusals : RefuseAttempt(r, kind)
    BY <2>4, LoadMissionKeeps, RefuseAttemptKeeps
  <2>5. CASE TakeOff(r) \/ \E landed \in BOOLEAN : Touchdown(r, landed)
    BY <2>5, TakeOffKeeps, TouchdownKeeps
  <2>6. CASE SaveCapture(r) \/ LoseCapture(r) \/ RecordAttempt(r)
    BY <2>6, SaveCaptureKeeps, LoseCaptureKeeps, RecordAttemptKeeps
  <2>7. CASE SnapshotAfter(r) \/ Summarise(r) \/ Stop(r)
    BY <2>7, SnapshotAfterKeeps, SummariseKeeps, StopKeeps
  <2> QED BY <1>2, <2>1, <2>2, <2>3, <2>4, <2>5, <2>6, <2>7 DEF Step
<1>3. CASE \E i \in Inputs : Drift(i)
  BY <1>3, DriftKeeps
<1>4. CASE \E d \in Outputs : Discard(d)
  BY <1>4, DiscardKeeps
<1> QED BY <1>1, <1>2, <1>3, <1>4 DEF Next, Ended

\* So it always holds.
LEMMA CampaignInvariant == Spec => []CampaignInv
<1>1. Init => CampaignInv
  BY CampaignBegins
<1>2. CampaignInv /\ [Next]_vars => CampaignInv'
  BY CampaignStep
<1> QED BY <1>1, <1>2, PTL DEF Spec

----------------------------------------------------------------------------
(* What is on disk.                                                         *)

\* The invariant says of each output what the promises say of all of them.
LEMMA InvTellsAttempts ==
  ASSUME CampaignInv
  PROVE  DiskTellsAttempts
<1>1. ASSUME NEW d \in Outputs, NEW n \in Positions, Whole(Attempt(d, n))
      PROVE  /\ files[Attempt(d, n)] = File(owner[d], TRUE, files[Attempt(d, n)].data)
             /\ files[Attempt(d, n)].by = owner[d]
  <2>1. Attempt(d, n) \in DOMAIN files /\ IsFile(files[Attempt(d, n)])
    BY <1>1 DEF CampaignInv, TypeInv, Whole, Exists
  <2>2. files[Attempt(d, n)].by = owner[d] /\ files[Attempt(d, n)].whole = TRUE
    BY <1>1, <2>1, PathsApart, PathsWithin DEF CampaignInv, OwnedInv, Whole, Exists, IsFile
  <2> QED BY <2>1, <2>2 DEF IsFile, File
<1>2. ASSUME NEW d \in Outputs, NEW p \in PathsOf(d), Whole(p), p # Usage(d)
      PROVE  files[p].by = owner[d]
  BY <1>2 DEF CampaignInv, OwnedInv, Whole
<1>3. SummarySpeaksForAttempts
  <2> SUFFICES ASSUME NEW d \in Outputs, Whole(Summary(d))
               PROVE  /\ Len(files[Summary(d)].data.attempts) = Len(Schedule)
                      /\ \A n \in Positions :
                           /\ files[Summary(d)].data.attempts[n].mission = Schedule[n]
                           /\ Whole(Attempt(d, n))
                           /\ files[Attempt(d, n)]
                                = File(files[Summary(d)].by, TRUE, files[Summary(d)].data.attempts[n])
    BY DEF SummarySpeaksForAttempts, Published
  <2>1. ToldInFull(d)
    BY DEF CampaignInv, OutputInv
  <2>2. files[Summary(d)].by = owner[d]
    BY <1>2, PathsApart, PathsWithin
  <2> QED BY <1>1, <2>1, <2>2 DEF ToldInFull
<1>4. ExecutedIsLoadable
  <2> SUFFICES ASSUME NEW d \in Outputs, NEW n \in Positions, Whole(Attempt(d, n)),
                      files[Attempt(d, n)].data.kind = "Executed"
               PROVE  /\ Loadable(d, n)
                      /\ files[Evaluation(d, n)].by = files[Attempt(d, n)].by
                      /\ files[Evaluation(d, n)].data.verified = files[Attempt(d, n)].data.verified
    BY DEF ExecutedIsLoadable
  <2>1. Verdict(d, n, files[Attempt(d, n)].data.verified)
    BY DEF CampaignInv, OutputInv, CaptureKept
  <2>2. Whole(Evaluation(d, n))
    BY <2>1 DEF Verdict, Loadable
  <2>3. files[Evaluation(d, n)].by = owner[d]
    BY <1>2, <2>2, PathsApart, PathsWithin
  <2> QED BY <1>1, <2>1, <2>3 DEF Verdict
<1>5. CountsUnderOneScope
  BY DEF CampaignInv, OutputInv, OneScope, CountsUnderOneScope, Published
<1> QED BY <1>3, <1>4, <1>5 DEF DiskTellsAttempts

\* For every schedule and number of runs, whatever fails, crashes or drifts: a summary on disk
\* tells every attempt as its record does, an attempt recorded as executed has a capture of the
\* same run that loads with that verdict, and a summary that claims integrity counts only episodes
\* of the inputs the campaign started with (evaluate_collection_with_executor, save_evaluation).
THEOREM DiskTellsTheTruth == Spec => []DiskTellsAttempts
BY CampaignInvariant, InvTellsAttempts, PTL

\* Nobody has seen a mission without a complete receipt of its own (pd-missions collection.rs).
LEMMA InvRecordsExposure ==
  ASSUME CampaignInv
  PROVE  ExposureRecorded
BY DEF CampaignInv, RunInv, Receipted, ExposureRecorded

\* For every number of runs and outputs: a run that reads a mission, or has read one, has a
\* complete receipt on disk that says so, under the name of the output it was given
\* (record_collection_usage before CollectionMissions are loaded).
THEOREM ExposuresAreRecorded == Spec => []ExposureRecorded
BY CampaignInvariant, InvRecordsExposure, PTL

----------------------------------------------------------------------------
(* Receipts, and the ledger.                                                *)

\* No receipt that is complete is lost or changed; what the ledger reads of an output is the same.
ReceiptsKept == \A d \in Outputs : Whole(Usage(d)) => files'[Usage(d)] = files[Usage(d)]
LedgerKept(d) ==
  /\ Whole(Summary(d))' <=> Whole(Summary(d))
  /\ \A n \in Positions : Whole(Attempt(d, n))' <=> Whole(Attempt(d, n))

\* A file that is kept is whole as before.
LEMMA KeptWhole ==
  ASSUME NEW p, Kept(p)
  PROVE  /\ Whole(p)' <=> Whole(p)
         /\ Whole(p) => files'[p] = files[p]
BY DEF Kept, Whole, Exists

\* A step that touches neither records nor summaries.
LEMMA StepOutsideLedger ==
  ASSUME CampaignInv, NEW r \in Runs,
         \/ WriteRequest(r) \/ CreateReceipt(r) \/ FillReceipt(r)
         \/ SaveCapture(r) \/ LoseCapture(r)
  PROVE  /\ UNCHANGED owner /\ ReceiptsKept
         /\ \A d \in Outputs : LedgerKept(d)
<1>1. Under(r) /\ UNCHANGED owner
  BY DEF Under, Off, WriteRequest, CreateReceipt, FillReceipt, SaveCapture, LoseCapture
<1>2. PICK d \in Outputs : d = runs[r].output
  BY <1>1, NothingPublished
<1>3. ASSUME NEW k, \A q : q \notin {Request(d), Usage(d), Evaluation(d, k), Seal(d, k)} => Kept(q)
      PROVE  \A e \in Outputs : LedgerKept(e)
  <2>1. ASSUME NEW e \in Outputs, NEW n \in Positions
        PROVE  Kept(Summary(e)) /\ Kept(Attempt(e, n))
    BY <1>3, PathsApart
  <2>2. \A e \in Outputs : Kept(Summary(e))
    BY <2>1, ScheduleHasMissions
  <2> QED BY <2>1, <2>2, KeptWhole DEF LedgerKept
<1>4. CASE WriteRequest(r)
  <2>1. WriteThen(r, Request(d), Nothing, [runs[r] EXCEPT !.at = "usage"])
        /\ Request(d) \in PathsOf(d)
    BY <1>2, <1>4, PathsWithin DEF WriteRequest
  <2>2. \A q : q # Request(d) => Kept(q)
    BY <1>1, <1>2, <2>1, Written
  <2>3. ReceiptsKept
    BY <2>2, PathsApart, KeptWhole DEF ReceiptsKept
  <2> QED BY <1>1, <1>3, <2>2, <2>3
<1>5. CASE CreateReceipt(r)
  <2>1. /\ \A q : q # Usage(d) => Kept(q)
        /\ \A q \in DOMAIN files : files'[q] = files[q]
    BY <1>2, <1>5 DEF CreateReceipt, Exists, Put, Kept
  <2>2. ReceiptsKept
    BY <2>1 DEF ReceiptsKept, Whole, Exists
  <2> QED BY <1>1, <1>3, <2>1, <2>2
<1>6. CASE FillReceipt(r)
  <2>1. \A q : q # Usage(d) => Kept(q)
    BY <1>2, <1>6 DEF FillReceipt, Kept, CampaignInv, TypeInv
  <2>2. ReceiptsKept
    BY <1>6, FillReceiptKeeps DEF ReceiptsKept
  <2> QED BY <1>1, <1>3, <2>1, <2>2
<1>7. CASE SaveCapture(r) \/ LoseCapture(r)
  <2>1. PICK k : k = Number(r)
    OBVIOUS
  <2>2. PICK evaluation \in {"absent", "torn", "whole"}, seal \in {"absent", "torn", "whole"} :
          PutCapture(r, evaluation, seal) /\ runs[r].at = "save"
    BY <1>7 DEF SaveCapture, LoseCapture
  <2>3. \A q : q \notin {Evaluation(d, k), Seal(d, k)} => Kept(q)
    BY <1>1, <1>2, <2>1, <2>2, CapturePut
  <2>4. ReceiptsKept
    BY <2>3, PathsApart, KeptWhole DEF ReceiptsKept
  <2> QED BY <1>1, <1>3, <2>3, <2>4
<1> QED BY <1>4, <1>5, <1>6, <1>7

\* Most steps write nothing.
LEMMA QuietStep ==
  ASSUME UNCHANGED files
  PROVE  ReceiptsKept /\ \A d \in Outputs : LedgerKept(d)
BY DEF ReceiptsKept, LedgerKept, Whole, Exists

\* The records of an output, and whether its summary is complete, as the ledger reads them.
RecordsIn(d) == {n \in Positions : Whole(Attempt(d, n))}
CountsOf == [d \in Outputs |-> Cardinality({n \in Positions : Whole(Attempt(d, n))})]
TellingOf == [d \in Outputs |-> Whole(Summary(d))]

\* What the ledger maps to is Boolean.
LEMMA WholeIsBoolean ==
  ASSUME NEW p
  PROVE  Whole(p) \in BOOLEAN /\ Whole(p)' \in BOOLEAN
BY Zenon DEF Whole

\* An output whose records and summary are kept reads the same in the ledger.
LEMMA LedgerReads ==
  ASSUME NEW d \in Outputs, LedgerKept(d)
  PROVE  RecordsIn(d)' = RecordsIn(d) /\ Whole(Summary(d))' = Whole(Summary(d))
<1>1. RecordsIn(d)' = RecordsIn(d)
  BY DEF RecordsIn, LedgerKept
<1>2. Whole(Summary(d))' = Whole(Summary(d))
  <2>1. Whole(Summary(d)) \in BOOLEAN /\ Whole(Summary(d))' \in BOOLEAN
    BY WholeIsBoolean
  <2>2. Whole(Summary(d))' <=> Whole(Summary(d))
    BY DEF LedgerKept
  <2> QED BY <2>1, <2>2
<1> QED BY <1>1, <1>2

\* Where all outputs are kept and their owners too, the ledger stutters.
LEMMA LedgerStutters ==
  ASSUME UNCHANGED owner, \A d \in Outputs : LedgerKept(d)
  PROVE  UNCHANGED Ledger!ledgerVars
<1>1. \A d \in Outputs : RecordsIn(d)' = RecordsIn(d) /\ Whole(Summary(d))' = Whole(Summary(d))
  BY LedgerReads
<1>2. CountsOf' = CountsOf
  BY <1>1 DEF RecordsIn, CountsOf
<1>3. TellingOf' = TellingOf
  BY <1>1 DEF TellingOf
<1> QED BY <1>2, <1>3 DEF Ledger!ledgerVars, CountsOf, TellingOf

\* The records on disk of a run at work are its first attempts.
LEMMA RecordsAreTheFirst ==
  ASSUME CampaignInv, NEW r \in Runs, Under(r), NEW d, d = runs[r].output
  PROVE  /\ RecordsIn(d) = 1..Len(runs[r].attempts)
         /\ Cardinality(RecordsIn(d)) = Len(runs[r].attempts)
<1>1. Recorded(r) /\ Len(runs[r].attempts) \in Nat
  BY NothingPublished
<1>2. RecordsIn(d) = 1..Len(runs[r].attempts)
  <2>1. \A n \in 1..Len(runs[r].attempts) : n \in Positions /\ Whole(Attempt(d, n))
    BY <1>1, ScheduleHasMissions DEF Recorded
  <2>2. \A n \in Positions : Whole(Attempt(d, n)) => n \in 1..Len(runs[r].attempts)
    BY <1>1, ScheduleHasMissions DEF Recorded, Whole
  <2> QED BY <2>1, <2>2 DEF RecordsIn
<1>3. Cardinality(1..Len(runs[r].attempts)) = Len(runs[r].attempts)
  <2>1. 1 \in Int /\ Len(runs[r].attempts) \in Int
    BY <1>1
  <2> QED BY <1>1, <2>1, FS_Interval
<1> QED BY <1>2, <1>3

\* Recording an attempt records one in the ledger, the next.
LEMMA RecordIsOne ==
  ASSUME CampaignInv, NEW r \in Runs, RecordAttempt(r)
  PROVE  ReceiptsKept /\ [Ledger!Next]_(Ledger!ledgerVars)
<1> DEFINE me == runs[r]
           attempt == [mission |-> Mission(r), kind |-> me.disposition.kind,
                       verified |-> me.disposition.verified]
           done == Append(me.attempts, attempt)
           next == [me EXCEPT !.at = AfterAttempt(done), !.attempts = done,
                              !.disposition = Nothing]
<1>1. Under(r) /\ me.at \in Attempting /\ owner' = owner
  BY DEF RecordAttempt, Under, Off, Attempting
<1>2. PICK d \in Outputs : d = me.output
  BY <1>1, NothingPublished
<1>3. PICK k : k = Number(r)
  OBVIOUS
<1>4. /\ k \in Positions /\ k = Len(me.attempts) + 1 /\ Len(me.attempts) \in Nat
      /\ owner[d] = r /\ r # NoRun /\ ~Whole(Summary(d)) /\ Recorded(r)
  BY <1>1, <1>2, <1>3, InAttempt, NothingPublished, ScheduleHasMissions
<1>5. WriteThen(r, Attempt(d, k), attempt, next) /\ Attempt(d, k) \in PathsOf(d)
  BY <1>2, <1>3, <1>4, PathsWithin DEF RecordAttempt
<1> HIDE DEF attempt, next
<1>6. /\ \A q : q # Attempt(d, k) => Kept(q)
      /\ Attempt(d, k) \notin DOMAIN files /\ Attempt(d, k) \in DOMAIN files'
      /\ \/ files'[Attempt(d, k)] = File(r, TRUE, attempt)
         \/ files'[Attempt(d, k)] = File(r, FALSE, Nothing)
  BY <1>1, <1>2, <1>5, Written
<1>7. ReceiptsKept
  BY <1>6, PathsApart, KeptWhole DEF ReceiptsKept
<1>8. \A e \in Outputs : Kept(Summary(e)) /\ \A n \in Positions : e # d \/ n # k => Kept(Attempt(e, n))
  BY <1>6, PathsApart
<1>9. \A e \in Outputs \ {d} : LedgerKept(e)
  BY <1>8, KeptWhole DEF LedgerKept
<1>10. CASE files'[Attempt(d, k)] = File(r, FALSE, Nothing)
  <2>1. ~Whole(Attempt(d, k)) /\ ~Whole(Attempt(d, k))'
    BY <1>6, <1>10 DEF Whole, Exists, File
  <2>2. LedgerKept(d)
    BY <1>8, <2>1, KeptWhole DEF LedgerKept
  <2> QED BY <1>1, <1>7, <1>9, <2>2, LedgerStutters
<1>11. CASE files'[Attempt(d, k)] = File(r, TRUE, attempt)
  <2>1. Whole(Attempt(d, k))'
    BY <1>6, <1>11 DEF Whole, Exists, File
  <2>2. RecordsIn(d) = 1..(k - 1) /\ Cardinality(RecordsIn(d)) = k - 1
    BY <1>1, <1>2, <1>4, RecordsAreTheFirst
  <2>3. RecordsIn(d)' = 1..k
    <3>1. \A n \in Positions : n # k => (Whole(Attempt(d, n))' <=> Whole(Attempt(d, n)))
      BY <1>8, KeptWhole
    <3>2. \A n \in Positions : Whole(Attempt(d, n))' <=> n = k \/ Whole(Attempt(d, n))
      BY <2>1, <3>1
    <3>3. RecordsIn(d)' = RecordsIn(d) \cup {k}
      BY <1>4, <3>2 DEF RecordsIn
    <3> QED BY <1>4, <2>2, <3>3
  <2>4. Cardinality(1..k) = k
    <3>1. 1 \in Int /\ k \in Int /\ k >= 1
      BY <1>4
    <3> QED BY <3>1, FS_Interval
  <2>5. \A e \in Outputs : /\ Whole(Summary(e))' = Whole(Summary(e))
                           /\ e # d => RecordsIn(e)' = RecordsIn(e)
    <3>1. \A e \in Outputs \ {d} : RecordsIn(e)' = RecordsIn(e) /\ Whole(Summary(e))' = Whole(Summary(e))
      BY <1>9, LedgerReads
    <3>2. Whole(Summary(d))' = Whole(Summary(d))
      BY <1>8, KeptWhole, WholeIsBoolean
    <3> QED BY <3>1, <3>2
  <2>6. TellingOf' = TellingOf /\ ~TellingOf[d]
    BY <1>4, <2>5 DEF TellingOf
  <2>7. CountsOf' = [CountsOf EXCEPT ![d] = @ + 1] /\ CountsOf[d] < Len(Schedule)
    <3>1. CountsOf[d] = k - 1 /\ CountsOf'[d] = k
      BY <2>2, <2>3, <2>4 DEF CountsOf, RecordsIn
    <3>2. \A e \in Outputs \ {d} : CountsOf'[e] = CountsOf[e]
      BY <2>5 DEF CountsOf, RecordsIn
    <3>3. DOMAIN CountsOf = Outputs /\ DOMAIN CountsOf' = Outputs
          /\ CountsOf = [e \in Outputs |-> CountsOf[e]] /\ CountsOf' = [e \in Outputs |-> CountsOf'[e]]
      BY DEF CountsOf
    <3>4. (k - 1) + 1 = k /\ k - 1 < Len(Schedule)
      BY <1>4, ScheduleHasMissions
    <3> HIDE DEF me
    <3> QED BY <3>1, <3>2, <3>3, <3>4
  <2>8. Ledger!Record(d)
    BY <1>1, <1>4, <2>6, <2>7 DEF Ledger!Record, CountsOf, TellingOf
  <2> QED BY <1>7, <2>8 DEF Ledger!Next
<1> QED BY <1>6, <1>10, <1>11

\* A summary publishes, over all attempts.
LEMMA PublishIsOnce ==
  ASSUME CampaignInv, NEW r \in Runs, Summarise(r)
  PROVE  ReceiptsKept /\ [Ledger!Next]_(Ledger!ledgerVars)
<1> DEFINE me == runs[r]
           next == [Fresh EXCEPT !.at = "done", !.output = me.output]
           summary == [attempts |-> me.attempts, before |-> me.before,
                       integrity |-> Integrity(me.before, me.after)]
<1>1. me.at = "summary" /\ Under(r) /\ owner' = owner
  BY DEF Summarise, Under, Off
<1>2. PICK d \in Outputs : d = me.output
  BY <1>1, NothingPublished
<1>3. /\ owner[d] = r /\ r # NoRun /\ ~Whole(Summary(d)) /\ Len(me.attempts) = Len(Schedule)
  BY <1>1, <1>2, NothingPublished, ScheduleHasMissions DEF Recorded, Concluding
<1>4. WriteThen(r, Summary(d), summary, next) /\ Summary(d) \in PathsOf(d)
  BY <1>2, PathsWithin DEF Summarise
<1> HIDE DEF summary, next
<1>5. /\ \A q : q # Summary(d) => Kept(q)
      /\ Summary(d) \in DOMAIN files'
      /\ \/ files'[Summary(d)] = File(r, TRUE, summary)
         \/ files'[Summary(d)] = File(r, FALSE, Nothing)
  BY <1>1, <1>2, <1>4, Written
<1>6. ReceiptsKept
  BY <1>5, PathsApart, KeptWhole DEF ReceiptsKept
<1>7. \A e \in Outputs : /\ e # d => Kept(Summary(e))
                         /\ \A n \in Positions : Kept(Attempt(e, n))
  BY <1>5, PathsApart
<1>8. \A e \in Outputs \ {d} : LedgerKept(e)
  BY <1>7, KeptWhole DEF LedgerKept
<1>9. CASE files'[Summary(d)] = File(r, FALSE, Nothing)
  <2>1. ~Whole(Summary(d))'
    BY <1>9 DEF Whole, File
  <2>2. LedgerKept(d)
    BY <1>3, <1>7, <2>1, KeptWhole DEF LedgerKept
  <2> QED BY <1>1, <1>6, <1>8, <2>2, LedgerStutters
<1>10. CASE files'[Summary(d)] = File(r, TRUE, summary)
  <2>1. Whole(Summary(d))' = TRUE
    BY <1>5, <1>10, WholeIsBoolean DEF Whole, Exists, File
  <2>2. \A e \in Outputs : /\ RecordsIn(e)' = RecordsIn(e)
                           /\ e # d => Whole(Summary(e))' = Whole(Summary(e))
    <3>1. RecordsIn(d)' = RecordsIn(d)
      BY <1>7, KeptWhole DEF RecordsIn
    <3> QED BY <1>8, <3>1, LedgerReads
  <2>3. CountsOf' = CountsOf
    BY <2>2 DEF CountsOf, RecordsIn
  <2>4. TellingOf' = [TellingOf EXCEPT ![d] = TRUE] /\ ~TellingOf[d]
    BY <1>3, <2>1, <2>2 DEF TellingOf
  <2>5. CountsOf[d] = Len(Schedule)
    BY <1>1, <1>2, <1>3, RecordsAreTheFirst DEF CountsOf, RecordsIn
  <2>6. Ledger!Publish(d)
    BY <1>1, <1>3, <2>3, <2>4, <2>5 DEF Ledger!Publish, CountsOf, TellingOf
  <2> QED BY <1>6, <2>6 DEF Ledger!Next
<1> QED BY <1>5, <1>9, <1>10

\* Reserving an output claims it.
LEMMA ReserveIsAClaim ==
  ASSUME CampaignInv, NEW r \in Runs, NEW d \in Outputs, Reserve(r, d)
  PROVE  ReceiptsKept /\ [Ledger!Next]_(Ledger!ledgerVars)
<1>1. /\ runs[r].at = "idle" /\ owner[d] = NoRun /\ owner' = [owner EXCEPT ![d] = r]
      /\ UNCHANGED files
  BY DEF Reserve
<1>2. ReceiptsKept /\ \A e \in Outputs : LedgerKept(e)
  BY <1>1, QuietStep
<1>3. \A e \in Outputs : RecordsIn(e)' = RecordsIn(e) /\ Whole(Summary(e))' = Whole(Summary(e))
  BY <1>2, LedgerReads
<1>4. CountsOf' = CountsOf /\ TellingOf' = TellingOf
  BY <1>3 DEF RecordsIn, CountsOf, TellingOf
<1>5. \A e \in Outputs : owner[e] # r
  BY <1>1, ScheduleHasMissions DEF CampaignInv, OwnedInv
<1>6. Ledger!Claim(d, r)
  BY <1>1, <1>4, <1>5 DEF Ledger!Claim, CountsOf, TellingOf
<1> QED BY <1>2, <1>6 DEF Ledger!Next

\* Removing a stopped run's output abandons it.
LEMMA DiscardIsAbandoning ==
  ASSUME CampaignInv, NEW d \in Outputs, Discard(d)
  PROVE  ReceiptsKept /\ [Ledger!Next]_(Ledger!ledgerVars)
<1>1. owner[d] # NoRun /\ runs[owner[d]].at = "stopped" /\ owner' = [owner EXCEPT ![d] = NoRun]
  BY DEF Discard
<1>2. /\ \A p : p \in DOMAIN files' <=> p \in DOMAIN files /\ (p[2] # d \/ p = Usage(d))
      /\ \A e \in Outputs : Kept(Usage(e))
      /\ \A e \in Outputs \ {d} : \A p \in PathsOf(e) : Kept(p)
  BY DiscardKeeps
<1>3. ReceiptsKept
  BY <1>2, KeptWhole DEF ReceiptsKept
<1>4. \A e \in Outputs \ {d} : LedgerKept(e)
  BY <1>2, PathsWithin, KeptWhole DEF LedgerKept
<1>5. ~Whole(Summary(d)) /\ ~Whole(Summary(d))' /\ \A n \in Positions : ~Whole(Attempt(d, n))'
  <2>1. /\ Summary(d)[2] = d /\ Summary(d) # Usage(d)
        /\ \A n \in Positions : Attempt(d, n)[2] = d /\ Attempt(d, n) # Usage(d)
    BY DEF Summary, Attempt, Usage
  <2>2. ~Whole(Summary(d))
    BY <1>1 DEF CampaignInv, OutputInv
  <2> QED BY <1>2, <2>1, <2>2 DEF Whole, Exists
<1>6. \A e \in Outputs \ {d} : RecordsIn(e)' = RecordsIn(e) /\ Whole(Summary(e))' = Whole(Summary(e))
  BY <1>4, LedgerReads
<1>7. RecordsIn(d)' = {} /\ Whole(Summary(d))' = Whole(Summary(d))
  BY <1>5, WholeIsBoolean DEF RecordsIn
<1>8. Cardinality({}) = 0
  BY FS_EmptySet
<1>9. CountsOf' = [CountsOf EXCEPT ![d] = 0]
  BY <1>6, <1>7, <1>8 DEF CountsOf, RecordsIn
<1>10. TellingOf' = TellingOf /\ ~TellingOf[d]
  BY <1>5, <1>6, <1>7 DEF TellingOf
<1>11. Ledger!Abandon(d)
  BY <1>1, <1>9, <1>10 DEF Ledger!Abandon, CountsOf, TellingOf
<1> QED BY <1>3, <1>11 DEF Ledger!Next

\* At first no output has an owner.
LEMMA LedgerBegins ==
  ASSUME Init
  PROVE  Ledger!Init
<1>1. \A p : ~Whole(p)
  BY DEF Init, Whole, Exists
<1>2. \A d \in Outputs : {n \in Positions : Whole(Attempt(d, n))} = {} /\ Whole(Summary(d)) = FALSE
  BY <1>1, WholeIsBoolean
<1>3. Cardinality({}) = 0
  BY FS_EmptySet
<1>4. CountsOf = [d \in Outputs |-> 0] /\ TellingOf = [d \in Outputs |-> FALSE]
  BY <1>2, <1>3 DEF CountsOf, TellingOf
<1> QED BY <1>4 DEF Init, Ledger!Init, CountsOf, TellingOf

\* Every step keeps complete receipts, and is a step of the ledger or none.
LEMMA StepKeepsLedger ==
  ASSUME CampaignInv, [Next]_vars
  PROVE  ReceiptsKept /\ [Ledger!Next]_(Ledger!ledgerVars)
<1>1. CASE UNCHANGED <<owner, files>>
  BY <1>1, QuietStep, LedgerStutters
<1>2. ASSUME NEW r \in Runs, Step(r) PROVE ReceiptsKept /\ [Ledger!Next]_(Ledger!ledgerVars)
  <2>1. CASE \E d \in Outputs : Reserve(r, d)
    BY <2>1, ReserveIsAClaim
  <2>2. CASE WriteRequest(r) \/ CreateReceipt(r) \/ FillReceipt(r) \/ SaveCapture(r) \/ LoseCapture(r)
    BY <2>2, StepOutsideLedger, LedgerStutters
  <2>3. CASE RecordAttempt(r)
    BY <2>3, RecordIsOne
  <2>4. CASE Summarise(r)
    BY <2>4, PublishIsOnce
  <2>5. CASE \/ \E d \in Outputs : RefuseRequest(r, d)
             \/ CheckUsage(r) \/ ListReceipts(r) \/ SnapshotBefore(r) \/ LoadMission(r)
             \/ \E kind \in Refusals : RefuseAttempt(r, kind)
             \/ TakeOff(r) \/ \E landed \in BOOLEAN : Touchdown(r, landed)
             \/ SnapshotAfter(r) \/ Stop(r)
    BY <1>1, <2>5 DEF RefuseRequest, CheckUsage, ListReceipts, SnapshotBefore, LoadMission,
                      RefuseAttempt, TakeOff, Touchdown, SnapshotAfter, Stop
  <2> QED BY <1>2, <2>1, <2>2, <2>3, <2>4, <2>5 DEF Step
<1>3. CASE \E i \in Inputs : Drift(i)
  BY <1>1, <1>3 DEF Drift
<1>4. CASE \E d \in Outputs : Discard(d)
  BY <1>4, DiscardIsAbandoning
<1> QED BY <1>1, <1>2, <1>3, <1>4 DEF Next, Ended, vars

\* For every number of runs and outputs: a complete receipt stays as it is, whoever runs, stops,
\* removes an output or tries its path again (create_new in record_collection_usage).
THEOREM ReceiptsOnlyAppend == Spec => [][ReceiptsAppendOnly]_vars
<1>1. CampaignInv /\ [Next]_vars => [ReceiptsAppendOnly]_vars
  BY StepKeepsLedger DEF ReceiptsKept, ReceiptsAppendOnly
<1> QED BY <1>1, CampaignInvariant, PTL DEF Spec

\* Campaigns implement the ledger, for every schedule and any number of runs and outputs: one owner
\* at a time, attempts one by one under it, one summary over all of them, and then nothing more.
THEOREM CampaignsImplementLedger == Spec => Ledger!Spec
<1>1. Init => Ledger!Init
  BY LedgerBegins
<1>2. CampaignInv /\ [Next]_vars => [Ledger!Next]_(Ledger!ledgerVars)
  BY StepKeepsLedger
<1> QED BY <1>1, <1>2, CampaignInvariant, PTL DEF Spec, Ledger!Spec
=============================================================================

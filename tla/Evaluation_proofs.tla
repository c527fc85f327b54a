-------------------------- MODULE Evaluation_proofs --------------------------
(***************************************************************************)
(* Theorems about what an evaluation keeps on disk, for every value of the  *)
(* constants.  Those about campaigns are Campaign_proofs', of the campaign  *)
(* that MCEvaluation extends and of the one it instantiates.                *)
(***************************************************************************)
EXTENDS MCEvaluation, Campaign_proofs

----------------------------------------------------------------------------
(* The campaign of the schedule is a campaign of Campaign_proofs.           *)

Proved == INSTANCE Campaign_proofs WITH
  Runs <- ScheduledScenario.runs, Outputs <- ScheduledScenario.outputs,
  Schedule <- ScheduledScenario.attempts, Refusals <- ScheduledScenario.refusals,
  MaxDrift <- ScheduledScenario.drift

\* The scenario satisfies what Campaign_proofs assumes.
LEMMA SameAssumption == Proved!CampaignAssumption
BY ScheduledAssumption, Zenon DEF Scheduled!CampaignAssumption, Proved!CampaignAssumption

\* It begins as a campaign.
LEMMA SameInit == Scheduled!Init <=> Proved!Init
BY Zenon DEF Scheduled!Init, Scheduled!Inputs, Scheduled!NoRun, Scheduled!Fresh, Scheduled!Nothing,
             Proved!Init, Proved!Inputs, Proved!NoRun, Proved!Fresh, Proved!Nothing

\* Each action is the same, for the same runs and outputs.
LEMMA SameNext == Scheduled!Next <=> Proved!Next
<1>1. \A r, d : Scheduled!Reserve(r, d) <=> Proved!Reserve(r, d)
  BY Zenon DEF Scheduled!Reserve, Proved!Reserve, Scheduled!NoRun, Proved!NoRun
<1>2. \A r, d : Scheduled!RefuseRequest(r, d) <=> Proved!RefuseRequest(r, d)
  BY Zenon DEF Scheduled!RefuseRequest, Proved!RefuseRequest, Scheduled!Fresh, Proved!Fresh,
      Scheduled!Halt, Proved!Halt, Scheduled!NoRun, Proved!NoRun, Scheduled!Nothing,
      Proved!Nothing
<1>3. \A r : Scheduled!WriteRequest(r) <=> Proved!WriteRequest(r)
  BY Zenon DEF Scheduled!WriteRequest, Proved!WriteRequest, Scheduled!Exists, Proved!Exists,
      Scheduled!File, Proved!File, Scheduled!Fresh, Proved!Fresh, Scheduled!Halt, Proved!Halt,
      Scheduled!NoRun, Proved!NoRun, Scheduled!Nothing, Proved!Nothing, Scheduled!Put,
      Proved!Put, Scheduled!Request, Proved!Request, Scheduled!WriteThen, Proved!WriteThen
<1>4. \A r : Scheduled!CreateReceipt(r) <=> Proved!CreateReceipt(r)
  BY Zenon DEF Scheduled!CreateReceipt, Proved!CreateReceipt, Scheduled!Exists, Proved!Exists,
      Scheduled!File, Proved!File, Scheduled!Fresh, Proved!Fresh, Scheduled!Halt, Proved!Halt,
      Scheduled!Move, Proved!Move, Scheduled!NoRun, Proved!NoRun, Scheduled!Nothing,
      Proved!Nothing, Scheduled!Put, Proved!Put, Scheduled!Usage, Proved!Usage
<1>5. \A r : Scheduled!FillReceipt(r) <=> Proved!FillReceipt(r)
  BY Zenon DEF Scheduled!FillReceipt, Proved!FillReceipt, Scheduled!Move, Proved!Move, Scheduled!Usage,
      Proved!Usage
<1>6. \A r : Scheduled!CheckUsage(r) <=> Proved!CheckUsage(r)
  BY Zenon DEF Scheduled!CheckUsage, Proved!CheckUsage, Scheduled!Exists, Proved!Exists, Scheduled!Fresh,
      Proved!Fresh, Scheduled!Halt, Proved!Halt, Scheduled!Move, Proved!Move, Scheduled!NoRun,
      Proved!NoRun, Scheduled!Nothing, Proved!Nothing, Scheduled!Readable, Proved!Readable,
      Scheduled!Receipts, Proved!Receipts, Scheduled!Usage, Proved!Usage, Scheduled!Whole,
      Proved!Whole
<1>7. \A r : Scheduled!ListReceipts(r) <=> Proved!ListReceipts(r)
  BY Zenon DEF Scheduled!ListReceipts, Proved!ListReceipts, Scheduled!Exists, Proved!Exists,
      Scheduled!Receipts, Proved!Receipts, Scheduled!Usage, Proved!Usage
<1>8. \A r : Scheduled!SnapshotBefore(r) <=> Proved!SnapshotBefore(r)
  BY Zenon DEF Scheduled!SnapshotBefore, Proved!SnapshotBefore, Scheduled!Exists, Proved!Exists,
      Scheduled!Snapshot, Proved!Snapshot, Scheduled!Usage, Proved!Usage, Scheduled!Whole,
      Proved!Whole
<1>9. \A r : Scheduled!LoadMission(r) <=> Proved!LoadMission(r)
  BY Zenon DEF Scheduled!LoadMission, Proved!LoadMission, Scheduled!Dispose, Proved!Dispose,
      Scheduled!Disposed, Proved!Disposed, Scheduled!Mission, Proved!Mission, Scheduled!Move,
      Proved!Move, Scheduled!Nothing, Proved!Nothing, Scheduled!Number, Proved!Number
<1>10. \A r, kind : Scheduled!RefuseAttempt(r, kind) <=> Proved!RefuseAttempt(r, kind)
  BY Zenon DEF Scheduled!RefuseAttempt, Proved!RefuseAttempt, Scheduled!Dispose, Proved!Dispose,
      Scheduled!Disposed, Proved!Disposed, Scheduled!Nothing, Proved!Nothing
<1>11. \A r : Scheduled!TakeOff(r) <=> Proved!TakeOff(r)
  BY Zenon DEF Scheduled!TakeOff, Proved!TakeOff, Scheduled!Evidence, Proved!Evidence, Scheduled!Mission,
      Proved!Mission, Scheduled!Number, Proved!Number
<1>12. \A r, landed : Scheduled!Touchdown(r, landed) <=> Proved!Touchdown(r, landed)
  BY Zenon DEF Scheduled!Touchdown, Proved!Touchdown, Scheduled!Evidence, Proved!Evidence,
      Scheduled!Mission, Proved!Mission, Scheduled!Number, Proved!Number,
      Scheduled!VerifiedLanding, Proved!VerifiedLanding
<1>13. \A r : Scheduled!SaveCapture(r) <=> Proved!SaveCapture(r)
  BY Zenon DEF Scheduled!SaveCapture, Proved!SaveCapture, Scheduled!Disposed, Proved!Disposed,
      Scheduled!Evaluation, Proved!Evaluation, Scheduled!File, Proved!File, Scheduled!Nothing,
      Proved!Nothing, Scheduled!Number, Proved!Number, Scheduled!PutCapture, Proved!PutCapture,
      Scheduled!Seal, Proved!Seal
<1>14. \A r : Scheduled!LoseCapture(r) <=> Proved!LoseCapture(r)
  BY Zenon DEF Scheduled!LoseCapture, Proved!LoseCapture, Scheduled!Dispose, Proved!Dispose,
      Scheduled!Disposed, Proved!Disposed, Scheduled!Evaluation, Proved!Evaluation,
      Scheduled!File, Proved!File, Scheduled!Fresh, Proved!Fresh, Scheduled!Halt, Proved!Halt,
      Scheduled!NoRun, Proved!NoRun, Scheduled!Nothing, Proved!Nothing, Scheduled!Number,
      Proved!Number, Scheduled!PutCapture, Proved!PutCapture, Scheduled!Seal, Proved!Seal
<1>15. \A r : Scheduled!RecordAttempt(r) <=> Proved!RecordAttempt(r)
  BY Zenon DEF Scheduled!RecordAttempt, Proved!RecordAttempt, Scheduled!AfterAttempt, Proved!AfterAttempt,
      Scheduled!Attempt, Proved!Attempt, Scheduled!Exists, Proved!Exists, Scheduled!File,
      Proved!File, Scheduled!Fresh, Proved!Fresh, Scheduled!Halt, Proved!Halt, Scheduled!Mission,
      Proved!Mission, Scheduled!NoRun, Proved!NoRun, Scheduled!Nothing, Proved!Nothing,
      Scheduled!Number, Proved!Number, Scheduled!Put, Proved!Put, Scheduled!WriteThen,
      Proved!WriteThen
<1>16. \A r : Scheduled!SnapshotAfter(r) <=> Proved!SnapshotAfter(r)
  BY Zenon DEF Scheduled!SnapshotAfter, Proved!SnapshotAfter, Scheduled!Exists, Proved!Exists,
      Scheduled!Snapshot, Proved!Snapshot, Scheduled!Usage, Proved!Usage, Scheduled!Whole,
      Proved!Whole
<1>17. \A r : Scheduled!Summarise(r) <=> Proved!Summarise(r)
  BY Zenon DEF Scheduled!Summarise, Proved!Summarise, Scheduled!Exists, Proved!Exists, Scheduled!File,
      Proved!File, Scheduled!Fresh, Proved!Fresh, Scheduled!Halt, Proved!Halt,
      Scheduled!Integrity, Proved!Integrity, Scheduled!NoRun, Proved!NoRun, Scheduled!Nothing,
      Proved!Nothing, Scheduled!Put, Proved!Put, Scheduled!Summary, Proved!Summary,
      Scheduled!WriteThen, Proved!WriteThen
<1>18. \A r : Scheduled!Stop(r) <=> Proved!Stop(r)
  BY Zenon DEF Scheduled!Stop, Proved!Stop, Scheduled!Fresh, Proved!Fresh, Scheduled!Halt, Proved!Halt,
      Scheduled!NoRun, Proved!NoRun, Scheduled!Nothing, Proved!Nothing
<1>19. \A i : Scheduled!Drift(i) <=> Proved!Drift(i)
  BY Zenon DEF Scheduled!Drift, Proved!Drift, Scheduled!Inputs, Proved!Inputs, Scheduled!Cardinality,
      Proved!Cardinality
<1>20. \A d : Scheduled!Discard(d) <=> Proved!Discard(d)
  BY Zenon DEF Scheduled!Discard, Proved!Discard, Scheduled!NoRun, Proved!NoRun, Scheduled!Usage,
      Proved!Usage
<1>21. Scheduled!Ended <=> Proved!Ended
  BY Zenon DEF Scheduled!Ended, Proved!Ended, Scheduled!vars, Proved!vars
<1> QED
  BY <1>1, <1>2, <1>3, <1>4, <1>5, <1>6, <1>7, <1>8, <1>9, <1>10, <1>11, <1>12, <1>13, <1>14, <1>15,
     <1>16, <1>17, <1>18, <1>19, <1>20, <1>21, Zenon
  DEF Scheduled!Next, Proved!Next, Scheduled!Step, Proved!Step, Scheduled!Inputs, Proved!Inputs

\* So is what the disk tells.
LEMMA SameDisk == Scheduled!DiskTellsAttempts <=> Proved!DiskTellsAttempts
BY Zenon DEF Scheduled!DiskTellsAttempts, Proved!DiskTellsAttempts,
    Scheduled!SummarySpeaksForAttempts, Proved!SummarySpeaksForAttempts,
    Scheduled!ExecutedIsLoadable, Proved!ExecutedIsLoadable,
    Scheduled!CountsUnderOneScope, Proved!CountsUnderOneScope, Scheduled!Published, Proved!Published,
    Scheduled!Positions, Proved!Positions, Scheduled!Loadable, Proved!Loadable, Scheduled!Whole,
    Proved!Whole, Scheduled!Exists, Proved!Exists, Scheduled!File, Proved!File, Scheduled!Summary,
    Proved!Summary, Scheduled!Attempt, Proved!Attempt, Scheduled!Seal, Proved!Seal,
    Scheduled!Evaluation, Proved!Evaluation

----------------------------------------------------------------------------
(* Campaigns.                                                               *)

\* For every schedule, number of runs and outputs, and drift: what is on disk, after any crash, is
\* the truth about the attempts made, and a summary that claims integrity speaks of one set of
\* inputs (DiskTellsTheTruth of Campaign_proofs, in the setting that the run checks).
THEOREM DiskTellsInEverySchedule == EvaluationSpec => []DiskTellsAttemptsMade
<1> DEFINE Inv == setting = "schedule" => Proved!CampaignInv
<1>1. EvaluationInit => Inv
  <2> SUFFICES ASSUME EvaluationInit, setting = "schedule" PROVE Proved!CampaignInv
    OBVIOUS
  <2>1. Proved!Init
    BY SameInit DEF EvaluationInit
  <2> QED BY <2>1, SameAssumption, Proved!CampaignBegins
<1>2. Inv /\ [EvaluationNext]_allVars => Inv'
  <2> SUFFICES ASSUME Inv, [EvaluationNext]_allVars, setting' = "schedule"
               PROVE  (Proved!CampaignInv)'
    OBVIOUS
  <2>1. setting = "schedule"
    BY DEF EvaluationNext, allVars
  <2>2. Scheduled!Next \/ UNCHANGED vars
    BY <2>1 DEF EvaluationNext, allVars
  <2>3. [Proved!Next]_(Proved!vars)
    BY <2>2, SameNext DEF vars, Proved!vars
  <2> QED BY <2>1, <2>3, SameAssumption, Proved!CampaignStep
<1>3. Inv => DiskTellsAttemptsMade
  BY SameDisk, SameAssumption, Proved!InvTellsAttempts DEF DiskTellsAttemptsMade
<1> QED BY <1>1, <1>2, <1>3, PTL DEF EvaluationSpec

\* The campaign that is extended.
CampaignsInv == setting = "campaigns" => CampaignInv

\* The invariant of Campaign_proofs, in the setting of the campaigns.
LEMMA CampaignsInvariant == EvaluationSpec => []CampaignsInv
<1>1. EvaluationInit => CampaignsInv
  BY CampaignBegins DEF EvaluationInit, CampaignsInv
<1>2. CampaignsInv /\ [EvaluationNext]_allVars => CampaignsInv'
  <2> SUFFICES ASSUME CampaignsInv, [EvaluationNext]_allVars, setting' = "campaigns"
               PROVE  CampaignInv'
    BY DEF CampaignsInv
  <2>1. setting = "campaigns" /\ [Next]_vars
    BY DEF EvaluationNext, allVars
  <2> QED BY <2>1, CampaignStep DEF CampaignsInv
<1> QED BY <1>1, <1>2, PTL DEF EvaluationSpec

\* For every number of runs, outputs and missions: nobody sees a mission without a complete receipt
\* that says so, and no complete receipt is ever changed or lost (record_collection_usage).
THEOREM EveryExposureIsOnRecord == EvaluationSpec => ExposuresOnRecord
<1>1. CampaignsInv => (setting = "campaigns" => ExposureRecorded)
  BY InvRecordsExposure DEF CampaignsInv
<1>2. CampaignsInv /\ [EvaluationNext]_allVars
        => [setting = "campaigns" => ReceiptsAppendOnly]_allVars
  <2> SUFFICES ASSUME CampaignsInv, EvaluationNext, setting = "campaigns"
               PROVE  ReceiptsAppendOnly
    BY DEF allVars
  <2>1. Next
    BY DEF EvaluationNext
  <2> QED BY <2>1, StepKeepsLedger DEF CampaignsInv, ReceiptsKept, ReceiptsAppendOnly
<1> QED BY <1>1, <1>2, CampaignsInvariant, PTL DEF EvaluationSpec, ExposuresOnRecord

\* For every number of runs and outputs and every schedule: one owner per output at a time, attempts
\* recorded one by one, one summary over all of them and nothing after it (CampaignLedger).
THEOREM EveryCampaignKeepsLedger == EvaluationSpec => CampaignsKeepLedger
<1>1. EvaluationInit => (setting = "campaigns" => Ledger!Init)
  BY LedgerBegins DEF EvaluationInit
<1>2. CampaignsInv /\ [EvaluationNext]_allVars
        => [setting = "campaigns" => [Ledger!Next]_(Ledger!ledgerVars)]_allVars
  <2> SUFFICES ASSUME CampaignsInv, EvaluationNext, setting = "campaigns"
               PROVE  [Ledger!Next]_(Ledger!ledgerVars)
    BY DEF allVars
  <2>1. Next
    BY DEF EvaluationNext
  <2> QED BY <2>1, StepKeepsLedger DEF CampaignsInv
<1> QED BY <1>1, <1>2, CampaignsInvariant, PTL DEF EvaluationSpec, CampaignsKeepLedger

----------------------------------------------------------------------------
(* The batch cache, with any number of processes.                           *)

Report == [flight : Nat, home : Shared!Dirs]
Reports == Report \cup {Shared!NoReport, Shared!Torn}
Contents ==
  [bundles : [SharedScenario.runs -> [exists : BOOLEAN, by : Nat]], report : Reports,
   meta : Nat, page : BOOLEAN]
Flights == [code : SharedScenario.codes, flown : SUBSET SharedScenario.runs]
Processes ==
  [at : {"idle", "look", "fly", "summary", "meta", "page", "compare", "output", "report",
         "compare_json", "clear", "copy", "done"},
   code : SharedScenario.codes, dir : Shared!Dirs \cup {Shared!NoDir}, reuse : BOOLEAN,
   compare : {"none", "auto", "HEAD", "dir"}, skip : BOOLEAN, parallel : BOOLEAN, flight : Nat,
   doing : SUBSET SharedScenario.runs, flown : SUBSET SharedScenario.runs,
   failed : SUBSET SharedScenario.runs, report : Reports,
   source : Shared!Dirs \cup {Shared!NoDir}, left : SUBSET Shared!Parts,
   baseline : Shared!Dirs \cup {Shared!NoDir}]
SharedTypes ==
  /\ history \in Seq(SharedScenario.codes) /\ Len(history) \in 1..SharedScenario.commits
  /\ work \in SharedScenario.codes
  /\ disk \in [Shared!Dirs -> Contents]
  /\ flights \in Seq(Flights)
  /\ procs \in [Runs -> Processes]

\* A report of an execution of these runs, every one of which succeeded.
InFull(report, digest) ==
  /\ report \in Report /\ report.flight \in 1..Len(flights)
  /\ flights[report.flight].flown = SharedScenario.runs
  /\ SharedScenario.digest[flights[report.flight].code] = digest
  /\ report.home.digest = digest

\* What a process knows of the execution it is in, or is to report.
Honest(me) ==
  /\ me.at # "idle" => me.dir \in Shared!Dirs
  /\ me.at = "look" => SharedScenario.digest[me.code] = me.dir.digest
  /\ me.at = "fly" =>
       /\ me.flight \in 1..Len(flights) /\ me.flown \subseteq flights[me.flight].flown
       /\ SharedScenario.digest[flights[me.flight].code] = me.dir.digest
  /\ me.at = "look" => me.flown = {}
  /\ me.at \in {"summary", "clear", "copy"} => InFull(me.report, me.dir.digest)
  /\ me.at \in {"clear", "copy"} => me.source \in Shared!Dirs /\ me.source.digest = me.dir.digest
  /\ me.at \notin {"fly"} => me.doing = {}
SharedInv ==
  /\ SharedTypes
  /\ \A d \in Shared!Dirs :
       disk[d].report \in {Shared!NoReport, Shared!Torn} \/ InFull(disk[d].report, d.digest)
  /\ \A p \in Runs : Honest(procs[p])

\* The key of the workspace names a directory of the cache.
LEMMA HereIsADir ==
  ASSUME SharedTypes
  PROVE  Shared!HereDir \in Shared!Dirs /\ Shared!HereDir.digest = SharedScenario.digest[work]
<1>1. Shared!LastCommit \in 1..SharedScenario.commits
  BY SharedAssumption DEF SharedTypes, Shared!LastCommit, Shared!BatchCacheAssumption
<1>2. Shared!Status \in Shared!Statuses /\ SharedScenario.digest[work] \in Shared!Digests
  BY DEF SharedTypes, Shared!Status, Shared!Statuses, Shared!Digests
<1> QED BY <1>1, <1>2 DEF Shared!HereDir, Shared!Dir, Shared!Dirs

\* A clean workspace has a directory too, of its commit.
LEMMA CleanIsADir ==
  ASSUME SharedTypes, NEW target,
         target = Shared!Dir(Shared!LastCommit, Shared!Clean, SharedScenario.digest[work])
  PROVE  target \in Shared!Dirs /\ target.digest = SharedScenario.digest[work]
<1>1. Shared!LastCommit \in 1..SharedScenario.commits
  BY SharedAssumption DEF SharedTypes, Shared!LastCommit, Shared!BatchCacheAssumption
<1>2. Shared!Clean \in Shared!Statuses /\ SharedScenario.digest[work] \in Shared!Digests
  BY DEF SharedTypes, Shared!Statuses, Shared!Digests
<1> QED BY <1>1, <1>2 DEF Shared!Dir, Shared!Dirs

\* A process that has nothing to do is honest.
LEMMA IdleIsAProcess == Shared!Idle \in Processes /\ Honest(Shared!Idle)
<1>1. Shared!NoReport \in Reports /\ Shared!NoDir \in Shared!Dirs \cup {Shared!NoDir}
  BY DEF Reports
<1>2. SharedScenario.initial \in SharedScenario.codes
  BY SharedAssumption DEF Shared!BatchCacheAssumption
<1>3. Shared!Nobody \in Nat
  BY DEF Shared!Nobody
<1> QED BY <1>1, <1>2, <1>3 DEF Shared!Idle, Processes, Honest

\* Executions are only added, and only gain runs.
FlightsKept ==
  /\ flights' \in Seq(Flights) /\ Len(flights') >= Len(flights)
  /\ \A i \in 1..Len(flights) :
       flights'[i].code = flights[i].code /\ flights[i].flown \subseteq flights'[i].flown

\* Reports stay, go, or come from an execution that succeeded.
ReportsKept ==
  /\ disk' \in [Shared!Dirs -> Contents]
  /\ \A d \in Shared!Dirs :
       \/ disk'[d].report \in {disk[d].report, Shared!NoReport, Shared!Torn}
       \/ InFull(disk'[d].report, d.digest)

\* An execution flown in full stays so when more is flown.
LEMMA InFullIsStable ==
  ASSUME flights \in Seq(Flights), FlightsKept, NEW report, NEW digest, InFull(report, digest)
  PROVE  InFull(report, digest)'
<1>1. report.flight \in 1..Len(flights) /\ report.flight \in 1..Len(flights')
  BY DEF InFull, FlightsKept
<1>2. flights'[report.flight] \in Flights
  BY <1>1 DEF FlightsKept
<1>3. flights'[report.flight].flown = SharedScenario.runs
  BY <1>1, <1>2 DEF InFull, FlightsKept, Flights
<1> QED BY <1>1, <1>3 DEF InFull, FlightsKept

\* So does what a process carries.
LEMMA HonestIsStable ==
  ASSUME flights \in Seq(Flights), FlightsKept, NEW me, Honest(me)
  PROVE  Honest(me)'
<1>1. \A report, digest : InFull(report, digest) => InFull(report, digest)'
  BY InFullIsStable
<1>2. me.at = "fly" => /\ me.flight \in 1..Len(flights')
                       /\ me.flown \subseteq flights'[me.flight].flown
                       /\ flights'[me.flight].code = flights[me.flight].code
  BY DEF Honest, FlightsKept
<1> QED BY <1>1, <1>2, Zenon DEF Honest

\* What the steps of a process have in common.
LEMMA ProcessStep ==
  ASSUME SharedInv, NEW p \in Runs, NEW next \in Processes, FlightsKept, ReportsKept,
         procs' = [procs EXCEPT ![p] = next], Honest(next)', UNCHANGED <<history, work>>
  PROVE  SharedInv'
<1>1. SharedTypes'
  BY DEF SharedInv, SharedTypes, FlightsKept, ReportsKept
<1>2. ASSUME NEW d \in Shared!Dirs
      PROVE  disk'[d].report \in {Shared!NoReport, Shared!Torn} \/ InFull(disk[d].report, d.digest)'
  <2>1. \A report : InFull(report, d.digest) => InFull(report, d.digest)'
    BY InFullIsStable DEF SharedInv, SharedTypes
  <2>2. disk'[d].report \in {Shared!NoReport, Shared!Torn} \/ InFull(disk'[d].report, d.digest)
    BY DEF SharedInv, ReportsKept
  <2>3. PICK report : report = disk'[d].report
    OBVIOUS
  <2> QED BY <2>1, <2>2, <2>3, Zenon DEF InFull
<1>3. ASSUME NEW q \in Runs PROVE Honest(procs[q])'
  <2>1. CASE q = p
    BY <2>1 DEF SharedInv, SharedTypes, Honest, InFull
  <2>2. CASE q # p
    <3>1. procs'[q] = procs[q] /\ Honest(procs[q])
      BY <2>2 DEF SharedInv, SharedTypes
    <3>2. PICK me : me = procs[q]
      OBVIOUS
    <3>3. Honest(me)'
      BY <3>1, <3>2, HonestIsStable DEF SharedInv, SharedTypes
    <3> QED BY <3>1, <3>2, <3>3, Zenon DEF Honest, InFull
  <2> QED BY <2>1, <2>2
<1> QED BY <1>1, <1>2, <1>3 DEF SharedInv

\* A step of a process that leaves the executions and the cache alone.
LEMMA UnwrittenStep ==
  ASSUME SharedInv, NEW p \in Runs, NEW next \in Processes, Honest(next),
         procs' = [procs EXCEPT ![p] = next], UNCHANGED <<history, work, disk, flights>>
  PROVE  SharedInv'
<1>1. FlightsKept
  BY DEF SharedInv, SharedTypes, Flights, FlightsKept
<1>2. ReportsKept
  BY DEF SharedInv, SharedTypes, ReportsKept
<1>3. Honest(next)'
  BY <1>1, HonestIsStable DEF SharedInv, SharedTypes
<1> QED BY <1>1, <1>2, <1>3, ProcessStep

\* A step of a process that writes into one directory.
LEMMA WritingStep ==
  ASSUME SharedInv, NEW p \in Runs, NEW next \in Processes, NEW d \in Shared!Dirs,
         NEW content \in Contents, UNCHANGED <<history, work, flights>>,
         disk' = [disk EXCEPT ![d] = content],
         procs' = [procs EXCEPT ![p] = next], Honest(next),
         \/ content.report \in {disk[d].report, Shared!NoReport, Shared!Torn}
         \/ InFull(content.report, d.digest)
  PROVE  SharedInv'
<1>1. FlightsKept
  BY DEF SharedInv, SharedTypes, Flights, FlightsKept
<1>2. ReportsKept
  BY DEF SharedInv, SharedTypes, ReportsKept
<1>3. Honest(next)'
  BY <1>1, HonestIsStable DEF SharedInv, SharedTypes
<1> QED BY <1>1, <1>2, <1>3, ProcessStep

\* What is known of a process before its step.
LEMMA KnownOfProcess ==
  ASSUME SharedInv, NEW p \in Runs, NEW me, me = procs[p]
  PROVE  me \in Processes /\ Honest(me)
BY DEF SharedInv, SharedTypes

\* run_pack_cached_with_options begins, or finds its cache.
LEMMA SharedBegin ==
  ASSUME SharedInv, NEW p \in Runs, Shared!Begin(p)
  PROVE  SharedInv'
<1>1. PICK reuse \in SharedScenario.reuses, compare \in SharedScenario.compares, skip \in BOOLEAN,
           parallel \in SharedScenario.parallels :
        /\ compare = "none" => skip
        /\ procs' = [procs EXCEPT ![p] =
             [Shared!Idle EXCEPT !.at = "look", !.code = work, !.dir = Shared!HereDir, !.reuse = reuse,
                                 !.compare = compare, !.skip = skip, !.parallel = parallel]]
  BY Zenon DEF Shared!Begin
<1>2. PICK next : next =
          [Shared!Idle EXCEPT !.at = "look", !.code = work, !.dir = Shared!HereDir, !.reuse = reuse,
                              !.compare = compare, !.skip = skip, !.parallel = parallel]
  OBVIOUS
<1>3. reuse \in BOOLEAN /\ parallel \in BOOLEAN /\ compare \in {"none", "auto", "HEAD", "dir"}
  BY <1>1, SharedAssumption DEF Shared!BatchCacheAssumption
<1>4. work \in SharedScenario.codes /\ Shared!HereDir \in Shared!Dirs
      /\ Shared!HereDir.digest = SharedScenario.digest[work]
  BY HereIsADir DEF SharedInv, SharedTypes
<1>5. next \in Processes
  BY ZenonT(40), <1>1, <1>2, <1>3, <1>4, IdleIsAProcess DEF Processes
<1>6. Honest(next)
  BY <1>2, <1>4, IdleIsAProcess DEF Honest, Shared!Idle
<1> QED BY <1>1, <1>2, <1>5, <1>6, UnwrittenStep DEF Shared!Begin

\* A batch is reused, or flown anew.
LEMMA SharedReuse ==
  ASSUME SharedInv, NEW p \in Runs, Shared!Reuse(p)
  PROVE  SharedInv'
<1>1. PICK me : me = procs[p]
  OBVIOUS
<1>2. me \in Processes /\ Honest(me)
  BY <1>1, KnownOfProcess
<1>3. PICK next : next = [me EXCEPT !.at = "compare", !.report = disk[me.dir].report]
  OBVIOUS
<1>4. me.dir \in Shared!Dirs
  BY <1>1, <1>2 DEF Shared!Reuse, Honest
<1>5. next \in Processes
  BY <1>2, <1>3, <1>4 DEF SharedInv, SharedTypes, Contents, Processes
<1>6. Honest(next)
  BY <1>1, <1>2, <1>3, <1>4 DEF Honest, Processes, Shared!Reuse
<1>7. procs' = [procs EXCEPT ![p] = next]
  BY <1>1, <1>3, <1>2 DEF Shared!Reuse, SharedInv, SharedTypes, Processes
<1> QED BY <1>5, <1>6, <1>7, UnwrittenStep DEF Shared!Reuse

\* An execution of the pack, run by run.
LEMMA SharedExecute ==
  ASSUME SharedInv, NEW p \in Runs, Shared!Execute(p)
  PROVE  SharedInv'
<1>1. PICK me : me = procs[p]
  OBVIOUS
<1>2. me \in Processes /\ Honest(me)
  BY <1>1, KnownOfProcess
<1>3. PICK next : next = [me EXCEPT !.at = "fly", !.flight = Len(flights) + 1,
                                   !.code = SharedScenario.initial]
  OBVIOUS
<1>4. PICK begun : begun = [code |-> me.code, flown |-> {}]
  OBVIOUS
<1>5. flights' = Append(flights, begun) /\ begun \in Flights /\ flights \in Seq(Flights)
  BY <1>1, <1>2, <1>4 DEF Shared!Execute, Flights, Processes, SharedInv, SharedTypes
<1>6. FlightsKept /\ flights'[Len(flights) + 1] = begun /\ Len(flights') = Len(flights) + 1
  BY <1>5 DEF FlightsKept, Flights
<1>7. ReportsKept
  BY DEF Shared!Execute, SharedInv, SharedTypes, ReportsKept
<1>8. next \in Processes
  <2>1. Len(flights) + 1 \in Nat
    BY <1>5
  <2> QED BY <1>2, <1>3, <2>1, SharedAssumption DEF Shared!BatchCacheAssumption, Processes
<1>9. Honest(next)'
  <2>1. me.flown = {} /\ me.dir \in Shared!Dirs /\ SharedScenario.digest[me.code] = me.dir.digest
    BY <1>1, <1>2 DEF Shared!Execute, Honest
  <2> QED BY <1>2, <1>3, <1>4, <1>6, <2>1 DEF Honest, Processes
<1>10. procs' = [procs EXCEPT ![p] = next]
  BY <1>1, <1>2, <1>3 DEF Shared!Execute, SharedInv, SharedTypes, Processes
<1> QED BY <1>6, <1>7, <1>8, <1>9, <1>10, ProcessStep DEF Shared!Execute

\* A bundle is opened: reports are as they were.
LEMMA SharedStartBundle ==
  ASSUME SharedInv, NEW p \in Runs, Shared!StartBundle(p)
  PROVE  SharedInv'
<1>1. PICK me : me = procs[p]
  OBVIOUS
<1>2. me \in Processes /\ Honest(me) /\ me.at = "fly"
  BY <1>1, KnownOfProcess DEF Shared!StartBundle
<1>3. PICK r \in Shared!Open(p) :
        /\ disk' = [disk EXCEPT ![me.dir].bundles[r].by = me.flight]
        /\ procs' = [procs EXCEPT ![p].doing = @ \cup {r}]
  BY <1>1 DEF Shared!StartBundle
<1>4. r \in SharedScenario.runs /\ me.dir \in Shared!Dirs /\ me.flight \in Nat
  BY <1>2, <1>3 DEF Shared!Open, Honest, Processes
<1>5. PICK content : content = [disk[me.dir] EXCEPT !.bundles[r].by = me.flight]
  OBVIOUS
<1>6. content \in Contents /\ content.report = disk[me.dir].report
  <2>1. disk[me.dir] \in Contents
    BY <1>4 DEF SharedInv, SharedTypes
  <2>2. PICK bundle : bundle = [disk[me.dir].bundles[r] EXCEPT !.by = me.flight]
    OBVIOUS
  <2>3. bundle \in [exists : BOOLEAN, by : Nat]
    BY <1>4, <2>1, <2>2 DEF Contents
  <2>4. content = [disk[me.dir] EXCEPT !.bundles = [disk[me.dir].bundles EXCEPT ![r] = bundle]]
    BY <1>4, <1>5, <2>1, <2>2 DEF Contents
  <2> QED BY <1>4, <2>1, <2>3, <2>4 DEF Contents
<1>7. disk' = [disk EXCEPT ![me.dir] = content]
  BY <1>3, <1>4, <1>5 DEF SharedInv, SharedTypes
<1>8. PICK next : next = [me EXCEPT !.doing = @ \cup {r}]
  OBVIOUS
<1>9. next \in Processes /\ Honest(next)
  BY <1>2, <1>4, <1>8 DEF Processes, Honest
<1>10. procs' = [procs EXCEPT ![p] = next]
  BY <1>1, <1>2, <1>3, <1>8 DEF SharedInv, SharedTypes, Processes
<1> QED BY <1>4, <1>6, <1>7, <1>9, <1>10, WritingStep DEF Shared!StartBundle

\* One more run of the execution is flown.
LEMMA SharedFinishBundle ==
  ASSUME SharedInv, NEW p \in Runs, Shared!FinishBundle(p)
  PROVE  SharedInv'
<1>1. PICK me : me = procs[p]
  OBVIOUS
<1>2. me \in Processes /\ Honest(me)
  BY <1>1, KnownOfProcess
<1>3. PICK r \in me.doing, by \in {me.flight, Shared!Nobody} :
        /\ disk' = [disk EXCEPT ![me.dir].bundles[r] = [exists |-> TRUE, by |-> by]]
        /\ flights' = [flights EXCEPT ![me.flight].flown = @ \cup {r}]
        /\ procs' = [procs EXCEPT ![p].doing = @ \ {r}, ![p].flown = @ \cup {r}]
        /\ UNCHANGED <<history, work, output>>
  BY <1>1 DEF Shared!FinishBundle
<1>4. me.at = "fly" /\ r \in SharedScenario.runs /\ me.dir \in Shared!Dirs /\ by \in Nat
      /\ me.flight \in 1..Len(flights)
  BY <1>2, <1>3 DEF Honest, Processes, Shared!Nobody
<1>5. ReportsKept
  <2>1. disk[me.dir] \in Contents
    BY <1>4 DEF SharedInv, SharedTypes
  <2>2. PICK bundle : bundle = [exists |-> TRUE, by |-> by]
    OBVIOUS
  <2>3. bundle \in [exists : BOOLEAN, by : Nat]
    BY <1>4, <2>2
  <2>4. PICK content :
          content = [disk[me.dir] EXCEPT !.bundles = [disk[me.dir].bundles EXCEPT ![r] = bundle]]
    OBVIOUS
  <2>5. disk' = [disk EXCEPT ![me.dir] = content]
    BY <1>3, <1>4, <2>1, <2>2, <2>4 DEF SharedInv, SharedTypes, Contents
  <2>6. content \in Contents /\ content.report = disk[me.dir].report
    BY <1>4, <2>1, <2>3, <2>4 DEF Contents
  <2> QED BY <1>4, <2>5, <2>6 DEF ReportsKept, SharedInv, SharedTypes
<1>6. PICK flight : flight = [flights[me.flight] EXCEPT !.flown = @ \cup {r}]
  OBVIOUS
<1>7. flights \in Seq(Flights) /\ flights[me.flight] \in Flights
  BY <1>4 DEF SharedInv, SharedTypes
<1>8. flight \in Flights /\ flight.code = flights[me.flight].code
      /\ flight.flown = flights[me.flight].flown \cup {r}
  BY <1>4, <1>6, <1>7 DEF Flights
<1>9. flights' = [flights EXCEPT ![me.flight] = flight]
  BY <1>3, <1>4, <1>6, <1>7
<1>10. FlightsKept /\ flights'[me.flight] = flight /\ Len(flights') = Len(flights)
  BY <1>4, <1>7, <1>8, <1>9 DEF FlightsKept
<1>11. PICK next : next = [me EXCEPT !.doing = @ \ {r}, !.flown = @ \cup {r}]
  OBVIOUS
<1>12. next \in Processes
  BY <1>2, <1>4, <1>11 DEF Processes
<1>13. Honest(next)'
  <2>1. me.flown \subseteq flights[me.flight].flown
        /\ SharedScenario.digest[flights[me.flight].code] = me.dir.digest
    BY <1>2, <1>4 DEF Honest
  <2>2. next.at = "fly" /\ next.dir = me.dir /\ next.flight = me.flight
        /\ next.flown = me.flown \cup {r}
    BY <1>2, <1>4, <1>11 DEF Processes
  <2> QED BY <1>4, <1>8, <1>10, <2>1, <2>2 DEF Honest
<1>14. procs' = [procs EXCEPT ![p] = next]
  BY <1>1, <1>2, <1>3, <1>11 DEF SharedInv, SharedTypes, Processes
<1> QED BY <1>3, <1>5, <1>10, <1>12, <1>13, <1>14, ProcessStep

\* A failed run ends its process, and no report is written.
LEMMA SharedFailRun ==
  ASSUME SharedInv, NEW p \in Runs, Shared!FailRun(p)
  PROVE  SharedInv'
<1>1. PICK me : me = procs[p]
  OBVIOUS
<1>2. me \in Processes /\ Honest(me) /\ me.at = "fly"
  BY <1>1, KnownOfProcess DEF Shared!FailRun
<1>3. PICK r \in SharedScenario.runs :
        /\ procs' = [procs EXCEPT ![p].doing = @ \ {r}, ![p].failed = @ \cup {r}]
        /\ disk' = disk \/ disk' = [disk EXCEPT ![me.dir].bundles[r].by = Shared!Nobody]
  BY <1>1, <1>2 DEF Shared!FailRun, Shared!Open, Processes
<1>4. me.dir \in Shared!Dirs
  BY <1>2 DEF Honest
<1>5. PICK next : next = [me EXCEPT !.doing = @ \ {r}, !.failed = @ \cup {r}]
  OBVIOUS
<1>6. next \in Processes /\ Honest(next)
  BY <1>2, <1>3, <1>5 DEF Processes, Honest
<1>7. procs' = [procs EXCEPT ![p] = next]
  BY <1>1, <1>2, <1>3, <1>5 DEF SharedInv, SharedTypes, Processes
<1>8. CASE disk' = disk
  BY <1>6, <1>7, <1>8, UnwrittenStep DEF Shared!FailRun
<1>9. CASE disk' = [disk EXCEPT ![me.dir].bundles[r].by = Shared!Nobody]
  <2>1. disk[me.dir] \in Contents
    BY <1>4 DEF SharedInv, SharedTypes
  <2>2. PICK bundle : bundle = [disk[me.dir].bundles[r] EXCEPT !.by = Shared!Nobody]
    OBVIOUS
  <2>3. bundle \in [exists : BOOLEAN, by : Nat]
    BY <1>3, <2>1, <2>2 DEF Contents, Shared!Nobody
  <2>4. PICK content :
          content = [disk[me.dir] EXCEPT !.bundles = [disk[me.dir].bundles EXCEPT ![r] = bundle]]
    OBVIOUS
  <2>5. disk' = [disk EXCEPT ![me.dir] = content]
    BY <1>3, <1>4, <1>9, <2>1, <2>2, <2>4 DEF SharedInv, SharedTypes, Contents
  <2>6. content \in Contents /\ content.report = disk[me.dir].report
    BY <1>3, <2>1, <2>3, <2>4 DEF Contents
  <2> QED BY <1>4, <1>6, <1>7, <2>5, <2>6, WritingStep DEF Shared!FailRun
<1> QED BY <1>3, <1>8, <1>9

\* The batch is reported only when every one of its runs has succeeded.
LEMMA SharedGather ==
  ASSUME SharedInv, NEW p \in Runs, Shared!Gather(p)
  PROVE  SharedInv'
<1>1. PICK me : me = procs[p]
  OBVIOUS
<1>2. me \in Processes /\ Honest(me) /\ me.at = "fly" /\ me.doing = {}
  BY <1>1, KnownOfProcess DEF Shared!Gather
<1>3. CASE me.failed # {}
  BY <1>1, <1>3, IdleIsAProcess, UnwrittenStep DEF Shared!Gather
<1>4. CASE me.failed = {}
  <2>1. PICK report : report = [flight |-> me.flight, home |-> me.dir]
    OBVIOUS
  <2>2. PICK next : next = [me EXCEPT !.at = "summary", !.flown = {}, !.report = report]
    OBVIOUS
  <2>3. procs' = [procs EXCEPT ![p] = next]
    BY <1>1, <1>4, <2>1, <2>2 DEF Shared!Gather
  <2>4. me.dir \in Shared!Dirs /\ me.flight \in 1..Len(flights)
        /\ me.flown \subseteq flights[me.flight].flown
        /\ SharedScenario.digest[flights[me.flight].code] = me.dir.digest
    BY <1>2 DEF Honest
  <2>5. report \in Report
    BY <1>2, <2>1, <2>4 DEF Report, Processes
  <2>6. flights[me.flight].flown = SharedScenario.runs
    <3>1. Shared!Open(p) = {}
      BY <1>1, <1>2, <1>4 DEF Shared!Gather, Shared!MayStart
    <3>2. SharedScenario.runs \subseteq me.flown
      BY <1>1, <1>2, <1>4, <3>1 DEF Shared!Open
    <3>3. flights[me.flight] \in Flights
      BY <2>4 DEF SharedInv, SharedTypes
    <3> QED BY <2>4, <3>2, <3>3 DEF Flights
  <2>7. InFull(report, me.dir.digest)
    BY <2>1, <2>4, <2>5, <2>6 DEF InFull
  <2>8. next \in Processes
    BY <1>2, <2>2, <2>5 DEF Processes, Reports
  <2>9. Honest(next)
    BY <1>2, <2>2, <2>4, <2>7 DEF Honest, Processes
  <2> QED BY <2>3, <2>8, <2>9, UnwrittenStep DEF Shared!Gather
<1> QED BY <1>3, <1>4

\* What a process is after it has written a part of what it publishes, or has returned.
LEMMA MovedIsAProcess ==
  ASSUME NEW me \in Processes, Honest(me), me.at \notin {"idle", "fly"},
         NEW at \in {"meta", "page", "compare", "output", "report", "compare_json"},
         NEW next, next = [me EXCEPT !.at = at]
  PROVE  next \in Processes /\ Honest(next)
BY DEF Processes, Honest

\* A process that has returned is honest.
LEMMA ReturnedIsAProcess ==
  ASSUME NEW me \in Processes, me.dir \in Shared!Dirs, NEW next, next = Shared!Returned(me)
  PROVE  next \in Processes /\ Honest(next)
<1>1. next \in Processes
  BY IdleIsAProcess DEF Shared!Returned, Processes
<1>2. next.at = "done" /\ next.dir = me.dir /\ next.doing = {}
  BY DEF Shared!Returned, Shared!Idle
<1> QED BY <1>1, <1>2 DEF Honest

\* write_batch_cache_dir.
LEMMA SharedWriteSummary ==
  ASSUME SharedInv, NEW p \in Runs, Shared!WriteSummary(p)
  PROVE  SharedInv'
<1>1. PICK me : me = procs[p]
  OBVIOUS
<1>2. me \in Processes /\ Honest(me) /\ me.at = "summary"
  BY <1>1, KnownOfProcess DEF Shared!WriteSummary
<1>3. PICK next : next = [me EXCEPT !.at = "meta"]
  OBVIOUS
<1>4. next \in Processes /\ Honest(next)
  BY <1>2, <1>3, MovedIsAProcess
<1>5. procs' = [procs EXCEPT ![p] = next]
  BY <1>1, <1>3 DEF Shared!WriteSummary, SharedInv, SharedTypes
<1>6. me.dir \in Shared!Dirs /\ InFull(me.report, me.dir.digest) /\ me.report \in Reports
  BY <1>2 DEF Honest, Processes
<1>7. PICK content : content = [disk[me.dir] EXCEPT !.report = me.report]
  OBVIOUS
<1>8. disk[me.dir] \in Contents
  BY <1>6 DEF SharedInv, SharedTypes
<1>9. content \in Contents /\ content.report = me.report
  BY <1>6, <1>7, <1>8 DEF Contents
<1>10. disk' = [disk EXCEPT ![me.dir] = content]
  BY <1>1, <1>6, <1>7 DEF Shared!WriteSummary, SharedInv, SharedTypes
<1>11. UNCHANGED <<history, work, flights>>
  BY DEF Shared!WriteSummary
<1>12. InFull(content.report, me.dir.digest)
  BY <1>6, <1>9
<1> QED BY <1>4, <1>5, <1>6, <1>9, <1>10, <1>11, <1>12, WritingStep

\* The metadata: reports are as they were.
LEMMA SharedWriteMeta ==
  ASSUME SharedInv, NEW p \in Runs, Shared!WriteMeta(p)
  PROVE  SharedInv'
<1>1. PICK me : me = procs[p]
  OBVIOUS
<1>2. me \in Processes /\ Honest(me) /\ me.at = "meta"
  BY <1>1, KnownOfProcess DEF Shared!WriteMeta
<1>3. PICK next : next = [me EXCEPT !.at = "page"]
  OBVIOUS
<1>4. next \in Processes /\ Honest(next)
  BY <1>2, <1>3, MovedIsAProcess
<1>5. procs' = [procs EXCEPT ![p] = next]
  BY <1>1, <1>3 DEF Shared!WriteMeta, SharedInv, SharedTypes
<1>6. me.dir \in Shared!Dirs
  BY <1>2 DEF Honest
<1>7. PICK content : content = [disk[me.dir] EXCEPT !.meta = Len(flights)]
  OBVIOUS
<1>8. disk[me.dir] \in Contents /\ Len(flights) \in Nat
  BY <1>6 DEF SharedInv, SharedTypes
<1>9. content \in Contents /\ content.report = disk[me.dir].report
  BY <1>6, <1>7, <1>8 DEF Contents
<1>10. disk' = [disk EXCEPT ![me.dir] = content]
  BY <1>1, <1>6, <1>7 DEF Shared!WriteMeta, SharedInv, SharedTypes
<1>11. UNCHANGED <<history, work, flights>>
  BY DEF Shared!WriteMeta
<1> QED BY <1>4, <1>5, <1>6, <1>9, <1>10, <1>11, WritingStep

\* The page: reports are as they were.
LEMMA SharedWritePage ==
  ASSUME SharedInv, NEW p \in Runs, Shared!WritePage(p)
  PROVE  SharedInv'
<1>1. PICK me : me = procs[p]
  OBVIOUS
<1>2. me \in Processes /\ Honest(me) /\ me.at = "page" /\ me.dir \in Shared!Dirs
  BY <1>1, KnownOfProcess DEF Shared!WritePage, Honest
<1>3. PICK next : next = IF me.source = Shared!NoDir THEN [me EXCEPT !.at = "compare"]
                         ELSE Shared!Returned(me)
  OBVIOUS
<1>4. next \in Processes /\ Honest(next)
  BY <1>2, <1>3, MovedIsAProcess, ReturnedIsAProcess
<1>5. procs' = [procs EXCEPT ![p] = next]
  BY <1>1, <1>3 DEF Shared!WritePage
<1>6. PICK content : content = [disk[me.dir] EXCEPT !.page = TRUE]
  OBVIOUS
<1>7. disk[me.dir] \in Contents
  BY <1>2 DEF SharedInv, SharedTypes
<1>8. content \in Contents /\ content.report = disk[me.dir].report
  BY <1>6, <1>7 DEF Contents
<1>9. disk' = [disk EXCEPT ![me.dir] = content]
  BY <1>1, <1>2, <1>6 DEF Shared!WritePage, SharedInv, SharedTypes
<1>10. UNCHANGED <<history, work, flights>>
  BY DEF Shared!WritePage
<1> QED BY <1>2, <1>4, <1>5, <1>8, <1>9, <1>10, WritingStep

\* The baseline is a directory of the cache, none, or the batch's error.
LEMMA SharedBaseline ==
  ASSUME SharedInv, NEW p \in Runs, Shared!Compare(p)
  PROVE  \/ Shared!Abandon(p)
         \/ \E d \in Shared!Dirs \cup {Shared!NoDir} : Shared!Against(p, d)
<1>1. PICK me : me = procs[p]
  OBVIOUS
<1>2. me \in Processes /\ me.dir \in Shared!Dirs
  BY <1>1, KnownOfProcess DEF Shared!Compare, Honest
<1>3. Shared!Missing(p) => Shared!Abandon(p) \/ Shared!Against(p, Shared!NoDir)
  BY DEF Shared!Missing
<1>4. CASE me.compare = "none"
  BY <1>1, <1>4 DEF Shared!Compare
<1>5. CASE me.compare = "dir"
  BY <1>1, <1>5 DEF Shared!Compare
<1>6. CASE me.compare \notin {"none", "dir"}
  <2>1. PICK commit : commit = Shared!BaselineCommit(me)
    OBVIOUS
  <2>2. Shared!FromCache(p, commit)
    BY <1>1, <1>6, <2>1 DEF Shared!Compare
  <2>3. commit \in 0..SharedScenario.commits
    <3>1. Shared!LastCommit \in 1..SharedScenario.commits /\ SharedScenario.commits \in Nat
      BY SharedAssumption DEF SharedInv, SharedTypes, Shared!LastCommit, Shared!BatchCacheAssumption
    <3>2. me.dir.commit \in 1..SharedScenario.commits
      BY <1>2 DEF Shared!Dirs
    <3> QED BY <2>1, <3>1, <3>2 DEF Shared!BaselineCommit
  <2>4. CASE commit = 0
    BY <1>3, <2>2, <2>4 DEF Shared!FromCache
  <2>5. CASE commit # 0
    <3>1. PICK exact : exact = Shared!Dir(commit, Shared!Clean, me.dir.digest)
      OBVIOUS
    <3>2. PICK others : others = Shared!Candidates(commit, me.dir.digest)
      OBVIOUS
    <3>3. others \subseteq Shared!Dirs
      BY <3>2 DEF Shared!Candidates
    <3>4. exact \in Shared!Dirs
      BY <1>2, <2>3, <2>5, <3>1 DEF Shared!Dir, Shared!Dirs, Shared!Statuses
    <3>5. CASE Shared!Valid(exact)
      BY <1>1, <2>2, <2>5, <3>1, <3>4, <3>5 DEF Shared!FromCache
    <3>6. CASE ~Shared!Valid(exact)
      BY <1>1, <1>3, <2>2, <2>5, <3>1, <3>2, <3>3, <3>6 DEF Shared!FromCache
    <3> QED BY <3>5, <3>6
  <2> QED BY <2>4, <2>5
<1> QED BY <1>4, <1>5, <1>6

\* The baseline is compared with, and nothing written.
LEMMA SharedCompare ==
  ASSUME SharedInv, NEW p \in Runs, Shared!Compare(p)
  PROVE  SharedInv'
<1>1. PICK me : me = procs[p]
  OBVIOUS
<1>2. me \in Processes /\ Honest(me) /\ me.at = "compare" /\ me.dir \in Shared!Dirs
  BY <1>1, KnownOfProcess DEF Shared!Compare, Honest
<1>3. CASE Shared!Abandon(p)
  BY <1>3, IdleIsAProcess, UnwrittenStep DEF Shared!Abandon, Shared!Compare
<1>4. ASSUME NEW d \in Shared!Dirs \cup {Shared!NoDir}, Shared!Against(p, d)
      PROVE  SharedInv'
  <2>1. PICK compared : compared = [me EXCEPT !.at = "output", !.baseline = d]
    OBVIOUS
  <2>2. PICK next : next = IF SharedScenario.output THEN compared ELSE Shared!Returned(compared)
    OBVIOUS
  <2>3. compared \in Processes /\ Honest(compared) /\ compared.dir \in Shared!Dirs
    BY <1>2, <1>4, <2>1 DEF Processes, Honest
  <2>4. next \in Processes /\ Honest(next)
    BY <2>2, <2>3, ReturnedIsAProcess
  <2>5. procs' = [procs EXCEPT ![p] = next]
    BY <1>1, <1>4, <2>1, <2>2 DEF Shared!Against
  <2> QED BY <2>4, <2>5, UnwrittenStep DEF Shared!Compare
<1> QED BY <1>3, <1>4, SharedBaseline

\* write_batch_output_dir: the cache is not touched.
LEMMA SharedOutput ==
  ASSUME SharedInv, NEW p \in Runs,
         Shared!LinkRuns(p) \/ Shared!WriteOutput(p) \/ Shared!WriteCompare(p)
  PROVE  SharedInv'
<1>1. PICK me : me = procs[p]
  OBVIOUS
<1>2. me \in Processes /\ Honest(me) /\ me.at \notin {"idle", "fly"} /\ me.dir \in Shared!Dirs
  BY <1>1, KnownOfProcess DEF Shared!LinkRuns, Shared!WriteOutput, Shared!WriteCompare, Honest
<1>3. CASE Shared!LinkRuns(p) \/ Shared!WriteOutput(p)
  <2>1. PICK at \in {"report", "compare_json"} : procs' = [procs EXCEPT ![p].at = at]
    BY <1>3 DEF Shared!LinkRuns, Shared!WriteOutput
  <2>2. PICK next : next = [me EXCEPT !.at = at]
    OBVIOUS
  <2>3. next \in Processes /\ Honest(next)
    BY <1>2, <2>2, MovedIsAProcess
  <2>4. procs' = [procs EXCEPT ![p] = next]
    BY <1>1, <2>1, <2>2 DEF SharedInv, SharedTypes
  <2> QED BY <1>3, <2>3, <2>4, UnwrittenStep DEF Shared!LinkRuns, Shared!WriteOutput
<1>4. CASE Shared!WriteCompare(p)
  <2>1. PICK next : next = Shared!Returned(me)
    OBVIOUS
  <2>2. procs' = [procs EXCEPT ![p] = next]
    BY <1>1, <1>4, <2>1 DEF Shared!WriteCompare, SharedInv, SharedTypes
  <2> QED BY <1>2, <1>4, <2>1, <2>2, ReturnedIsAProcess, UnwrittenStep DEF Shared!WriteCompare
<1> QED BY <1>3, <1>4

\* promote_pack_cache: the source is valid, and of the digest of the target.
LEMMA SharedBeginPromotion ==
  ASSUME SharedInv, NEW p \in Runs, Shared!BeginPromotion(p)
  PROVE  SharedInv'
<1>1. PICK target :
        target = Shared!Dir(Shared!LastCommit, Shared!Clean, SharedScenario.digest[work])
  OBVIOUS
<1>2. PICK source \in Shared!PromotionSources(target) :
        /\ Shared!Valid(source)
        /\ LET report == disk[source].report IN
           procs' = [procs EXCEPT ![p] =
             [Shared!Idle EXCEPT !.at = "clear", !.dir = target, !.source = source,
                !.left = Shared!Parts,
                !.report = [report EXCEPT !.home = IF @ = source THEN target ELSE @]]]
  BY <1>1 DEF Shared!BeginPromotion
<1>3. target \in Shared!Dirs /\ target.digest = SharedScenario.digest[work]
  BY <1>1, CleanIsADir DEF SharedInv
<1>4. source \in Shared!Dirs /\ source.digest = target.digest
  <2>1. Shared!HereDir \in Shared!Dirs /\ Shared!HereDir.digest = target.digest
    BY <1>3, HereIsADir DEF SharedInv
  <2>2. \A d \in Shared!Latest(Shared!DirtyDirs(target.commit, target.digest)) :
          d \in Shared!Dirs /\ d.digest = target.digest
    BY DEF Shared!Latest, Shared!DirtyDirs
  <2> QED BY <1>2, <2>1, <2>2 DEF Shared!PromotionSources
<1>5. PICK report : report = disk[source].report
  OBVIOUS
<1>6. InFull(report, target.digest)
  BY <1>2, <1>4, <1>5 DEF SharedInv, Shared!Valid, Shared!Compatible
<1>7. PICK moved : moved = [report EXCEPT !.home = IF @ = source THEN target ELSE @]
  OBVIOUS
<1>8. moved \in Report /\ moved.flight = report.flight /\ moved.home \in {target, report.home}
  BY <1>3, <1>6, <1>7 DEF InFull, Report
<1>9. InFull(moved, target.digest)
  BY <1>6, <1>8 DEF InFull
<1>10. PICK next : next =
         [Shared!Idle EXCEPT !.at = "clear", !.dir = target, !.source = source,
                             !.left = Shared!Parts, !.report = moved]
  OBVIOUS
<1>11. next \in Processes
  BY <1>3, <1>4, <1>8, <1>10, IdleIsAProcess DEF Processes, Reports
<1>12. Honest(next)
  BY <1>3, <1>4, <1>9, <1>10 DEF Honest, Shared!Idle
<1>13. procs' = [procs EXCEPT ![p] = next]
  BY <1>2, <1>5, <1>7, <1>10
<1>14. UNCHANGED <<history, work, disk, flights>>
  BY DEF Shared!BeginPromotion
<1> QED BY <1>11, <1>12, <1>13, <1>14, UnwrittenStep

\* An empty directory is one that a process may find.
LEMMA EmptyIsContent == Shared!Empty \in Contents
BY DEF Shared!Empty, Shared!NoBundle, Shared!NoMeta, Shared!Nobody, Contents, Reports

\* A part that is copied brings its report, if it is the summary.
LEMMA PartIsContent ==
  ASSUME NEW content \in Contents, NEW from \in Contents, NEW part \in Shared!Parts,
         NEW new, new = Shared!WithPart(content, part, from)
  PROVE  new \in Contents /\ new.report \in {content.report, from.report}
<1>1. CASE part = "report"
  BY <1>1 DEF Shared!WithPart, Contents
<1>2. CASE part = "meta"
  BY <1>2 DEF Shared!WithPart, Contents
<1>3. CASE part = "page"
  BY <1>3 DEF Shared!WithPart, Contents
<1>4. CASE part \notin {"report", "meta", "page"}
  <2>1. part \in SharedScenario.runs
    BY <1>4 DEF Shared!Parts
  <2>2. PICK bundle : bundle = from.bundles[part]
    OBVIOUS
  <2>3. bundle \in [exists : BOOLEAN, by : Nat]
    BY <2>1, <2>2 DEF Contents
  <2>4. PICK bundles : bundles = [content.bundles EXCEPT ![part] = bundle]
    OBVIOUS
  <2>5. bundles \in [SharedScenario.runs -> [exists : BOOLEAN, by : Nat]]
    BY <2>1, <2>3, <2>4 DEF Contents
  <2>6. new = [content EXCEPT !.bundles = bundles]
    BY <1>4, <2>2, <2>4 DEF Shared!WithPart, Contents
  <2> QED BY <2>5, <2>6 DEF Contents
<1> QED BY <1>1, <1>2, <1>3, <1>4

\* A promotion clears its target; what it clears claims nothing any more.
LEMMA SharedClearPart ==
  ASSUME SharedInv, NEW p \in Runs, Shared!ClearPart(p)
  PROVE  SharedInv'
<1>1. PICK me : me = procs[p]
  OBVIOUS
<1>2. me \in Processes /\ Honest(me) /\ me.at = "clear" /\ me.dir \in Shared!Dirs
  BY <1>1, KnownOfProcess DEF Shared!ClearPart, Honest
<1>3. PICK part \in me.left :
        /\ disk' = [disk EXCEPT ![me.dir] = Shared!WithPart(@, part, Shared!Empty)]
        /\ procs' = [procs EXCEPT
             ![p].left = IF @ = {part} THEN Shared!Parts ELSE @ \ {part},
             ![p].at = IF procs[p].left = {part} THEN "copy" ELSE @]
  BY <1>1 DEF Shared!ClearPart
<1>4. PICK next : next = [me EXCEPT
             !.left = IF @ = {part} THEN Shared!Parts ELSE @ \ {part},
             !.at = IF me.left = {part} THEN "copy" ELSE @]
  OBVIOUS
<1>5. next \in Processes
  BY <1>2, <1>4 DEF Processes
<1>6. Honest(next)
  BY <1>2, <1>4 DEF Processes, Honest
<1>7. procs' = [procs EXCEPT ![p] = next]
  BY <1>1, <1>2, <1>3, <1>4 DEF SharedInv, SharedTypes, Processes
<1>8. PICK content : content = Shared!WithPart(disk[me.dir], part, Shared!Empty)
  OBVIOUS
<1>9. part \in Shared!Parts /\ disk[me.dir] \in Contents
  BY <1>2, <1>3 DEF Processes, SharedInv, SharedTypes
<1>10. content \in Contents /\ content.report \in {disk[me.dir].report, Shared!NoReport}
  BY <1>8, <1>9, EmptyIsContent, PartIsContent DEF Shared!Empty
<1>11. disk' = [disk EXCEPT ![me.dir] = content]
  BY <1>2, <1>3, <1>8 DEF SharedInv, SharedTypes
<1>12. UNCHANGED <<history, work, flights>>
  BY DEF Shared!ClearPart
<1> QED BY <1>2, <1>5, <1>6, <1>7, <1>10, <1>11, <1>12, WritingStep

\* A promotion copies within one digest, so what is copied stays in full.
LEMMA SharedCopyPart ==
  ASSUME SharedInv, NEW p \in Runs, Shared!CopyPart(p)
  PROVE  SharedInv'
<1>1. PICK me : me = procs[p]
  OBVIOUS
<1>2. me \in Processes /\ Honest(me) /\ me.at = "copy"
  BY <1>1, KnownOfProcess DEF Shared!CopyPart
<1>3. PICK part \in me.left :
        /\ disk' = [disk EXCEPT ![me.dir] = Shared!WithPart(@, part, disk[me.source])]
        /\ procs' = [procs EXCEPT
             ![p].left = @ \ {part},
             ![p].at = IF procs[p].left = {part} THEN "summary" ELSE @]
  BY <1>1 DEF Shared!CopyPart
<1>4. PICK next : next = [me EXCEPT !.left = @ \ {part},
                                   !.at = IF me.left = {part} THEN "summary" ELSE @]
  OBVIOUS
<1>5. next \in Processes
  BY <1>2, <1>4 DEF Processes
<1>6. Honest(next)
  BY <1>2, <1>4 DEF Processes, Honest
<1>7. procs' = [procs EXCEPT ![p] = next]
  BY <1>1, <1>2, <1>3, <1>4 DEF SharedInv, SharedTypes, Processes
<1>8. me.dir \in Shared!Dirs /\ me.source \in Shared!Dirs /\ me.source.digest = me.dir.digest
  BY <1>2 DEF Honest
<1>9. PICK content : content = Shared!WithPart(disk[me.dir], part, disk[me.source])
  OBVIOUS
<1>10. part \in Shared!Parts /\ disk[me.dir] \in Contents /\ disk[me.source] \in Contents
  BY <1>2, <1>3, <1>8 DEF Processes, SharedInv, SharedTypes
<1>11. content \in Contents /\ content.report \in {disk[me.dir].report, disk[me.source].report}
  BY <1>9, <1>10, PartIsContent
<1>12. \/ content.report \in {disk[me.dir].report, Shared!NoReport, Shared!Torn}
       \/ InFull(content.report, me.dir.digest)
  BY <1>8, <1>11 DEF SharedInv
<1>13. disk' = [disk EXCEPT ![me.dir] = content]
  BY <1>3, <1>8, <1>9 DEF SharedInv, SharedTypes
<1>14. UNCHANGED <<history, work, flights>>
  BY DEF Shared!CopyPart
<1> QED BY <1>5, <1>6, <1>7, <1>8, <1>11, <1>12, <1>13, <1>14, WritingStep

\* A kill leaves every report as it was, or torn.
LEMMA SharedCrash ==
  ASSUME SharedInv, NEW p \in Runs, Shared!Crash(p)
  PROVE  SharedInv'
<1>1. PICK me : me = procs[p]
  OBVIOUS
<1>2. me \in Processes /\ Honest(me) /\ me.at \notin {"idle", "done"} /\ me.dir \in Shared!Dirs
  <2>1. me.at \notin {"idle", "done"}
    BY <1>1, Zenon DEF Shared!Crash
  <2>2. me \in Processes /\ Honest(me)
    BY <1>1, KnownOfProcess
  <2> QED BY <2>1, <2>2 DEF Honest
<1>3. disk[me.dir] \in Contents
  BY <1>2 DEF SharedInv, SharedTypes
<1>4. PICK content :
        disk' = [disk EXCEPT ![me.dir] = content] /\ content \in Contents
        /\ content.report \in {disk[me.dir].report, Shared!Torn}
  <2>1. CASE me.at = "fly"
    <3>1. PICK all \in SUBSET procs[p].doing :
            disk' = [disk EXCEPT ![procs[p].dir].bundles =
              [r \in SharedScenario.runs |->
                 IF r \notin procs[p].doing THEN @[r]
                 ELSE [exists |-> @[r].exists \/ r \in all, by |-> Shared!Nobody]]]
      <4>1. procs[p].at = "fly"
        BY <1>1, <2>1
      <4> QED BY <4>1, Zenon DEF Shared!Crash
    <3>2. PICK bundles : bundles =
            [r \in SharedScenario.runs |->
               IF r \notin me.doing THEN disk[me.dir].bundles[r]
               ELSE [exists |-> disk[me.dir].bundles[r].exists \/ r \in all, by |-> Shared!Nobody]]
      OBVIOUS
    <3>3. bundles \in [SharedScenario.runs -> [exists : BOOLEAN, by : Nat]]
      <4>1. \A r \in SharedScenario.runs :
              /\ disk[me.dir].bundles[r] \in [exists : BOOLEAN, by : Nat]
              /\ (disk[me.dir].bundles[r].exists \/ r \in all) \in BOOLEAN
        BY <1>3 DEF Contents
      <4>2. Shared!Nobody \in Nat
        BY DEF Shared!Nobody
      <4>3. \A r \in SharedScenario.runs :
              [exists |-> disk[me.dir].bundles[r].exists \/ r \in all, by |-> Shared!Nobody]
                \in [exists : BOOLEAN, by : Nat]
        BY <4>1, <4>2
      <4> QED BY <3>2, <4>1, <4>3
    <3>4. PICK content : content = [disk[me.dir] EXCEPT !.bundles = bundles]
      OBVIOUS
    <3>5. content \in Contents /\ content.report = disk[me.dir].report
      BY <1>3, <3>3, <3>4 DEF Contents
    <3>6. disk' = [disk EXCEPT ![me.dir] = content]
      BY <1>1, <1>2, <3>1, <3>2, <3>4 DEF SharedInv, SharedTypes
    <3> QED BY <3>5, <3>6
  <2>2. CASE me.at # "fly"
    <3>1. PICK content \in Shared!Tear(disk[me.dir], me.at) :
            disk' = [disk EXCEPT ![me.dir] = content]
      BY <1>1, <1>2, <2>2 DEF Shared!Crash
    <3>2. content \in Contents /\ content.report \in {disk[me.dir].report, Shared!Torn}
      <4>1. content \in {disk[me.dir], [disk[me.dir] EXCEPT !.report = Shared!Torn],
                         [disk[me.dir] EXCEPT !.meta = Shared!NoMeta],
                         [disk[me.dir] EXCEPT !.page = TRUE]}
        BY <3>1 DEF Shared!Tear
      <4>2. disk[me.dir] \in Contents /\ Shared!Torn \in Reports /\ Shared!NoMeta \in Nat
        BY <1>3 DEF Reports, Shared!NoMeta
      <4>3. CASE content = [disk[me.dir] EXCEPT !.report = Shared!Torn]
        BY <4>2, <4>3 DEF Contents
      <4>4. CASE content # [disk[me.dir] EXCEPT !.report = Shared!Torn]
        BY <4>1, <4>2, <4>4 DEF Contents
      <4> QED BY <4>3, <4>4
    <3> QED BY <3>1, <3>2
  <2> QED BY <2>1, <2>2
<1>5. procs' = [procs EXCEPT ![p] = Shared!Idle] /\ UNCHANGED <<history, work, flights>>
  BY DEF Shared!Crash
<1> QED BY <1>2, <1>4, <1>5, IdleIsAProcess, WritingStep

\* The workspace moves on; what is cached stays.
LEMMA SharedWorkspace ==
  ASSUME SharedInv, Shared!Edit \/ Shared!Commit
  PROVE  SharedInv'
<1>1. UNCHANGED <<disk, flights, procs>>
  BY DEF Shared!Edit, Shared!Commit
<1>2. history' \in Seq(SharedScenario.codes) /\ Len(history') \in 1..SharedScenario.commits
      /\ work' \in SharedScenario.codes
  <2>1. history \in Seq(SharedScenario.codes) /\ Len(history) \in 1..SharedScenario.commits
        /\ work \in SharedScenario.codes /\ SharedScenario.commits \in Nat
    BY SharedAssumption DEF SharedInv, SharedTypes, Shared!BatchCacheAssumption
  <2>2. CASE Shared!Edit
    BY <2>1, <2>2 DEF Shared!Edit
  <2>3. CASE Shared!Commit
    <3>1. history' = Append(history, work) /\ Len(history) < SharedScenario.commits /\ work' = work
      BY <2>3 DEF Shared!Commit, Shared!LastCommit
    <3> QED BY <2>1, <3>1
  <2> QED BY <2>2, <2>3
<1> QED BY <1>1, <1>2 DEF SharedInv, SharedTypes, Honest, InFull

\* The first commit is a history.
LEMMA OneCommit ==
  ASSUME NEW Codes, NEW code \in Codes
  PROVE  <<code>> \in Seq(Codes) /\ Len(<<code>>) = 1
OBVIOUS

\* At first there is nothing on disk.
LEMMA SharedBegins ==
  ASSUME Shared!Init
  PROVE  SharedInv
<1>1. SharedTypes
  <2>1. history \in Seq(SharedScenario.codes) /\ Len(history) \in 1..SharedScenario.commits
        /\ work \in SharedScenario.codes
    <3>1. SharedScenario.initial \in SharedScenario.codes /\ SharedScenario.commits \in Nat \ {0}
      BY SharedAssumption DEF Shared!BatchCacheAssumption
    <3>2. history = <<SharedScenario.initial>> /\ work = SharedScenario.initial
      BY DEF Shared!Init
    <3>3. <<SharedScenario.initial>> \in Seq(SharedScenario.codes)
          /\ Len(<<SharedScenario.initial>>) = 1
      BY <3>1, OneCommit
    <3> QED BY <3>1, <3>2, <3>3
  <2> QED BY <2>1, IdleIsAProcess, EmptyIsContent DEF Shared!Init, SharedTypes
<1>2. \A d \in Shared!Dirs : disk[d].report = Shared!NoReport
  BY DEF Shared!Init, Shared!Empty
<1>3. \A p \in Runs : Honest(procs[p])
  BY IdleIsAProcess DEF Shared!Init
<1> QED BY <1>1, <1>2, <1>3 DEF SharedInv

\* Every step of every process and of the workspace keeps the invariant.
LEMMA SharedStep ==
  ASSUME SharedInv, Shared!Next \/ UNCHANGED cacheVars
  PROVE  SharedInv'
<1>1. CASE UNCHANGED cacheVars
  BY <1>1 DEF cacheVars, SharedInv, SharedTypes, Honest, InFull
<1>2. CASE Shared!Edit \/ Shared!Commit
  BY <1>2, SharedWorkspace
<1>3. ASSUME NEW p \in Runs, Shared!RunPack(p)
      PROVE  SharedInv'
  BY <1>3, SharedBegin, SharedReuse, SharedExecute, SharedStartBundle, SharedFinishBundle,
     SharedFailRun, SharedGather, SharedWriteSummary, SharedWriteMeta, SharedWritePage,
     SharedCompare, SharedOutput, Zenon DEF Shared!RunPack
<1>4. ASSUME NEW p \in Runs, Shared!Promote(p)
      PROVE  SharedInv'
  BY <1>4, SharedBeginPromotion, SharedClearPart, SharedCopyPart, Zenon DEF Shared!Promote
<1> QED BY <1>1, <1>2, <1>3, <1>4, SharedCrash, Zenon DEF Shared!Next

----------------------------------------------------------------------------
(* Whose bundles a cached batch names.                                      *)

\* An execution of these resolved runs, and the only one.
Wrote(g, digest) == g \in 1..Len(flights) /\ SharedScenario.digest[flights[g].code] = digest
Sole(f, digest) == Wrote(f, digest) /\ \A g \in 1..Len(flights) : Wrote(g, digest) => g = f
Own(f) == [exists |-> TRUE, by |-> f]

\* What is known of a bundle of a run: it is of an execution of its digest, if of one; there has
\* been such an execution, if there is anything of it; and where that is the only one and has
\* flown the run, the bundle is its own.
Told(bundle, digest, r) ==
  /\ bundle.by = Shared!Nobody \/ Wrote(bundle.by, digest)
  /\ bundle # Shared!NoBundle => \E g \in 1..Len(flights) : Wrote(g, digest)
  /\ \A f \in 1..Len(flights) :
       Sole(f, digest) /\ r \in flights[f].flown => bundle \in {Shared!NoBundle, Own(f)}

\* What is known of an execution in hand: where it is the only one, of a run it has not flown
\* nothing is in the other directories, and a bundle it is writing is its own.
InHand(me) ==
  /\ me.doing \cap me.flown = {} /\ flights[me.flight].flown = me.flown
  /\ Sole(me.flight, me.dir.digest) =>
       \A r \in SharedScenario.runs \ me.flown :
         /\ \A d \in Shared!Dirs :
              d.digest = me.dir.digest /\ d # me.dir => disk[d].bundles[r] = Shared!NoBundle
         /\ r \in me.doing => disk[me.dir].bundles[r].by = me.flight

BundlesInv ==
  /\ \A d \in Shared!Dirs, r \in SharedScenario.runs : Told(disk[d].bundles[r], d.digest, r)
  /\ \A p \in Runs : procs[p].at = "fly" => InHand(procs[p])
  /\ \A p, q \in Runs :
       p # q /\ procs[p].at = "fly" /\ procs[q].at = "fly" => procs[p].flight # procs[q].flight

\* A process that flies is one of the executions of its directory's digest.
LEMMA FlyerWrote ==
  ASSUME SharedInv, NEW p \in Runs, procs[p].at = "fly"
  PROVE  /\ Wrote(procs[p].flight, procs[p].dir.digest) /\ procs[p].dir \in Shared!Dirs
         /\ procs[p].flight \in 1..Len(flights)
BY DEF SharedInv, Honest, Wrote

\* Beside the only execution nobody flies these runs.
LEMMA FlyersApart ==
  ASSUME SharedInv, BundlesInv, NEW p \in Runs, NEW q \in Runs, p # q,
         procs[p].at = "fly", procs[q].at = "fly", Sole(procs[q].flight, procs[p].dir.digest)
  PROVE  FALSE
<1>1. Wrote(procs[p].flight, procs[p].dir.digest) /\ procs[p].flight \in 1..Len(flights)
  BY FlyerWrote
<1>2. procs[p].flight = procs[q].flight
  BY <1>1 DEF Sole
<1> QED BY <1>2 DEF BundlesInv

\* The only execution, once reported, has flown all its runs, whoever is still in it.
LEMMA ReportedHasFlown ==
  ASSUME SharedInv, BundlesInv, NEW q \in Runs, procs[q].at = "fly", NEW report, NEW digest,
         InFull(report, digest), Sole(procs[q].flight, digest)
  PROVE  procs[q].flown = SharedScenario.runs
<1>1. report.flight = procs[q].flight
  BY DEF InFull, Sole, Wrote
<1> QED BY <1>1 DEF BundlesInv, InHand, InFull

\* What a process may put into a directory without disturbing the others.
Allowed(p, d, r, bundle) ==
  /\ Told(bundle, d.digest, r)
  /\ \A q \in Runs \ {p} :
       procs[q].at = "fly" /\ Sole(procs[q].flight, d.digest) => r \in procs[q].flown

\* A step that writes bundles into one directory, or none, of the executions there are.
LEMMA BundlesWritten ==
  ASSUME SharedInv, BundlesInv, NEW p \in Runs, NEW next, NEW d,
         flights' = flights, procs' = [procs EXCEPT ![p] = next],
         \A e \in Shared!Dirs \ {d} : disk'[e].bundles = disk[e].bundles,
         d \in Shared!Dirs => \A r \in SharedScenario.runs :
           \/ disk'[d].bundles[r] = disk[d].bundles[r]
           \/ Allowed(p, d, r, disk'[d].bundles[r]),
         next.at = "fly" =>
           /\ procs[p].at = "fly" /\ next.flight = procs[p].flight /\ next.flown = procs[p].flown
           /\ next.dir = procs[p].dir /\ d = procs[p].dir /\ next.doing \cap next.flown = {}
           /\ Sole(next.flight, d.digest) =>
                \A r \in next.doing : disk'[d].bundles[r].by = next.flight
  PROVE  BundlesInv'
<1>1. \A q \in Runs : procs'[q] = IF q = p THEN next ELSE procs[q]
  BY DEF SharedInv, SharedTypes
<1>2. ASSUME NEW e \in Shared!Dirs, NEW r \in SharedScenario.runs
      PROVE  Told(disk[e].bundles[r], e.digest, r)'
  <2>1. Told(disk[e].bundles[r], e.digest, r)
    BY DEF BundlesInv
  <2>2. CASE disk'[e].bundles[r] = disk[e].bundles[r]
    BY <2>1, <2>2 DEF Told, Wrote, Sole
  <2>3. CASE disk'[e].bundles[r] # disk[e].bundles[r]
    <3>1. Told(disk'[e].bundles[r], e.digest, r)
      BY <2>3 DEF Allowed
    <3> QED BY <3>1 DEF Told, Wrote, Sole
  <2> QED BY <2>2, <2>3
<1>3. ASSUME NEW q \in Runs, procs'[q].at = "fly"
      PROVE  InHand(procs[q])'
  <2>1. procs[q].at = "fly" /\ procs[q].dir \in Shared!Dirs /\ InHand(procs[q])
    BY <1>1, <1>3, FlyerWrote DEF BundlesInv
  <2>2. procs'[q].flight = procs[q].flight /\ procs'[q].flown = procs[q].flown
        /\ procs'[q].dir = procs[q].dir
    BY <1>1, <1>3
  <2>3. /\ procs'[q].doing \cap procs'[q].flown = {}
        /\ flights'[procs'[q].flight].flown = procs'[q].flown
    BY <1>1, <1>3, <2>1, <2>2 DEF InHand
  <2>4. ASSUME Sole(procs[q].flight, procs[q].dir.digest),
               NEW r \in SharedScenario.runs \ procs[q].flown
        PROVE  /\ \A e \in Shared!Dirs : e.digest = procs[q].dir.digest /\ e # procs[q].dir =>
                    disk'[e].bundles[r] = Shared!NoBundle
               /\ r \in procs'[q].doing => disk'[procs[q].dir].bundles[r].by = procs[q].flight
    <3>1. /\ \A e \in Shared!Dirs : e.digest = procs[q].dir.digest /\ e # procs[q].dir =>
               disk[e].bundles[r] = Shared!NoBundle
          /\ r \in procs[q].doing => disk[procs[q].dir].bundles[r].by = procs[q].flight
      BY <2>1, <2>4 DEF InHand
    <3>2. CASE q = p
      BY <1>1, <1>3, <2>1, <2>2, <2>4, <3>1, <3>2
    <3>3. CASE q # p
      <4>1. \A e \in Shared!Dirs : e.digest = procs[q].dir.digest =>
              disk'[e].bundles[r] = disk[e].bundles[r]
        BY <2>1, <2>4, <3>3 DEF Allowed
      <4> QED BY <1>1, <2>1, <3>1, <3>3, <4>1
    <3> QED BY <3>2, <3>3
  <2>5. Sole(procs[q].flight, procs[q].dir.digest)' => Sole(procs[q].flight, procs[q].dir.digest)
    BY <2>2 DEF Sole, Wrote
  <2> QED BY <2>2, <2>3, <2>4, <2>5 DEF InHand
<1>4. ASSUME NEW q \in Runs, NEW other \in Runs, q # other, procs'[q].at = "fly",
             procs'[other].at = "fly"
      PROVE  procs'[q].flight # procs'[other].flight
  BY <1>1, <1>4 DEF BundlesInv
<1> QED BY <1>2, <1>3, <1>4 DEF BundlesInv

\* A step that writes no bundle.
LEMMA BundlesKept ==
  ASSUME SharedInv, BundlesInv, NEW p \in Runs, NEW next,
         flights' = flights, procs' = [procs EXCEPT ![p] = next],
         \A e \in Shared!Dirs : disk'[e].bundles = disk[e].bundles,
         next.at # "fly"
  PROVE  BundlesInv'
<1>1. PICK d : d \notin Shared!Dirs
  BY Zenon, NoSetContainsEverything
<1> QED BY <1>1, BundlesWritten

\* The steps that leave every bundle as it is: before and after an execution, and of a report.
LEMMA BundlesUntouched ==
  ASSUME SharedInv, BundlesInv, NEW p \in Runs,
         \/ Shared!Begin(p) \/ Shared!Reuse(p) \/ Shared!Gather(p) \/ Shared!WriteSummary(p)
         \/ Shared!WriteMeta(p) \/ Shared!WritePage(p) \/ Shared!Compare(p) \/ Shared!LinkRuns(p)
         \/ Shared!WriteOutput(p) \/ Shared!WriteCompare(p) \/ Shared!BeginPromotion(p)
  PROVE  BundlesInv'
<1>1. PICK me : me = procs[p]
  OBVIOUS
<1>2. me \in Processes /\ procs \in [Runs -> Processes] /\ disk \in [Shared!Dirs -> Contents]
  BY <1>1, KnownOfProcess DEF SharedInv, SharedTypes
<1>3. flights' = flights
  BY DEF Shared!Begin, Shared!Reuse, Shared!Gather, Shared!WriteSummary, Shared!WriteMeta,
         Shared!WritePage, Shared!Compare, Shared!LinkRuns, Shared!WriteOutput,
         Shared!WriteCompare, Shared!BeginPromotion
<1>4. \A d \in Shared!Dirs : disk'[d].bundles = disk[d].bundles
  <2>1. CASE Shared!WriteSummary(p)
    BY <1>1, <1>2, <2>1 DEF Shared!WriteSummary, Contents
  <2>2. CASE Shared!WriteMeta(p)
    BY <1>1, <1>2, <2>2 DEF Shared!WriteMeta, Contents
  <2>3. CASE Shared!WritePage(p)
    BY <1>1, <1>2, <2>3 DEF Shared!WritePage, Contents
  <2>4. CASE disk' = disk
    BY <2>4
  <2> QED
    BY <2>1, <2>2, <2>3, <2>4
    DEF Shared!Begin, Shared!Reuse, Shared!Gather, Shared!Compare, Shared!LinkRuns,
        Shared!WriteOutput, Shared!WriteCompare, Shared!BeginPromotion
<1>5. Shared!Idle.at = "idle" /\ \A other : Shared!Returned(other).at = "done"
  BY DEF Shared!Idle, Shared!Returned
<1>6. \A at : [me EXCEPT !.at = at].at = at
  BY <1>2 DEF Processes
<1>7. PICK next : procs' = [procs EXCEPT ![p] = next] /\ next.at # "fly"
  <2>1. CASE Shared!Begin(p)
    <3>1. PICK reuse \in SharedScenario.reuses, compare \in SharedScenario.compares,
               skip \in BOOLEAN, parallel \in SharedScenario.parallels :
            /\ compare = "none" => skip
            /\ procs' = [procs EXCEPT ![p] =
                 [Shared!Idle EXCEPT !.at = "look", !.code = work, !.dir = Shared!HereDir,
                    !.reuse = reuse, !.compare = compare, !.skip = skip, !.parallel = parallel]]
      BY <2>1, Zenon DEF Shared!Begin
    <3>2. PICK next : next =
              [Shared!Idle EXCEPT !.at = "look", !.code = work, !.dir = Shared!HereDir,
                 !.reuse = reuse, !.compare = compare, !.skip = skip, !.parallel = parallel]
      OBVIOUS
    <3>3. next.at = "look"
      BY <3>2 DEF Shared!Idle
    <3> QED BY <3>1, <3>2, <3>3
  <2>2. CASE Shared!Reuse(p)
    <3>1. PICK next : next = [me EXCEPT !.at = "compare", !.report = disk[me.dir].report]
      OBVIOUS
    <3>2. procs' = [procs EXCEPT ![p] = next] /\ next.at = "compare"
      BY <1>1, <1>2, <2>2, <3>1 DEF Shared!Reuse, Processes
    <3> QED BY <3>2
  <2>3. CASE Shared!Gather(p)
    <3>1. PICK report : report = [flight |-> me.flight, home |-> me.dir]
      OBVIOUS
    <3>2. PICK next : next = IF me.failed # {} THEN Shared!Idle
                             ELSE [me EXCEPT !.at = "summary", !.flown = {}, !.report = report]
      OBVIOUS
    <3>3. procs' = [procs EXCEPT ![p] = next]
      BY <1>1, <2>3, <3>1, <3>2 DEF Shared!Gather
    <3>4. next.at \in {"idle", "summary"}
      BY <1>2, <1>5, <3>2 DEF Processes
    <3> QED BY <3>3, <3>4
  <2>4. ASSUME NEW at, at # "fly", procs' = [procs EXCEPT ![p].at = at]
        PROVE  \E next : procs' = [procs EXCEPT ![p] = next] /\ next.at # "fly"
    <3>1. PICK next : next = [me EXCEPT !.at = at]
      OBVIOUS
    <3>2. procs' = [procs EXCEPT ![p] = next] /\ next.at = at
      BY <1>1, <1>2, <1>6, <2>4, <3>1
    <3> QED BY <2>4, <3>2
  <2>5. CASE Shared!WriteSummary(p) \/ Shared!WriteMeta(p)
    <3>1. \E at \in {"meta", "page"} : procs' = [procs EXCEPT ![p].at = at]
      BY <2>5 DEF Shared!WriteSummary, Shared!WriteMeta
    <3> QED BY <2>4, <3>1
  <2>6. CASE Shared!WritePage(p)
    <3>1. PICK next : next = IF me.source = Shared!NoDir THEN [me EXCEPT !.at = "compare"]
                             ELSE Shared!Returned(me)
      OBVIOUS
    <3>2. procs' = [procs EXCEPT ![p] = next] /\ next.at \in {"compare", "done"}
      BY <1>1, <1>5, <1>6, <2>6, <3>1 DEF Shared!WritePage
    <3> QED BY <3>2
  <2>7. CASE Shared!Compare(p)
    <3>1. CASE Shared!Abandon(p)
      BY <1>5, <3>1 DEF Shared!Abandon
    <3>2. ASSUME NEW d, Shared!Against(p, d)
          PROVE  \E next : procs' = [procs EXCEPT ![p] = next] /\ next.at # "fly"
      <4>1. PICK compared : compared = [me EXCEPT !.at = "output", !.baseline = d]
        OBVIOUS
      <4>2. compared.at = "output"
        BY <1>2, <4>1 DEF Processes
      <4>3. PICK next : next = IF SharedScenario.output THEN compared
                               ELSE Shared!Returned(compared)
        OBVIOUS
      <4>4. procs' = [procs EXCEPT ![p] = next] /\ next.at \in {"output", "done"}
        BY <1>1, <1>5, <3>2, <4>1, <4>2, <4>3 DEF Shared!Against
      <4> QED BY <4>4
    <3> QED BY <2>7, <3>1, <3>2, SharedBaseline
  <2>8. CASE Shared!LinkRuns(p) \/ Shared!WriteOutput(p)
    <3>1. \E at \in {"report", "compare_json"} : procs' = [procs EXCEPT ![p].at = at]
      BY <2>8 DEF Shared!LinkRuns, Shared!WriteOutput
    <3> QED BY <2>4, <3>1
  <2>9. CASE Shared!WriteCompare(p)
    <3>1. procs' = [procs EXCEPT ![p] = Shared!Returned(me)]
      BY <1>1, <1>2, <2>9 DEF Shared!WriteCompare
    <3> QED BY <1>5, <3>1
  <2>10. CASE Shared!BeginPromotion(p)
    <3>1. PICK target :
            target = Shared!Dir(Shared!LastCommit, Shared!Clean, SharedScenario.digest[work])
      OBVIOUS
    <3>2. PICK source \in Shared!PromotionSources(target) :
            LET found == disk[source].report IN
            procs' = [procs EXCEPT ![p] =
              [Shared!Idle EXCEPT !.at = "clear", !.dir = target, !.source = source,
                 !.left = Shared!Parts,
                 !.report = [found EXCEPT !.home = IF @ = source THEN target ELSE @]]]
      BY <2>10, <3>1 DEF Shared!BeginPromotion
    <3>3. PICK report :
             report = [disk[source].report EXCEPT !.home = IF @ = source THEN target ELSE @]
      OBVIOUS
    <3>4. PICK next : next =
              [Shared!Idle EXCEPT !.at = "clear", !.dir = target, !.source = source,
                 !.left = Shared!Parts, !.report = report]
      OBVIOUS
    <3>5. next.at = "clear"
      BY <3>4 DEF Shared!Idle
    <3> QED BY <3>2, <3>3, <3>4, <3>5
  <2> QED BY <2>1, <2>2, <2>3, <2>5, <2>6, <2>7, <2>8, <2>9, <2>10
<1> QED BY <1>3, <1>4, <1>7, BundlesKept

\* One bundle of one directory is written.
OneIsWritten(d, r, bundle) ==
  /\ \A e \in Shared!Dirs \ {d} : disk'[e].bundles = disk[e].bundles
  /\ \A s \in SharedScenario.runs :
       disk'[d].bundles[s] = IF s = r THEN bundle ELSE disk[d].bundles[s]

\* What a directory's bundle becomes when one of its runs is given another.
LEMMA OneBundle ==
  ASSUME SharedInv, NEW d \in Shared!Dirs, NEW r \in SharedScenario.runs, NEW bundle,
         disk' = [disk EXCEPT ![d].bundles[r] = bundle]
  PROVE  OneIsWritten(d, r, bundle)
<1>1. disk \in [Shared!Dirs -> Contents] /\ disk[d] \in Contents
  BY DEF SharedInv, SharedTypes
<1>2. PICK bundles : bundles = [disk[d].bundles EXCEPT ![r] = bundle]
  OBVIOUS
<1>3. \A s \in SharedScenario.runs : bundles[s] = IF s = r THEN bundle ELSE disk[d].bundles[s]
  BY <1>1, <1>2 DEF Contents
<1>4. disk' = [disk EXCEPT ![d].bundles = bundles]
  BY <1>1, <1>2
<1>5. disk'[d].bundles = bundles
  BY <1>1, <1>4 DEF Contents
<1>6. \A e \in Shared!Dirs \ {d} : disk'[e] = disk[e]
  BY <1>1, <1>4
<1> QED BY <1>3, <1>5, <1>6 DEF OneIsWritten

\* A bundle that its execution opens, gives up or leaves half written: none of those that have
\* flown the run is the only one, and nobody else who flies is.
LEMMA OwnBundle ==
  ASSUME SharedInv, BundlesInv, NEW p \in Runs, procs[p].at = "fly",
         NEW r \in SharedScenario.runs \ procs[p].flown, NEW bundle,
         bundle.by \in {procs[p].flight, Shared!Nobody}
  PROVE  Allowed(p, procs[p].dir, r, bundle)
<1>1. Wrote(procs[p].flight, procs[p].dir.digest) /\ procs[p].flight \in 1..Len(flights)
  BY FlyerWrote
<1>2. flights[procs[p].flight].flown = procs[p].flown
  BY DEF BundlesInv, InHand
<1>3. \A f \in 1..Len(flights) : Sole(f, procs[p].dir.digest) => f = procs[p].flight
  BY <1>1 DEF Sole
<1>4. Told(bundle, procs[p].dir.digest, r)
  BY <1>1, <1>2, <1>3 DEF Told
<1>5. \A q \in Runs \ {p} : procs[q].at = "fly" => ~Sole(procs[q].flight, procs[p].dir.digest)
  BY FlyersApart
<1> QED BY <1>4, <1>5 DEF Allowed

\* A bundle is opened.
LEMMA BundleStarted ==
  ASSUME SharedInv, BundlesInv, NEW p \in Runs, Shared!StartBundle(p)
  PROVE  BundlesInv'
<1>1. PICK me : me = procs[p]
  OBVIOUS
<1>2. me \in Processes /\ me.at = "fly" /\ me.dir \in Shared!Dirs /\ InHand(me)
  BY <1>1, KnownOfProcess, FlyerWrote DEF Shared!StartBundle, BundlesInv
<1>3. PICK r \in Shared!Open(p) :
        /\ disk' = [disk EXCEPT ![me.dir].bundles[r].by = me.flight]
        /\ procs' = [procs EXCEPT ![p].doing = @ \cup {r}]
  BY <1>1 DEF Shared!StartBundle
<1>4. r \in SharedScenario.runs \ me.flown
  BY <1>1, <1>3 DEF Shared!Open
<1>5. PICK bundle : bundle = [disk[me.dir].bundles[r] EXCEPT !.by = me.flight]
  OBVIOUS
<1>6. bundle.by = me.flight
  BY <1>2, <1>4, <1>5 DEF SharedInv, SharedTypes, Contents
<1>7. disk' = [disk EXCEPT ![me.dir].bundles[r] = bundle]
  BY <1>3, <1>5
<1>8. PICK next : next = [me EXCEPT !.doing = @ \cup {r}]
  OBVIOUS
<1>9. procs' = [procs EXCEPT ![p] = next]
  BY <1>1, <1>3, <1>8 DEF SharedInv, SharedTypes
<1>10. next.at = "fly" /\ next.flight = me.flight /\ next.flown = me.flown /\ next.dir = me.dir
       /\ next.doing = me.doing \cup {r}
  BY <1>2, <1>8 DEF Processes
<1>11. OneIsWritten(me.dir, r, bundle)
  BY <1>2, <1>4, <1>7, OneBundle
<1>12. Allowed(p, me.dir, r, bundle)
  BY <1>1, <1>2, <1>4, <1>6, OwnBundle
<1>13. next.doing \cap next.flown = {}
  BY <1>2, <1>4, <1>10 DEF InHand
<1>14. Sole(next.flight, me.dir.digest) =>
         \A s \in next.doing : disk'[me.dir].bundles[s].by = next.flight
  <2> SUFFICES ASSUME Sole(me.flight, me.dir.digest), NEW s \in me.doing, s # r
               PROVE  disk'[me.dir].bundles[s].by = me.flight
    BY <1>4, <1>6, <1>10, <1>11 DEF OneIsWritten
  <2>1. s \in SharedScenario.runs \ me.flown
    BY <1>2 DEF InHand, Processes
  <2>2. disk[me.dir].bundles[s].by = me.flight
    BY <1>2, <2>1 DEF InHand
  <2> QED BY <1>11, <2>1, <2>2 DEF OneIsWritten
<1>15. flights' = flights
  BY DEF Shared!StartBundle
<1> QED
  BY <1>1, <1>2, <1>9, <1>10, <1>11, <1>12, <1>13, <1>14, <1>15, BundlesWritten DEF OneIsWritten

\* A run fails: the bundle it was writing is nobody's.
LEMMA BundleFailed ==
  ASSUME SharedInv, BundlesInv, NEW p \in Runs, Shared!FailRun(p)
  PROVE  BundlesInv'
<1>1. PICK me : me = procs[p]
  OBVIOUS
<1>2. me \in Processes /\ me.at = "fly" /\ me.dir \in Shared!Dirs /\ InHand(me)
  BY <1>1, KnownOfProcess, FlyerWrote DEF Shared!FailRun, BundlesInv
<1>3. PICK r \in me.doing \cup Shared!Open(p) :
        /\ procs' = [procs EXCEPT ![p].doing = @ \ {r}, ![p].failed = @ \cup {r}]
        /\ disk' = IF r \in me.doing THEN [disk EXCEPT ![me.dir].bundles[r].by = Shared!Nobody]
                   ELSE disk
  BY <1>1 DEF Shared!FailRun
<1>4. r \in SharedScenario.runs \ me.flown
  BY <1>1, <1>2, <1>3 DEF Shared!Open, InHand, Processes
<1>5. PICK next : next = [me EXCEPT !.doing = @ \ {r}, !.failed = @ \cup {r}]
  OBVIOUS
<1>6. procs' = [procs EXCEPT ![p] = next]
  BY <1>1, <1>2, <1>3, <1>5 DEF SharedInv, SharedTypes, Processes
<1>7. next.at = "fly" /\ next.flight = me.flight /\ next.flown = me.flown /\ next.dir = me.dir
      /\ next.doing = me.doing \ {r}
  BY <1>2, <1>5 DEF Processes
<1>8. PICK bundle : bundle = IF r \in me.doing
                             THEN [disk[me.dir].bundles[r] EXCEPT !.by = Shared!Nobody]
                             ELSE disk[me.dir].bundles[r]
  OBVIOUS
<1>9. OneIsWritten(me.dir, r, bundle)
  <2>1. CASE r \in me.doing
    <3>1. disk' = [disk EXCEPT ![me.dir].bundles[r] = bundle]
      BY <1>3, <1>8, <2>1
    <3> QED BY <1>2, <1>4, <3>1, OneBundle
  <2>2. CASE r \notin me.doing
    BY <1>3, <1>8, <2>2 DEF OneIsWritten
  <2> QED BY <2>1, <2>2
<1>10. bundle = disk[me.dir].bundles[r] \/ Allowed(p, me.dir, r, bundle)
  <2>1. CASE r \in me.doing
    <3>1. bundle.by = Shared!Nobody
      BY <1>2, <1>4, <1>8, <2>1 DEF SharedInv, SharedTypes, Contents
    <3> QED BY <1>1, <1>2, <1>4, <3>1, OwnBundle
  <2>2. CASE r \notin me.doing
    BY <1>8, <2>2
  <2> QED BY <2>1, <2>2
<1>11. next.doing \cap next.flown = {}
  BY <1>2, <1>7 DEF InHand
<1>12. Sole(next.flight, me.dir.digest) =>
         \A s \in next.doing : disk'[me.dir].bundles[s].by = next.flight
  <2> SUFFICES ASSUME Sole(me.flight, me.dir.digest), NEW s \in me.doing, s # r
               PROVE  disk'[me.dir].bundles[s].by = me.flight
    BY <1>7
  <2>1. s \in SharedScenario.runs \ me.flown
    BY <1>2 DEF InHand, Processes
  <2>2. disk[me.dir].bundles[s].by = me.flight
    BY <1>2, <2>1 DEF InHand
  <2> QED BY <1>9, <2>1, <2>2 DEF OneIsWritten
<1>13. flights' = flights
  BY DEF Shared!FailRun
<1> QED
  BY <1>1, <1>2, <1>6, <1>7, <1>9, <1>10, <1>11, <1>12, <1>13, BundlesWritten DEF OneIsWritten

\* A promotion clears its target, and copies what flew the same resolved runs.
LEMMA BundlesMoved ==
  ASSUME SharedInv, BundlesInv, NEW p \in Runs, Shared!ClearPart(p) \/ Shared!CopyPart(p)
  PROVE  BundlesInv'
<1>1. PICK me : me = procs[p]
  OBVIOUS
<1>2. me \in Processes /\ me.at \in {"clear", "copy"} /\ me.dir \in Shared!Dirs
      /\ InFull(me.report, me.dir.digest) /\ me.source \in Shared!Dirs
      /\ me.source.digest = me.dir.digest
  BY <1>1, KnownOfProcess DEF Shared!ClearPart, Shared!CopyPart, Honest
<1>3. PICK from \in Contents, part \in Shared!Parts :
        /\ from \in {Shared!Empty, disk[me.source]}
        /\ disk' = [disk EXCEPT ![me.dir] = Shared!WithPart(@, part, from)]
  <2>1. disk[me.source] \in Contents /\ Shared!Empty \in Contents /\ me.left \subseteq Shared!Parts
    BY <1>2, EmptyIsContent DEF SharedInv, SharedTypes, Processes
  <2> QED BY <1>1, <2>1 DEF Shared!ClearPart, Shared!CopyPart
<1>4. disk[me.dir] \in Contents /\ disk \in [Shared!Dirs -> Contents]
  BY <1>2 DEF SharedInv, SharedTypes
<1>5. PICK content : content = Shared!WithPart(disk[me.dir], part, from)
  OBVIOUS
<1>6. disk' = [disk EXCEPT ![me.dir] = content]
  BY <1>2, <1>3, <1>4, <1>5
<1>7. \A e \in Shared!Dirs \ {me.dir} : disk'[e].bundles = disk[e].bundles
  BY <1>4, <1>6
<1>8. \A r \in SharedScenario.runs :
        content.bundles[r] = disk[me.dir].bundles[r] \/ content.bundles[r] = from.bundles[r]
  <2>1. CASE part \in {"report", "meta", "page"}
    BY <1>4, <1>5, <2>1 DEF Shared!WithPart, Contents
  <2>2. CASE part \notin {"report", "meta", "page"}
    BY <1>3, <1>4, <1>5, <2>2 DEF Shared!WithPart, Shared!Parts, Contents
  <2> QED BY <2>1, <2>2
<1>9. \A r \in SharedScenario.runs : Allowed(p, me.dir, r, from.bundles[r])
  <2> TAKE r \in SharedScenario.runs
  <2>1. Told(from.bundles[r], me.dir.digest, r)
    <3>1. CASE from = Shared!Empty
      <4>1. from.bundles[r] = Shared!NoBundle /\ Shared!NoBundle.by = Shared!Nobody
        BY <3>1 DEF Shared!Empty, Shared!NoBundle
      <4> QED BY <4>1 DEF Told
    <3>2. CASE from = disk[me.source]
      BY <1>2, <3>2 DEF BundlesInv
    <3> QED BY <1>3, <3>1, <3>2
  <2>2. \A q \in Runs \ {p} :
          procs[q].at = "fly" /\ Sole(procs[q].flight, me.dir.digest) => r \in procs[q].flown
    BY <1>2, ReportedHasFlown
  <2> QED BY <2>1, <2>2 DEF Allowed
<1>10. \A r \in SharedScenario.runs :
         \/ disk'[me.dir].bundles[r] = disk[me.dir].bundles[r]
         \/ Allowed(p, me.dir, r, disk'[me.dir].bundles[r])
  <2>1. disk'[me.dir] = content
    BY <1>2, <1>4, <1>6
  <2> QED BY <1>8, <1>9, <2>1
<1>11. PICK next : procs' = [procs EXCEPT ![p] = next] /\ next.at # "fly"
  <2>1. PICK left, at : procs' = [procs EXCEPT ![p].left = left, ![p].at = at]
                        /\ at \in {"clear", "copy", "summary"}
    <3>1. procs \in [Runs -> Processes] /\ me.at = procs[p].at
      BY <1>1 DEF SharedInv, SharedTypes
    <3>2. CASE Shared!ClearPart(p)
      <4>1. PICK gone :
              procs' = [procs EXCEPT
                ![p].left = IF @ = {gone} THEN Shared!Parts ELSE @ \ {gone},
                ![p].at = IF procs[p].left = {gone} THEN "copy" ELSE @]
        BY <3>2, Zenon DEF Shared!ClearPart
      <4>2. PICK left : left = IF me.left = {gone} THEN Shared!Parts ELSE me.left \ {gone}
        OBVIOUS
      <4>3. PICK at : at = IF me.left = {gone} THEN "copy" ELSE me.at
        OBVIOUS
      <4>4. procs' = [procs EXCEPT ![p].left = left, ![p].at = at]
        BY <1>1, <1>2, <3>1, <4>1, <4>2, <4>3 DEF Processes
      <4> QED BY <1>2, <4>3, <4>4
    <3>3. CASE Shared!CopyPart(p)
      <4>1. PICK gone :
              procs' = [procs EXCEPT
                ![p].left = @ \ {gone},
                ![p].at = IF procs[p].left = {gone} THEN "summary" ELSE @]
        BY <3>3, Zenon DEF Shared!CopyPart
      <4>2. PICK left : left = me.left \ {gone}
        OBVIOUS
      <4>3. PICK at : at = IF me.left = {gone} THEN "summary" ELSE me.at
        OBVIOUS
      <4>4. procs' = [procs EXCEPT ![p].left = left, ![p].at = at]
        BY <1>1, <1>2, <3>1, <4>1, <4>2, <4>3 DEF Processes
      <4> QED BY <1>2, <4>3, <4>4
    <3> QED BY <3>2, <3>3
  <2>2. PICK next : next = [me EXCEPT !.left = left, !.at = at]
    OBVIOUS
  <2>3. procs' = [procs EXCEPT ![p] = next] /\ next.at = at
    BY <1>1, <1>2, <2>1, <2>2 DEF SharedInv, SharedTypes, Processes
  <2> QED BY <2>1, <2>3
<1>12. flights' = flights
  BY DEF Shared!ClearPart, Shared!CopyPart
<1> QED BY <1>7, <1>10, <1>11, <1>12, BundlesWritten

\* A kill leaves half-written bundles nobody's.
LEMMA BundlesTorn ==
  ASSUME SharedInv, BundlesInv, NEW p \in Runs, Shared!Crash(p)
  PROVE  BundlesInv'
<1>1. PICK me : me = procs[p]
  OBVIOUS
<1>2. me \in Processes /\ Honest(me) /\ me.at \notin {"idle", "done"} /\ me.dir \in Shared!Dirs
  <2>1. me.at \notin {"idle", "done"}
    BY <1>1, Zenon DEF Shared!Crash
  <2>2. me \in Processes /\ Honest(me)
    BY <1>1, KnownOfProcess
  <2> QED BY <2>1, <2>2 DEF Honest
<1>3. disk[me.dir] \in Contents /\ disk \in [Shared!Dirs -> Contents]
  BY <1>2 DEF SharedInv, SharedTypes
<1>4. procs' = [procs EXCEPT ![p] = Shared!Idle] /\ flights' = flights
      /\ Shared!Idle.at # "fly"
  BY DEF Shared!Crash, Shared!Idle
<1>5. CASE me.at = "fly"
  <2>1. PICK all \in SUBSET procs[p].doing :
          disk' = [disk EXCEPT ![procs[p].dir].bundles =
            [r \in SharedScenario.runs |->
               IF r \notin procs[p].doing THEN @[r]
               ELSE [exists |-> @[r].exists \/ r \in all, by |-> Shared!Nobody]]]
    <3>1. procs[p].at = "fly"
      BY <1>1, <1>5
    <3> QED BY <3>1, Zenon DEF Shared!Crash
  <2>2. PICK bundles : bundles =
          [r \in SharedScenario.runs |->
             IF r \notin me.doing THEN disk[me.dir].bundles[r]
             ELSE [exists |-> disk[me.dir].bundles[r].exists \/ r \in all, by |-> Shared!Nobody]]
    OBVIOUS
  <2>3. disk' = [disk EXCEPT ![me.dir].bundles = bundles]
    BY <1>1, <1>2, <1>3, <2>1, <2>2
  <2>4. disk'[me.dir].bundles = bundles /\ \A e \in Shared!Dirs \ {me.dir} : disk'[e] = disk[e]
    BY <1>2, <1>3, <2>3 DEF Contents
  <2>5. ASSUME NEW r \in SharedScenario.runs
        PROVE  bundles[r] = disk[me.dir].bundles[r] \/ Allowed(p, me.dir, r, bundles[r])
    <3>1. CASE r \notin me.doing
      BY <2>2, <3>1
    <3>2. CASE r \in me.doing
      <4>1. bundles[r].by = Shared!Nobody
        BY <2>2, <3>2
      <4>2. r \notin me.flown
        BY <1>1, <1>5, <3>2 DEF BundlesInv, InHand
      <4> QED BY <1>1, <1>5, <4>1, <4>2, OwnBundle
    <3> QED BY <3>1, <3>2
  <2> QED BY <1>2, <1>4, <2>4, <2>5, BundlesWritten
<1>6. CASE me.at # "fly"
  <2>1. PICK content \in Shared!Tear(disk[me.dir], me.at) :
          disk' = [disk EXCEPT ![me.dir] = content]
    BY <1>1, <1>2, <1>6 DEF Shared!Crash
  <2>2. content.bundles = disk[me.dir].bundles
    <3>1. content \in {disk[me.dir], [disk[me.dir] EXCEPT !.report = Shared!Torn],
                       [disk[me.dir] EXCEPT !.meta = Shared!NoMeta],
                       [disk[me.dir] EXCEPT !.page = TRUE]}
      BY <2>1 DEF Shared!Tear
    <3> QED BY <1>3, <3>1 DEF Contents
  <2>3. \A e \in Shared!Dirs : disk'[e].bundles = disk[e].bundles
    BY <1>3, <2>1, <2>2
  <2> QED BY <1>4, <2>3, BundlesKept
<1> QED BY <1>5, <1>6

\* Another execution begins: where it is the first of its digest, there is nothing of it yet.
LEMMA BundlesAwait ==
  ASSUME SharedInv, BundlesInv, NEW p \in Runs, Shared!Execute(p)
  PROVE  BundlesInv'
<1>1. PICK me : me = procs[p]
  OBVIOUS
<1>2. me \in Processes /\ Honest(me) /\ me.at = "look"
  BY <1>1, KnownOfProcess DEF Shared!Execute
<1>3. PICK begun : begun = [code |-> me.code, flown |-> {}]
  OBVIOUS
<1>4. flights' = Append(flights, begun) /\ begun \in Flights /\ flights \in Seq(Flights)
  BY <1>1, <1>2, <1>3 DEF Shared!Execute, Flights, Processes, SharedInv, SharedTypes
<1>5. PICK made \in Nat : made = Len(flights)
  BY <1>4
<1>6. Len(flights') = made + 1 /\ flights'[made + 1] = begun
       /\ \A g \in 1..made : flights'[g] = flights[g]
  BY <1>4, <1>5
<1>7. PICK next : next = [me EXCEPT !.at = "fly", !.flight = made + 1,
                                    !.code = SharedScenario.initial]
  OBVIOUS
<1>8. \A q \in Runs : procs'[q] = IF q = p THEN next ELSE procs[q]
  BY <1>1, <1>2, <1>5, <1>7 DEF Shared!Execute, SharedInv, SharedTypes, Processes
<1>9. next.flight = made + 1 /\ next.flown = {} /\ next.doing = {}
      /\ next.dir = me.dir /\ me.dir \in Shared!Dirs
  BY <1>2, <1>7 DEF Honest, Processes
<1>10. disk' = disk
  BY DEF Shared!Execute
<1>11. ASSUME NEW digest
       PROVE  /\ \A g \in 1..made : Wrote(g, digest)' <=> Wrote(g, digest)
              /\ \A g \in 1..made : Sole(g, digest)' => Sole(g, digest)
              /\ Sole(made + 1, digest)' => \A g \in 1..made : ~Wrote(g, digest)
  <2>1. \A g \in 1..made : Wrote(g, digest)' <=> Wrote(g, digest)
    BY <1>5, <1>6 DEF Wrote
  <2>2. ASSUME NEW g \in 1..made, Sole(g, digest)'
        PROVE  Sole(g, digest)
    BY <1>5, <1>6, <2>1, <2>2 DEF Sole
  <2>3. ASSUME Sole(made + 1, digest)', NEW g \in 1..made, Wrote(g, digest)
        PROVE  FALSE
    BY <1>5, <1>6, <2>1, <2>3 DEF Sole
  <2> QED BY <2>1, <2>2, <2>3
<1>12. ASSUME NEW d \in Shared!Dirs, NEW r \in SharedScenario.runs
       PROVE  Told(disk[d].bundles[r], d.digest, r)'
  <2>1. PICK bundle : bundle = disk[d].bundles[r]
    OBVIOUS
  <2>2. Told(bundle, d.digest, r)
    BY <2>1 DEF BundlesInv
  <2>3. bundle.by = Shared!Nobody \/ Wrote(bundle.by, d.digest)'
    BY <1>5, <1>11, <2>2 DEF Told, Wrote
  <2>4. bundle # Shared!NoBundle => \E g \in 1..Len(flights') : Wrote(g, d.digest)'
    <3>1. SUFFICES ASSUME bundle # Shared!NoBundle
                   PROVE  \E g \in 1..Len(flights') : Wrote(g, d.digest)'
      OBVIOUS
    <3>2. PICK g \in 1..made : Wrote(g, d.digest)
      BY <1>5, <2>2, <3>1 DEF Told
    <3>3. Wrote(g, d.digest)' /\ g \in 1..Len(flights')
      BY <1>5, <1>6, <3>2 DEF Wrote
    <3> QED BY <3>3
  <2>5. ASSUME NEW f \in 1..Len(flights'), Sole(f, d.digest)', r \in flights'[f].flown
        PROVE  bundle \in {Shared!NoBundle, Own(f)}
    <3>1. f \in 1..made
      BY <1>3, <1>5, <1>6, <2>5
    <3> QED BY <1>5, <1>6, <1>11, <2>2, <2>5, <3>1 DEF Told
  <2> QED BY <1>10, <2>1, <2>3, <2>4, <2>5 DEF Told
<1>13. ASSUME NEW q \in Runs, procs'[q].at = "fly"
       PROVE  InHand(procs[q])'
  <2>1. CASE q = p
    <3>1. ASSUME Sole(made + 1, next.dir.digest)', NEW r \in SharedScenario.runs,
                 NEW d \in Shared!Dirs, d.digest = next.dir.digest
          PROVE  disk[d].bundles[r] = Shared!NoBundle
      <4>1. \A g \in 1..made : ~Wrote(g, d.digest)
        BY <1>11, <3>1
      <4>2. Told(disk[d].bundles[r], d.digest, r)
        BY DEF BundlesInv
      <4> QED BY <1>5, <4>1, <4>2 DEF Told
    <3>2. InHand(next)'
      BY <1>3, <1>5, <1>6, <1>9, <1>10, <3>1 DEF InHand
    <3> QED BY <1>8, <2>1, <3>2 DEF InHand, Sole, Wrote
  <2>2. CASE q # p
    <3>1. procs'[q] = procs[q] /\ procs[q].at = "fly" /\ InHand(procs[q])
      BY <1>8, <1>13, <2>2 DEF BundlesInv
    <3>2. procs[q].flight \in 1..made
      BY <1>5, <3>1, FlyerWrote
    <3>3. PICK other : other = procs[q]
      OBVIOUS
    <3>4. InHand(other)'
      BY <1>5, <1>6, <1>10, <1>11, <3>1, <3>2, <3>3 DEF InHand
    <3> QED BY <3>1, <3>3, <3>4 DEF InHand, Sole, Wrote
  <2> QED BY <2>1, <2>2
<1>14. ASSUME NEW q \in Runs, NEW other \in Runs, q # other, procs'[q].at = "fly",
              procs'[other].at = "fly"
       PROVE  procs'[q].flight # procs'[other].flight
  <2>1. \A each \in Runs : procs[each].at = "fly" => procs[each].flight \in 1..made
    BY <1>5, FlyerWrote
  <2> QED BY <1>5, <1>6, <1>8, <1>9, <1>14, <2>1 DEF BundlesInv
<1> QED BY <1>12, <1>13, <1>14 DEF BundlesInv

\* A bundle is finished: the only execution of its digest had it to itself.
LEMMA BundleFinished ==
  ASSUME SharedInv, BundlesInv, NEW p \in Runs, Shared!FinishBundle(p)
  PROVE  BundlesInv'
<1>1. PICK me : me = procs[p]
  OBVIOUS
<1>2. PICK r \in me.doing, by \in {me.flight, Shared!Nobody} :
        /\ by = IF disk[me.dir].bundles[r].by = me.flight /\ ~Shared!OthersIn(p, r)
                THEN me.flight ELSE Shared!Nobody
        /\ disk' = [disk EXCEPT ![me.dir].bundles[r] = [exists |-> TRUE, by |-> by]]
        /\ flights' = [flights EXCEPT ![me.flight].flown = @ \cup {r}]
        /\ procs' = [procs EXCEPT ![p].doing = @ \ {r}, ![p].flown = @ \cup {r}]
  BY <1>1 DEF Shared!FinishBundle
<1>3. me \in Processes /\ Honest(me) /\ me.at = "fly"
  BY <1>1, <1>2, KnownOfProcess DEF Honest
<1>4. InHand(me) /\ Wrote(me.flight, me.dir.digest) /\ me.flight \in 1..Len(flights)
      /\ me.dir \in Shared!Dirs
  BY <1>1, <1>3, FlyerWrote DEF BundlesInv
<1>5. r \in SharedScenario.runs \ me.flown
  BY <1>2, <1>3, <1>4 DEF InHand, Processes
<1>6. PICK bundle : bundle = [exists |-> TRUE, by |-> by]
  OBVIOUS
<1>7. OneIsWritten(me.dir, r, bundle)
  <2>1. disk' = [disk EXCEPT ![me.dir].bundles[r] = bundle]
    BY <1>2, <1>6
  <2> QED BY <1>4, <1>5, <2>1, OneBundle
<1>8. PICK next : next = [me EXCEPT !.doing = @ \ {r}, !.flown = @ \cup {r}]
  OBVIOUS
<1>9. \A q \in Runs : procs'[q] = IF q = p THEN next ELSE procs[q]
  BY <1>1, <1>2, <1>3, <1>8 DEF SharedInv, SharedTypes, Processes
<1>10. next.at = "fly" /\ next.flight = me.flight /\ next.dir = me.dir
       /\ next.doing = me.doing \ {r} /\ next.flown = me.flown \cup {r}
  BY <1>3, <1>8 DEF Processes
<1>11. Len(flights') = Len(flights) /\ flights \in Seq(Flights)
       /\ \A g \in 1..Len(flights) :
            /\ flights'[g].code = flights[g].code
            /\ flights'[g].flown = IF g = me.flight THEN flights[g].flown \cup {r}
                                   ELSE flights[g].flown
  <2>1. flights \in Seq(Flights) /\ flights[me.flight] \in Flights
    BY <1>4 DEF SharedInv, SharedTypes
  <2>2. PICK flight : flight = [flights[me.flight] EXCEPT !.flown = @ \cup {r}]
    OBVIOUS
  <2>3. flight.code = flights[me.flight].code /\ flight \in Flights
        /\ flight.flown = flights[me.flight].flown \cup {r}
    BY <1>5, <2>1, <2>2 DEF Flights
  <2>4. flights' = [flights EXCEPT ![me.flight] = flight]
    BY <1>2, <1>4, <2>1, <2>2
  <2>5. Len(flights') = Len(flights)
        /\ \A g \in 1..Len(flights) : flights'[g] = IF g = me.flight THEN flight ELSE flights[g]
    BY <2>1, <2>3, <2>4
  <2> QED BY <2>1, <2>3, <2>5
<1>12. \A g, digest : (Wrote(g, digest)' <=> Wrote(g, digest))
                      /\ (Sole(g, digest)' <=> Sole(g, digest))
  BY <1>11 DEF Wrote, Sole
<1>13. \A q \in Runs \ {p} : procs[q].at = "fly" => ~Sole(me.flight, procs[q].dir.digest)
                                                    /\ ~Sole(procs[q].flight, me.dir.digest)
  BY <1>1, <1>3, FlyersApart
<1>14. Sole(me.flight, me.dir.digest) => by = me.flight
  <2> SUFFICES ASSUME Sole(me.flight, me.dir.digest) PROVE by = me.flight
    OBVIOUS
  <2>1. disk[me.dir].bundles[r].by = me.flight
    BY <1>2, <1>4, <1>5 DEF InHand
  <2>2. ~Shared!OthersIn(p, r)
    <3>1. \A q \in Runs : r \in procs[q].doing => procs[q].at = "fly"
      BY KnownOfProcess DEF Honest
    <3> QED BY <1>1, <1>13, <3>1 DEF Shared!OthersIn
  <2> QED BY <1>2, <2>1, <2>2
<1>15. ASSUME NEW e \in Shared!Dirs, NEW s \in SharedScenario.runs
       PROVE  Told(disk[e].bundles[s], e.digest, s)'
  <2>1. PICK now : now = disk'[e].bundles[s]
    OBVIOUS
  <2>2. Told(disk[e].bundles[s], e.digest, s)
    BY DEF BundlesInv
  <2>3. CASE e = me.dir /\ s = r
    <3>1. now = bundle /\ bundle.by = by
      BY <1>6, <1>7, <2>1, <2>3 DEF OneIsWritten
    <3>2. \A f : Sole(f, e.digest) => f = me.flight
      BY <1>4, <2>3 DEF Sole
    <3>3. \A f : Sole(f, e.digest) => now = Own(f)
      BY <1>6, <1>14, <2>3, <3>1, <3>2 DEF Own
    <3>4. by \in {me.flight, Shared!Nobody}
      BY <1>2
    <3> QED BY <1>4, <1>11, <1>12, <2>1, <2>3, <3>1, <3>3, <3>4 DEF Told
  <2>4. CASE ~(e = me.dir /\ s = r)
    <3>1. now = disk[e].bundles[s]
      BY <1>7, <2>1, <2>4 DEF OneIsWritten
    <3>2. ASSUME NEW f \in 1..Len(flights), Sole(f, e.digest), s \in flights'[f].flown
          PROVE  now \in {Shared!NoBundle, Own(f)}
      <4>1. CASE s \in flights[f].flown
        BY <2>2, <3>1, <3>2, <4>1 DEF Told
      <4>2. CASE s \notin flights[f].flown
        <5>1. f = me.flight /\ s = r /\ e # me.dir
          BY <1>11, <2>4, <3>2, <4>2
        <5>2. e.digest = me.dir.digest
          BY <1>4, <3>2, <5>1 DEF Sole, Wrote
        <5> QED BY <1>4, <1>5, <3>1, <3>2, <5>1, <5>2 DEF InHand
      <4> QED BY <4>1, <4>2
    <3> QED BY <1>11, <1>12, <2>1, <2>2, <3>1, <3>2 DEF Told
  <2> QED BY <2>3, <2>4
<1>16. ASSUME NEW q \in Runs, procs'[q].at = "fly"
       PROVE  InHand(procs[q])'
  <2>1. CASE q = p
    <3>1. ASSUME Sole(me.flight, me.dir.digest), NEW s \in SharedScenario.runs \ next.flown
          PROVE  /\ \A d \in Shared!Dirs : d.digest = me.dir.digest /\ d # me.dir =>
                      disk'[d].bundles[s] = Shared!NoBundle
                 /\ s \in next.doing => disk'[me.dir].bundles[s].by = me.flight
      BY <1>4, <1>7, <1>10, <3>1 DEF InHand, OneIsWritten
    <3>2. next.doing \cap next.flown = {} /\ flights'[next.flight].flown = next.flown
      BY <1>4, <1>10, <1>11 DEF InHand
    <3> QED BY <1>9, <1>10, <1>12, <2>1, <3>1, <3>2 DEF InHand
  <2>2. CASE q # p
    <3>1. procs'[q] = procs[q] /\ procs[q].at = "fly" /\ InHand(procs[q])
      BY <1>9, <1>16, <2>2 DEF BundlesInv
    <3>2. procs[q].flight \in 1..Len(flights) /\ procs[q].flight # me.flight
          /\ procs[q].dir \in Shared!Dirs
      BY <1>1, <1>3, <2>2, <3>1, FlyerWrote DEF BundlesInv
    <3>3. PICK other : other = procs[q]
      OBVIOUS
    <3>4. ASSUME Sole(other.flight, other.dir.digest)
          PROVE  \A d \in Shared!Dirs : d.digest = other.dir.digest =>
                   disk'[d].bundles = disk[d].bundles
      BY <1>7, <1>13, <2>2, <3>1, <3>3, <3>4 DEF OneIsWritten
    <3>5. /\ other.doing \cap other.flown = {} /\ flights'[other.flight].flown = other.flown
          /\ Sole(other.flight, other.dir.digest) =>
               \A s \in SharedScenario.runs \ other.flown :
                 /\ \A d \in Shared!Dirs : d.digest = other.dir.digest /\ d # other.dir =>
                      disk'[d].bundles[s] = Shared!NoBundle
                 /\ s \in other.doing => disk'[other.dir].bundles[s].by = other.flight
      <4>1. other.doing \cap other.flown = {} /\ flights'[other.flight].flown = other.flown
        BY <1>11, <3>1, <3>2, <3>3 DEF InHand
      <4>2. ASSUME Sole(other.flight, other.dir.digest),
                   NEW s \in SharedScenario.runs \ other.flown
            PROVE  /\ \A d \in Shared!Dirs : d.digest = other.dir.digest /\ d # other.dir =>
                        disk'[d].bundles[s] = Shared!NoBundle
                   /\ s \in other.doing => disk'[other.dir].bundles[s].by = other.flight
        BY <3>1, <3>2, <3>3, <3>4, <4>2 DEF InHand
      <4> QED BY <4>1, <4>2
    <3> QED BY <1>12, <3>1, <3>3, <3>5 DEF InHand
  <2> QED BY <2>1, <2>2
<1>17. ASSUME NEW q \in Runs, NEW other \in Runs, q # other, procs'[q].at = "fly",
              procs'[other].at = "fly"
       PROVE  procs'[q].flight # procs'[other].flight
  BY <1>1, <1>3, <1>9, <1>10, <1>17 DEF BundlesInv
<1> QED BY <1>15, <1>16, <1>17 DEF BundlesInv

\* At first there is no bundle.
LEMMA BundlesBegin ==
  ASSUME Shared!Init
  PROVE  BundlesInv
<1>1. \A d \in Shared!Dirs, r \in SharedScenario.runs : disk[d].bundles[r] = Shared!NoBundle
  BY DEF Shared!Init, Shared!Empty
<1>2. Shared!NoBundle.by = Shared!Nobody
  BY DEF Shared!NoBundle
<1>3. \A p \in Runs : procs[p].at = "idle"
  BY DEF Shared!Init, Shared!Idle
<1> QED BY <1>1, <1>2, <1>3 DEF BundlesInv, Told

\* Every step of every process and of the workspace keeps what is known of the bundles.
LEMMA BundlesStep ==
  ASSUME SharedInv, BundlesInv, Shared!Next \/ UNCHANGED cacheVars
  PROVE  BundlesInv'
<1>1. CASE UNCHANGED cacheVars
  BY <1>1 DEF cacheVars, BundlesInv, Told, InHand, Sole, Wrote
<1>2. CASE Shared!Edit \/ Shared!Commit
  BY <1>2 DEF Shared!Edit, Shared!Commit, BundlesInv, Told, InHand, Sole, Wrote
<1>3. ASSUME NEW p \in Runs, Shared!RunPack(p)
      PROVE  BundlesInv'
  BY <1>3, BundlesUntouched, BundlesAwait, BundleStarted, BundleFinished, BundleFailed, Zenon
  DEF Shared!RunPack
<1>4. ASSUME NEW p \in Runs, Shared!Promote(p)
      PROVE  BundlesInv'
  BY <1>4, BundlesUntouched, BundlesMoved, Zenon DEF Shared!Promote
<1> QED BY <1>1, <1>2, <1>3, <1>4, BundlesTorn, Zenon DEF Shared!Next

\* What validates is flown in full, and names what it should.
LEMMA SharedTells ==
  ASSUME SharedInv, BundlesInv
  PROVE  Shared!FlownInFull
<1> SUFFICES ASSUME NEW d \in Shared!Dirs, Shared!Valid(d)
             PROVE  LET report == disk[d].report
                        own == [exists |-> TRUE, by |-> report.flight] IN
                    /\ flights[report.flight].flown = SharedScenario.runs
                    /\ report.flight \in Shared!Executions(d.digest)
                    /\ \A r \in SharedScenario.runs :
                         LET bundle == disk[report.home].bundles[r] IN
                         /\ bundle.by \in {Shared!Nobody} \cup Shared!Executions(d.digest)
                         /\ Shared!Executions(d.digest) = {report.flight} => bundle = own
  BY DEF Shared!FlownInFull
<1>1. PICK report : report = disk[d].report
  OBVIOUS
<1>2. InFull(report, d.digest) /\ \A r \in SharedScenario.runs : disk[report.home].bundles[r].exists
  BY <1>1 DEF SharedInv, Shared!Valid, Shared!Compatible, Shared!BundlesExist
<1>3. report.home \in Shared!Dirs /\ report.home.digest = d.digest
      /\ report.flight \in 1..Len(flights)
      /\ flights[report.flight].flown = SharedScenario.runs
      /\ SharedScenario.digest[flights[report.flight].code] = d.digest
  BY <1>2 DEF InFull, Report
<1>4. \A g : Wrote(g, d.digest) <=> g \in Shared!Executions(d.digest)
  BY DEF Wrote, Shared!Executions
<1>5. report.flight \in Shared!Executions(d.digest)
  BY <1>3 DEF Shared!Executions
<1>6. ASSUME NEW r \in SharedScenario.runs, NEW bundle, bundle = disk[report.home].bundles[r]
      PROVE  /\ bundle.by \in {Shared!Nobody} \cup Shared!Executions(d.digest)
             /\ Shared!Executions(d.digest) = {report.flight} => bundle = Own(report.flight)
  <2>1. Told(bundle, d.digest, r) /\ bundle.exists
    BY <1>2, <1>3, <1>6 DEF BundlesInv
  <2>2. ~Shared!NoBundle.exists
    BY DEF Shared!NoBundle
  <2>3. Shared!Executions(d.digest) = {report.flight} => Sole(report.flight, d.digest)
    BY <1>4, <1>5 DEF Sole
  <2> QED BY <1>3, <1>4, <2>1, <2>2, <2>3 DEF Told
<1> QED BY <1>1, <1>3, <1>5, <1>6 DEF Own

\* For every number of processes, runs, contents of the workspace, commits and executions: a cached
\* batch that validates reports an execution every run of which succeeded, under the digest of its
\* stem, whatever processes ran beside each other, failed, were killed or promoted it; the bundles
\* it names are of executions of the same resolved runs, and all of the reported one where no other
\* was made (execute_resolved_runs, write_batch_cache_dir, promote_pack_cache).
THEOREM EveryCachedBatchIsFlownInFull == EvaluationSpec => []CachedIsFlownInFull
<1> DEFINE Inv == setting = "shared" => SharedInv /\ BundlesInv
<1>1. EvaluationInit => Inv
  BY SharedBegins, BundlesBegin DEF EvaluationInit
<1>2. Inv /\ [EvaluationNext]_allVars => Inv'
  <2> SUFFICES ASSUME Inv, [EvaluationNext]_allVars, setting' = "shared"
               PROVE  (SharedInv /\ BundlesInv)'
    OBVIOUS
  <2>1. setting = "shared" /\ (Shared!Next \/ UNCHANGED cacheVars)
    BY DEF EvaluationNext, allVars
  <2> QED BY <2>1, SharedStep, BundlesStep
<1>3. Inv => CachedIsFlownInFull
  BY SharedTells DEF CachedIsFlownInFull
<1> QED BY <1>1, <1>2, <1>3, PTL DEF EvaluationSpec

----------------------------------------------------------------------------
(* The batch cache, with one process that is killed at any point.           *)

AloneReport == [flight : Nat \ {Alone!Nobody}, home : Alone!Dirs]
AloneReports == AloneReport \cup {Alone!NoReport, Alone!Torn}
AloneContents ==
  [bundles : [AloneScenario.runs -> [exists : BOOLEAN, by : Nat]], report : AloneReports,
   meta : Nat, page : BOOLEAN]
AloneFlights == [code : AloneScenario.codes, flown : SUBSET AloneScenario.runs]
Baselines == Alone!Dirs \cup {Alone!NoDir}
Workers ==
  [at : {"idle", "look", "fly", "summary", "meta", "page", "compare", "output", "report",
         "compare_json", "done"},
   code : AloneScenario.codes, dir : Baselines, reuse : {TRUE},
   compare : {"none", "auto", "HEAD", "dir"}, skip : BOOLEAN, parallel : BOOLEAN, flight : Nat,
   doing : SUBSET AloneScenario.runs, flown : SUBSET AloneScenario.runs,
   failed : SUBSET AloneScenario.runs, report : AloneReports, source : {Alone!NoDir},
   left : {{}}, baseline : Baselines]
AloneTypes ==
  /\ history \in Seq(AloneScenario.codes) /\ Len(history) \in 1..AloneScenario.commits
  /\ work \in AloneScenario.codes
  /\ disk \in [Alone!Dirs -> AloneContents]
  /\ output \in [links : AloneReports, report : AloneReports, compare : Baselines]
  /\ flights \in Seq(AloneFlights)
  /\ procs \in [{"p"} -> Workers]

\* All bundles of a directory are those of the execution that this report is of.
AllFrom(content, report) ==
  \A r \in AloneScenario.runs : content.bundles[r] = [exists |-> TRUE, by |-> report.flight]

\* The page is the last file: where it is, everything is.
Sealed(d, content) ==
  content.page =>
    /\ content.report \in AloneReport /\ content.report.home = d
    /\ content.meta # Alone!NoMeta
    /\ AllFrom(content, content.report)

\* What the process has put into its directory, after so many executions.
Flying(me, content, made) ==
  /\ me.flight \in 1..made /\ ~content.page
  /\ me.doing \cap me.flown = {}
  /\ \A r \in me.doing : content.bundles[r].by = me.flight
  /\ \A r \in me.flown : content.bundles[r] = [exists |-> TRUE, by |-> me.flight]
Sealing(me, content, made) ==
  /\ ~content.page /\ made > 0
  /\ me.report \in AloneReport /\ me.report.home = me.dir /\ AllFrom(content, me.report)
  /\ me.at \in {"meta", "page"} => content.report = me.report
  /\ me.at = "page" => content.meta # Alone!NoMeta
Reusable(me, content, out) ==
  /\ content.page /\ content.report = me.report
  /\ me.at \in {"report", "compare_json"} => out.links = me.report
  /\ me.at = "compare_json" => out.report = me.report
  /\ me.at = "done" /\ AloneScenario.output =>
       out = [links |-> me.report, report |-> me.report, compare |-> me.baseline]
Careful(me, content, made, out) ==
  /\ me.dir \in Alone!Dirs
  /\ me.at # "fly" => me.doing = {}
  /\ me.at = "look" => me.flown = {}
  /\ me.at = "fly" => Flying(me, content, made)
  /\ me.at \in {"summary", "meta", "page"} => Sealing(me, content, made)
  /\ me.at \in {"compare", "output", "report", "compare_json", "done"} => Reusable(me, content, out)
AloneInv ==
  /\ AloneTypes
  /\ \A d \in Alone!Dirs : Sealed(d, disk[d])
  /\ procs["p"].at = "idle" => procs["p"].doing = {}
  /\ procs["p"].at # "idle" =>
       Careful(procs["p"], disk[procs["p"].dir], Len(flights), output)
AloneInvariant == setting = "alone" => AloneInv

\* The directory of the workspace as it is.
LEMMA AloneHereIsADir ==
  ASSUME AloneTypes
  PROVE  Alone!HereDir \in Alone!Dirs
<1>1. Alone!LastCommit \in 1..AloneScenario.commits
  BY AloneAssumption DEF AloneTypes, Alone!LastCommit, Alone!BatchCacheAssumption
<1>2. Alone!Status \in Alone!Statuses /\ AloneScenario.digest[work] \in Alone!Digests
  BY DEF AloneTypes, Alone!Status, Alone!Statuses, Alone!Digests
<1> QED BY <1>1, <1>2 DEF Alone!HereDir, Alone!Dir, Alone!Dirs

\* A process that has nothing to do.
LEMMA IdleIsAWorker == Alone!Idle \in Workers /\ Alone!Idle.at = "idle" /\ Alone!Idle.doing = {}
<1>1. Alone!NoReport \in AloneReports /\ Alone!NoDir \in Baselines
  BY DEF AloneReports, Baselines
<1>2. AloneScenario.initial \in AloneScenario.codes
  BY AloneAssumption DEF Alone!BatchCacheAssumption
<1>3. Alone!Nobody \in Nat
  BY DEF Alone!Nobody
<1> QED BY <1>1, <1>2, <1>3 DEF Alone!Idle, Workers

\* What is known of the process and of its directory.
LEMMA AloneKnown ==
  ASSUME AloneInv, NEW me, me = procs["p"], me.at # "idle",
         NEW content, content = disk[me.dir]
  PROVE  /\ me \in Workers /\ me.dir \in Alone!Dirs /\ content \in AloneContents
         /\ Sealed(me.dir, content) /\ Careful(me, content, Len(flights), output)
         /\ Len(flights) \in Nat
<1>1. me \in Workers /\ Len(flights) \in Nat
  BY DEF AloneInv, AloneTypes
<1>2. Careful(me, content, Len(flights), output)
  BY DEF AloneInv
<1>3. me.dir \in Alone!Dirs
  BY <1>2 DEF Careful
<1> QED BY <1>1, <1>2, <1>3 DEF AloneInv, AloneTypes

\* What the steps of the process have in common.
LEMMA WorkerStep ==
  ASSUME AloneInv, NEW next \in Workers, procs' = [procs EXCEPT !["p"] = next],
         UNCHANGED <<history, work>>, flights' \in Seq(AloneFlights),
         output' \in [links : AloneReports, report : AloneReports, compare : Baselines],
         disk' \in [Alone!Dirs -> AloneContents],
         \A d \in Alone!Dirs : Sealed(d, disk'[d]),
         next.at = "idle" => next.doing = {},
         next.at # "idle" => Careful(next, disk'[next.dir], Len(flights'), output')
  PROVE  AloneInv'
<1>1. AloneTypes'
  BY DEF AloneInv, AloneTypes
<1>2. procs'["p"] = next
  BY DEF AloneInv, AloneTypes
<1>3. (\A d \in Alone!Dirs : Sealed(d, disk[d]))'
  BY DEF Sealed, AllFrom
<1>4. (procs["p"].at # "idle" => Careful(procs["p"], disk[procs["p"].dir], Len(flights), output))'
  BY <1>2, Zenon DEF Careful, Flying, Sealing, Reusable, AllFrom
<1>5. (procs["p"].at = "idle" => procs["p"].doing = {})'
  BY <1>2
<1> QED BY <1>1, <1>3, <1>4, <1>5 DEF AloneInv

\* A step of the process that writes nothing.
LEMMA UnwrittenByWorker ==
  ASSUME AloneInv, NEW next \in Workers, procs' = [procs EXCEPT !["p"] = next],
         UNCHANGED <<history, work, disk, flights>>,
         output' \in [links : AloneReports, report : AloneReports, compare : Baselines],
         next.at = "idle" => next.doing = {},
         next.at # "idle" => Careful(next, disk[next.dir], Len(flights), output')
  PROVE  AloneInv'
<1>1. flights' \in Seq(AloneFlights) /\ disk' \in [Alone!Dirs -> AloneContents]
      /\ \A d \in Alone!Dirs : Sealed(d, disk'[d])
  BY DEF AloneInv, AloneTypes
<1>2. next.at # "idle" => Careful(next, disk'[next.dir], Len(flights'), output')
  OBVIOUS
<1> QED BY <1>1, <1>2, WorkerStep

\* A step that writes into its directory only.
LEMMA WrittenByWorker ==
  ASSUME AloneInv, NEW next \in Workers, procs' = [procs EXCEPT !["p"] = next],
         NEW d \in Alone!Dirs, NEW content \in AloneContents,
         disk' = [disk EXCEPT ![d] = content], Sealed(d, content),
         UNCHANGED <<history, work, output>>, flights' \in Seq(AloneFlights),
         Len(flights') = Len(flights),
         next.at = "idle" => next.doing = {},
         next.at # "idle" => next.dir = d /\ Careful(next, content, Len(flights), output)
  PROVE  AloneInv'
<1>1. disk' \in [Alone!Dirs -> AloneContents] /\ disk'[d] = content
      /\ \A e \in Alone!Dirs : Sealed(e, disk'[e])
  BY DEF AloneInv, AloneTypes
<1>2. next.at # "idle" => Careful(next, disk'[next.dir], Len(flights'), output')
  BY <1>1
<1>3. output' \in [links : AloneReports, report : AloneReports, compare : Baselines]
  BY DEF AloneInv, AloneTypes
<1> QED BY <1>1, <1>2, <1>3, WorkerStep

\* run_pack_cached_with_options begins, or finds its cache.
LEMMA AloneBegin ==
  ASSUME AloneInv, Alone!Begin("p")
  PROVE  AloneInv'
<1>1. PICK reuse \in {TRUE}, compare \in AloneScenario.compares, skip \in BOOLEAN,
           parallel \in AloneScenario.parallels :
        /\ compare = "none" => skip
        /\ procs' = [procs EXCEPT !["p"] =
             [Alone!Idle EXCEPT !.at = "look", !.code = work, !.dir = Alone!HereDir, !.reuse = reuse,
                                !.compare = compare, !.skip = skip, !.parallel = parallel]]
  BY Zenon DEF Alone!Begin
<1>2. PICK next : next =
          [Alone!Idle EXCEPT !.at = "look", !.code = work, !.dir = Alone!HereDir, !.reuse = reuse,
                             !.compare = compare, !.skip = skip, !.parallel = parallel]
  OBVIOUS
<1>3. parallel \in BOOLEAN /\ compare \in {"none", "auto", "HEAD", "dir"}
  BY <1>1, AloneAssumption DEF Alone!BatchCacheAssumption
<1>4. work \in AloneScenario.codes /\ Alone!HereDir \in Alone!Dirs
  BY AloneHereIsADir DEF AloneInv, AloneTypes
<1>5. next \in Workers
  BY ZenonT(40), <1>1, <1>2, <1>3, <1>4, IdleIsAWorker DEF Workers, Baselines
<1>6. next.at = "look" /\ next.dir = Alone!HereDir /\ next.doing = {} /\ next.flown = {}
  BY <1>2 DEF Alone!Idle
<1>7. Careful(next, disk[next.dir], Len(flights), output)
  BY <1>4, <1>6 DEF Careful
<1>8. UNCHANGED <<history, work, disk, output, flights>> /\ procs' = [procs EXCEPT !["p"] = next]
  BY <1>1, <1>2 DEF Alone!Begin
<1> QED BY <1>5, <1>6, <1>7, <1>8, UnwrittenByWorker DEF AloneInv, AloneTypes

\* A directory that validates is reused as it is; any other is flown over.
LEMMA AloneReuse ==
  ASSUME AloneInv, Alone!Reuse("p")
  PROVE  AloneInv'
<1>1. PICK me : me = procs["p"]
  OBVIOUS
<1>2. PICK content : content = disk[me.dir]
  OBVIOUS
<1>3. me.at = "look" /\ content.page
  BY <1>1, <1>2 DEF Alone!Reuse, Alone!Valid, Alone!Compatible
<1>4. me \in Workers /\ me.dir \in Alone!Dirs /\ content \in AloneContents
      /\ Careful(me, content, Len(flights), output)
  BY <1>1, <1>2, <1>3, AloneKnown
<1>5. PICK next : next = [me EXCEPT !.at = "compare", !.report = content.report]
  OBVIOUS
<1>6. next \in Workers /\ next.dir = me.dir /\ next.at = "compare" /\ next.report = content.report
      /\ next.doing = {}
  BY <1>3, <1>4, <1>5 DEF AloneContents, Workers, Careful
<1>7. Careful(next, disk[next.dir], Len(flights), output)
  BY <1>2, <1>3, <1>4, <1>6 DEF Careful, Reusable
<1>8. UNCHANGED <<history, work, disk, output, flights>> /\ procs' = [procs EXCEPT !["p"] = next]
  BY <1>1, <1>2, <1>4, <1>5 DEF Alone!Reuse, AloneInv, AloneTypes, Workers
<1> QED BY <1>6, <1>7, <1>8, UnwrittenByWorker DEF AloneInv, AloneTypes

\* What has its page is valid: the pack is executed only into a directory that has none.
LEMMA AloneExecute ==
  ASSUME AloneInv, Alone!Execute("p")
  PROVE  AloneInv'
<1>1. PICK me : me = procs["p"]
  OBVIOUS
<1>2. PICK content : content = disk[me.dir]
  OBVIOUS
<1>3. me.at = "look" /\ ~(me.reuse /\ Alone!Valid(me.dir))
  BY <1>1 DEF Alone!Execute
<1>4. me \in Workers /\ me.dir \in Alone!Dirs /\ content \in AloneContents
      /\ Sealed(me.dir, content) /\ Careful(me, content, Len(flights), output)
      /\ Len(flights) \in Nat
  BY <1>1, <1>2, <1>3, AloneKnown
<1>5. ~content.page
  <2>1. SUFFICES ASSUME content.page PROVE Alone!Valid(me.dir)
    BY <1>3, <1>4 DEF Workers
  <2>2. content.report.home = me.dir /\ content.meta # Alone!NoMeta /\ AllFrom(content, content.report)
        /\ content.report \in AloneReport
    BY <1>4, <2>1 DEF Sealed
  <2>3. content.report \notin {Alone!NoReport, Alone!Torn}
    <3>1. content.report.flight # Alone!Nobody
      BY <2>2 DEF AloneReport
    <3> QED BY <3>1 DEF Alone!NoReport, Alone!Torn
  <2>4. Alone!BundlesExist(content.report)
    BY <1>2, <2>2 DEF AllFrom, Alone!BundlesExist
  <2> QED BY <1>2, <2>1, <2>2, <2>3, <2>4 DEF Alone!Valid, Alone!Compatible
<1>6. PICK begun : begun = [code |-> me.code, flown |-> {}]
  OBVIOUS
<1>7. flights' = Append(flights, begun) /\ begun \in AloneFlights /\ flights \in Seq(AloneFlights)
  BY <1>1, <1>4, <1>6 DEF Alone!Execute, AloneFlights, Workers, AloneInv, AloneTypes
<1>8. flights' \in Seq(AloneFlights) /\ Len(flights') = Len(flights) + 1
  BY <1>7
<1>9. PICK next : next = [me EXCEPT !.at = "fly", !.flight = Len(flights) + 1,
                                   !.code = AloneScenario.initial]
  OBVIOUS
<1>10. next \in Workers
  <2>1. Len(flights) + 1 \in Nat
    BY <1>4
  <2> QED BY <1>4, <1>9, <2>1, AloneAssumption DEF Alone!BatchCacheAssumption, Workers
<1>11. next.at = "fly" /\ next.dir = me.dir /\ next.flight = Len(flights) + 1
       /\ next.doing = {} /\ next.flown = {}
  BY <1>3, <1>4, <1>9 DEF Workers, Careful
<1>12. Careful(next, content, Len(flights'), output)
  BY <1>4, <1>5, <1>8, <1>11 DEF Careful, Flying
<1>13. UNCHANGED <<history, work, disk, output>> /\ procs' = [procs EXCEPT !["p"] = next]
  BY <1>1, <1>4, <1>9 DEF Alone!Execute, AloneInv, AloneTypes, Workers
<1>14. Careful(next, disk'[next.dir], Len(flights'), output')
  BY <1>2, <1>11, <1>12, <1>13
<1>15. disk' \in [Alone!Dirs -> AloneContents] /\ \A d \in Alone!Dirs : Sealed(d, disk'[d])
  BY <1>13 DEF AloneInv, AloneTypes
<1>16. output' \in [links : AloneReports, report : AloneReports, compare : Baselines]
  BY <1>13 DEF AloneInv, AloneTypes
<1> QED BY <1>8, <1>10, <1>11, <1>13, <1>14, <1>15, <1>16, WorkerStep

\* A bundle is opened by the execution under way.
LEMMA AloneStartBundle ==
  ASSUME AloneInv, Alone!StartBundle("p")
  PROVE  AloneInv'
<1>1. PICK me : me = procs["p"]
  OBVIOUS
<1>2. PICK content : content = disk[me.dir]
  OBVIOUS
<1>3. me.at = "fly"
  BY <1>1 DEF Alone!StartBundle
<1>4. me \in Workers /\ me.dir \in Alone!Dirs /\ content \in AloneContents
      /\ Careful(me, content, Len(flights), output)
  BY <1>1, <1>2, <1>3, AloneKnown
<1>5. PICK r \in Alone!Open("p") :
        /\ disk' = [disk EXCEPT ![me.dir].bundles[r].by = me.flight]
        /\ procs' = [procs EXCEPT !["p"].doing = @ \cup {r}]
  BY <1>1 DEF Alone!StartBundle
<1>6. r \in AloneScenario.runs /\ r \notin me.flown /\ me.flight \in Nat
  BY <1>1, <1>4, <1>5 DEF Alone!Open, Workers
<1>7. PICK bundle : bundle = [content.bundles[r] EXCEPT !.by = me.flight]
  OBVIOUS
<1>8. bundle \in [exists : BOOLEAN, by : Nat] /\ bundle.by = me.flight
  BY <1>4, <1>6, <1>7 DEF AloneContents
<1>9. PICK written : written = [content EXCEPT !.bundles = [content.bundles EXCEPT ![r] = bundle]]
  OBVIOUS
<1>10. disk' = [disk EXCEPT ![me.dir] = written]
  BY <1>2, <1>4, <1>5, <1>6, <1>7, <1>9 DEF AloneInv, AloneTypes, AloneContents
<1>11. written \in AloneContents /\ written.page = content.page
       /\ \A q \in AloneScenario.runs :
            written.bundles[q] = IF q = r THEN bundle ELSE content.bundles[q]
  BY <1>4, <1>6, <1>8, <1>9 DEF AloneContents
<1>12. PICK next : next = [me EXCEPT !.doing = @ \cup {r}]
  OBVIOUS
<1>13. next \in Workers /\ next.at = "fly" /\ next.dir = me.dir /\ next.flight = me.flight
       /\ next.doing = me.doing \cup {r} /\ next.flown = me.flown
  BY <1>3, <1>4, <1>6, <1>12 DEF Workers
<1>14. Flying(me, content, Len(flights)) /\ me.flown \subseteq AloneScenario.runs
       /\ me.doing \subseteq AloneScenario.runs
  BY <1>3, <1>4 DEF Careful, Workers
<1>15. Flying(next, written, Len(flights))
  BY <1>6, <1>8, <1>11, <1>13, <1>14 DEF Flying
<1>16. Careful(next, written, Len(flights), output) /\ Sealed(me.dir, written)
  BY <1>4, <1>11, <1>13, <1>14, <1>15 DEF Careful, Sealed, Flying
<1>17. UNCHANGED <<history, work, output, flights>> /\ flights \in Seq(AloneFlights)
       /\ procs' = [procs EXCEPT !["p"] = next]
  BY <1>1, <1>4, <1>5, <1>12 DEF Alone!StartBundle, AloneInv, AloneTypes, Workers
<1> QED BY <1>4, <1>10, <1>11, <1>13, <1>16, <1>17, WrittenByWorker

\* Nobody else writes into the directory: a bundle that is finished is this execution's.
LEMMA AloneFinishBundle ==
  ASSUME AloneInv, Alone!FinishBundle("p")
  PROVE  AloneInv'
<1>1. PICK me : me = procs["p"]
  OBVIOUS
<1>2. PICK content : content = disk[me.dir]
  OBVIOUS
<1>3. PICK r \in me.doing :
        LET alone == content.bundles[r].by = me.flight /\ ~Alone!OthersIn("p", r) IN
        /\ disk' = [disk EXCEPT ![me.dir].bundles[r] =
                      [exists |-> TRUE, by |-> IF alone THEN me.flight ELSE Alone!Nobody]]
        /\ flights' = [flights EXCEPT ![me.flight].flown = @ \cup {r}]
        /\ procs' = [procs EXCEPT !["p"].doing = @ \ {r}, !["p"].flown = @ \cup {r}]
        /\ UNCHANGED <<history, work, output>>
  BY <1>1, <1>2 DEF Alone!FinishBundle
<1>4. me.at = "fly"
  BY <1>1, <1>3 DEF AloneInv, Careful
<1>5. me \in Workers /\ me.dir \in Alone!Dirs /\ content \in AloneContents
      /\ Careful(me, content, Len(flights), output)
  BY <1>1, <1>2, <1>4, AloneKnown
<1>6. Flying(me, content, Len(flights))
  BY <1>4, <1>5 DEF Careful
<1>7. content.bundles[r].by = me.flight /\ ~Alone!OthersIn("p", r)
  BY <1>3, <1>6 DEF Flying, Alone!OthersIn
<1>8. PICK bundle : bundle = [exists |-> TRUE, by |-> me.flight]
  OBVIOUS
<1>9. r \in AloneScenario.runs /\ me.flight \in 1..Len(flights) /\ me.flight \in Nat
      /\ bundle \in [exists : BOOLEAN, by : Nat]
  BY <1>3, <1>5, <1>6, <1>8 DEF Workers, Flying
<1>10. PICK written : written = [content EXCEPT !.bundles = [content.bundles EXCEPT ![r] = bundle]]
  OBVIOUS
<1>11. disk' = [disk EXCEPT ![me.dir] = written]
  BY <1>2, <1>3, <1>5, <1>7, <1>8, <1>9, <1>10 DEF AloneInv, AloneTypes, AloneContents
<1>12. written \in AloneContents /\ written.page = content.page
       /\ \A q \in AloneScenario.runs :
            written.bundles[q] = IF q = r THEN bundle ELSE content.bundles[q]
  BY <1>5, <1>9, <1>10 DEF AloneContents
<1>13. PICK next : next = [me EXCEPT !.doing = @ \ {r}, !.flown = @ \cup {r}]
  OBVIOUS
<1>14. next \in Workers /\ next.at = "fly" /\ next.dir = me.dir /\ next.flight = me.flight
       /\ next.doing = me.doing \ {r} /\ next.flown = me.flown \cup {r}
  BY <1>4, <1>5, <1>9, <1>13 DEF Workers
<1>15. me.flown \subseteq AloneScenario.runs /\ me.doing \subseteq AloneScenario.runs
  BY <1>5 DEF Workers
<1>16. Flying(next, written, Len(flights))
  BY <1>6, <1>8, <1>9, <1>12, <1>14, <1>15 DEF Flying
<1>17. Careful(next, written, Len(flights), output) /\ Sealed(me.dir, written)
  BY <1>5, <1>6, <1>12, <1>14, <1>16 DEF Careful, Sealed, Flying
<1>18. flights' \in Seq(AloneFlights) /\ Len(flights') = Len(flights)
  <2>1. PICK flight : flight = [flights[me.flight] EXCEPT !.flown = @ \cup {r}]
    OBVIOUS
  <2>2. flights \in Seq(AloneFlights) /\ flights[me.flight] \in AloneFlights
    BY <1>9 DEF AloneInv, AloneTypes
  <2>3. flight \in AloneFlights
    BY <1>9, <2>1, <2>2 DEF AloneFlights
  <2>4. flights' = [flights EXCEPT ![me.flight] = flight]
    BY <1>3, <1>9, <2>1, <2>2
  <2> QED BY <1>9, <2>2, <2>3, <2>4
<1>19. procs' = [procs EXCEPT !["p"] = next]
  BY <1>1, <1>3, <1>5, <1>13 DEF AloneInv, AloneTypes, Workers
<1> QED BY <1>3, <1>5, <1>11, <1>12, <1>14, <1>17, <1>18, <1>19, WrittenByWorker

\* A failed run ends the process in front of a directory without a page.
LEMMA AloneFailRun ==
  ASSUME AloneInv, Alone!FailRun("p")
  PROVE  AloneInv'
<1>1. PICK me : me = procs["p"]
  OBVIOUS
<1>2. PICK content : content = disk[me.dir]
  OBVIOUS
<1>3. me.at = "fly"
  BY <1>1 DEF Alone!FailRun
<1>4. me \in Workers /\ me.dir \in Alone!Dirs /\ content \in AloneContents
      /\ Careful(me, content, Len(flights), output)
  BY <1>1, <1>2, <1>3, AloneKnown
<1>5. Flying(me, content, Len(flights))
  BY <1>3, <1>4 DEF Careful
<1>6. PICK r \in AloneScenario.runs :
        /\ procs' = [procs EXCEPT !["p"].doing = @ \ {r}, !["p"].failed = @ \cup {r}]
        /\ IF r \in me.doing THEN disk' = [disk EXCEPT ![me.dir].bundles[r].by = Alone!Nobody]
           ELSE disk' = disk
  BY <1>1, <1>4 DEF Alone!FailRun, Alone!Open, Workers
<1>7. PICK next : next = [me EXCEPT !.doing = @ \ {r}, !.failed = @ \cup {r}]
  OBVIOUS
<1>8. next \in Workers /\ next.at = "fly" /\ next.dir = me.dir /\ next.flight = me.flight
      /\ next.doing = me.doing \ {r} /\ next.flown = me.flown
  BY <1>3, <1>4, <1>6, <1>7 DEF Workers
<1>9. procs' = [procs EXCEPT !["p"] = next]
  BY <1>1, <1>4, <1>6, <1>7 DEF AloneInv, AloneTypes, Workers
<1>10. UNCHANGED <<history, work, output, flights>> /\ flights \in Seq(AloneFlights)
       /\ output \in [links : AloneReports, report : AloneReports, compare : Baselines]
  BY DEF Alone!FailRun, AloneInv, AloneTypes
<1>11. CASE r \notin me.doing
  <2>1. disk' = disk
    BY <1>6, <1>11
  <2>2. Flying(next, content, Len(flights))
    BY <1>5, <1>8 DEF Flying
  <2>3. Careful(next, disk[next.dir], Len(flights), output')
    BY <1>2, <1>4, <1>8, <1>10, <2>2 DEF Careful
  <2> QED BY <1>8, <1>9, <1>10, <2>1, <2>3, UnwrittenByWorker
<1>12. CASE r \in me.doing
  <2>1. PICK bundle : bundle = [content.bundles[r] EXCEPT !.by = Alone!Nobody]
    OBVIOUS
  <2>2. bundle \in [exists : BOOLEAN, by : Nat]
    BY <1>4, <1>6, <2>1 DEF AloneContents, Alone!Nobody
  <2>3. PICK written : written = [content EXCEPT !.bundles = [content.bundles EXCEPT ![r] = bundle]]
    OBVIOUS
  <2>4. disk' = [disk EXCEPT ![me.dir] = written]
    BY <1>2, <1>4, <1>6, <1>12, <2>1, <2>3 DEF AloneInv, AloneTypes, AloneContents
  <2>5. written \in AloneContents /\ written.page = content.page
        /\ \A q \in AloneScenario.runs :
             written.bundles[q] = IF q = r THEN bundle ELSE content.bundles[q]
    BY <1>4, <1>6, <2>2, <2>3 DEF AloneContents
  <2>6. r \notin me.flown /\ me.flown \subseteq AloneScenario.runs /\ me.doing \subseteq AloneScenario.runs
    BY <1>4, <1>5, <1>12 DEF Flying, Workers
  <2>7. Flying(next, written, Len(flights))
    BY <1>5, <1>8, <2>5, <2>6 DEF Flying
  <2>8. Careful(next, written, Len(flights), output) /\ Sealed(me.dir, written)
    BY <1>4, <1>5, <1>8, <2>5, <2>7 DEF Careful, Sealed, Flying
  <2> QED BY <1>4, <1>8, <1>9, <1>10, <2>4, <2>5, <2>8, WrittenByWorker
<1> QED BY <1>11, <1>12

\* A batch is reported only when all its bundles are this execution's.
LEMMA AloneGather ==
  ASSUME AloneInv, Alone!Gather("p")
  PROVE  AloneInv'
<1>1. PICK me : me = procs["p"]
  OBVIOUS
<1>2. PICK content : content = disk[me.dir]
  OBVIOUS
<1>3. me.at = "fly" /\ me.doing = {}
  BY <1>1 DEF Alone!Gather
<1>4. me \in Workers /\ me.dir \in Alone!Dirs /\ content \in AloneContents
      /\ Careful(me, content, Len(flights), output)
  BY <1>1, <1>2, <1>3, AloneKnown
<1>5. Flying(me, content, Len(flights)) /\ Len(flights) \in Nat
  BY <1>3, <1>4 DEF Careful, AloneInv, AloneTypes
<1>6. UNCHANGED <<history, work, disk, output, flights>>
      /\ output \in [links : AloneReports, report : AloneReports, compare : Baselines]
  BY DEF Alone!Gather, AloneInv, AloneTypes
<1>7. CASE me.failed # {}
  <2>1. procs' = [procs EXCEPT !["p"] = Alone!Idle]
    BY <1>1, <1>7 DEF Alone!Gather
  <2> QED BY <1>6, <2>1, IdleIsAWorker, UnwrittenByWorker
<1>8. CASE me.failed = {}
  <2>1. PICK report : report = [flight |-> me.flight, home |-> me.dir]
    OBVIOUS
  <2>2. PICK next : next = [me EXCEPT !.at = "summary", !.flown = {}, !.report = report]
    OBVIOUS
  <2>3. procs' = [procs EXCEPT !["p"] = next]
    BY <1>1, <1>8, <2>1, <2>2 DEF Alone!Gather
  <2>4. report \in AloneReport
    BY <1>4, <1>5, <2>1 DEF AloneReport, Flying, Alone!Nobody
  <2>5. AloneScenario.runs \subseteq me.flown
    <3>1. Alone!Open("p") = {}
      BY <1>1, <1>3, <1>8 DEF Alone!Gather, Alone!MayStart
    <3> QED BY <1>1, <1>3, <1>8, <3>1 DEF Alone!Open
  <2>6. AllFrom(content, report)
    BY <1>5, <2>1, <2>5 DEF Flying, AllFrom
  <2>7. next \in Workers /\ next.at = "summary" /\ next.dir = me.dir /\ next.report = report
        /\ next.doing = {}
    BY <1>3, <1>4, <2>2, <2>4 DEF Workers, AloneReports
  <2>8. Sealing(next, content, Len(flights))
    BY <1>5, <2>1, <2>4, <2>6, <2>7 DEF Sealing, Flying
  <2>9. Careful(next, disk[next.dir], Len(flights), output')
    BY <1>2, <1>4, <1>6, <2>7, <2>8 DEF Careful
  <2> QED BY <1>6, <2>3, <2>7, <2>9, UnwrittenByWorker
<1> QED BY <1>7, <1>8

\* write_batch_cache_dir: the page is written when all else is there.
LEMMA AloneWriteSummary ==
  ASSUME AloneInv, Alone!WriteSummary("p")
  PROVE  AloneInv'
<1>1. PICK me : me = procs["p"]
  OBVIOUS
<1>2. PICK content : content = disk[me.dir]
  OBVIOUS
<1>3. me.at = "summary"
  BY <1>1 DEF Alone!WriteSummary
<1>4. me \in Workers /\ me.dir \in Alone!Dirs /\ content \in AloneContents
      /\ Careful(me, content, Len(flights), output) /\ Len(flights) \in Nat
  BY <1>1, <1>2, <1>3, AloneKnown
<1>5. Sealing(me, content, Len(flights)) /\ me.doing = {} /\ me.source = Alone!NoDir
  BY <1>3, <1>4 DEF Careful, Workers
<1>6. PICK written : written = [content EXCEPT !.report = me.report]
  OBVIOUS
<1>7. disk' = [disk EXCEPT ![me.dir] = written]
  BY <1>1, <1>2, <1>4, <1>6 DEF Alone!WriteSummary, AloneInv, AloneTypes
<1>8. written \in AloneContents /\ written.bundles = content.bundles /\ written.page = content.page
      /\ written.report = me.report
  BY <1>4, <1>5, <1>6 DEF AloneContents, AloneReports, Sealing
<1>9. PICK next : next = [me EXCEPT !.at = "meta"]
  OBVIOUS
<1>10. next \in Workers /\ next.at = "meta" /\ next.dir = me.dir /\ next.report = me.report
       /\ next.doing = {}
  BY <1>4, <1>5, <1>9 DEF Workers
<1>11. procs' = [procs EXCEPT !["p"] = next]
  BY <1>1, <1>4, <1>5, <1>9 DEF Alone!WriteSummary, AloneInv, AloneTypes, Workers
<1>12. Sealing(next, written, Len(flights))
  BY <1>5, <1>8, <1>10 DEF Sealing, AllFrom
<1>13. Careful(next, written, Len(flights), output) /\ Sealed(me.dir, written)
  BY <1>4, <1>8, <1>10, <1>12 DEF Careful, Sealed, Sealing
<1>14. UNCHANGED <<history, work, output, flights>> /\ flights \in Seq(AloneFlights)
  BY DEF Alone!WriteSummary, AloneInv, AloneTypes
<1> QED BY <1>4, <1>7, <1>8, <1>10, <1>11, <1>13, <1>14, WrittenByWorker

\* The metadata, after the summary.
LEMMA AloneWriteMeta ==
  ASSUME AloneInv, Alone!WriteMeta("p")
  PROVE  AloneInv'
<1>1. PICK me : me = procs["p"]
  OBVIOUS
<1>2. PICK content : content = disk[me.dir]
  OBVIOUS
<1>3. me.at = "meta"
  BY <1>1 DEF Alone!WriteMeta
<1>4. me \in Workers /\ me.dir \in Alone!Dirs /\ content \in AloneContents
      /\ Careful(me, content, Len(flights), output) /\ Len(flights) \in Nat
  BY <1>1, <1>2, <1>3, AloneKnown
<1>5. Sealing(me, content, Len(flights)) /\ me.doing = {} /\ me.source = Alone!NoDir
  BY <1>3, <1>4 DEF Careful, Workers
<1>6. PICK written : written = [content EXCEPT !.meta = Len(flights)]
  OBVIOUS
<1>7. disk' = [disk EXCEPT ![me.dir] = written]
  BY <1>1, <1>2, <1>4, <1>6 DEF Alone!WriteMeta, AloneInv, AloneTypes
<1>8. written \in AloneContents /\ written.bundles = content.bundles /\ written.page = content.page
      /\ written.report = content.report /\ written.meta = Len(flights)
  BY <1>4, <1>5, <1>6 DEF AloneContents, AloneReports, Sealing
<1>9. PICK next : next = [me EXCEPT !.at = "page"]
  OBVIOUS
<1>10. next \in Workers /\ next.at = "page" /\ next.dir = me.dir /\ next.report = me.report
       /\ next.doing = {}
  BY <1>4, <1>5, <1>9 DEF Workers
<1>11. procs' = [procs EXCEPT !["p"] = next]
  BY <1>1, <1>4, <1>5, <1>9 DEF Alone!WriteMeta, AloneInv, AloneTypes, Workers
<1>12. Sealing(next, written, Len(flights))
  <2>1. written.meta # Alone!NoMeta
    BY <1>4, <1>5, <1>8 DEF Sealing, Alone!NoMeta
  <2>2. written.report = me.report /\ AllFrom(written, me.report)
    BY <1>3, <1>5, <1>8 DEF Sealing, AllFrom
  <2> QED BY <1>5, <1>8, <1>10, <2>1, <2>2 DEF Sealing
<1>13. Careful(next, written, Len(flights), output) /\ Sealed(me.dir, written)
  BY <1>4, <1>8, <1>10, <1>12 DEF Careful, Sealed, Sealing
<1>14. UNCHANGED <<history, work, output, flights>> /\ flights \in Seq(AloneFlights)
  BY DEF Alone!WriteMeta, AloneInv, AloneTypes
<1> QED BY <1>4, <1>7, <1>8, <1>10, <1>11, <1>13, <1>14, WrittenByWorker

\* The page, after everything else.
LEMMA AloneWritePage ==
  ASSUME AloneInv, Alone!WritePage("p")
  PROVE  AloneInv'
<1>1. PICK me : me = procs["p"]
  OBVIOUS
<1>2. PICK content : content = disk[me.dir]
  OBVIOUS
<1>3. me.at = "page"
  BY <1>1 DEF Alone!WritePage
<1>4. me \in Workers /\ me.dir \in Alone!Dirs /\ content \in AloneContents
      /\ Careful(me, content, Len(flights), output) /\ Len(flights) \in Nat
  BY <1>1, <1>2, <1>3, AloneKnown
<1>5. Sealing(me, content, Len(flights)) /\ me.doing = {} /\ me.source = Alone!NoDir
  BY <1>3, <1>4 DEF Careful, Workers
<1>6. PICK written : written = [content EXCEPT !.page = TRUE]
  OBVIOUS
<1>7. disk' = [disk EXCEPT ![me.dir] = written]
  BY <1>1, <1>2, <1>4, <1>6 DEF Alone!WritePage, AloneInv, AloneTypes
<1>8. written \in AloneContents /\ written.bundles = content.bundles /\ written.page
      /\ written.report = content.report /\ written.meta = content.meta
  BY <1>4, <1>5, <1>6 DEF AloneContents, AloneReports, Sealing
<1>9. PICK next : next = [me EXCEPT !.at = "compare"]
  OBVIOUS
<1>10. next \in Workers /\ next.at = "compare" /\ next.dir = me.dir /\ next.report = me.report
       /\ next.doing = {}
  BY <1>4, <1>5, <1>9 DEF Workers
<1>11. procs' = [procs EXCEPT !["p"] = next]
  BY <1>1, <1>4, <1>5, <1>9 DEF Alone!WritePage, AloneInv, AloneTypes, Workers
<1>12. content.report = me.report /\ me.report.home = me.dir /\ me.report \in AloneReport
       /\ content.meta # Alone!NoMeta /\ AllFrom(written, me.report)
  BY <1>3, <1>5, <1>8 DEF Sealing, AllFrom
<1>13. Careful(next, written, Len(flights), output) /\ Sealed(me.dir, written)
  BY <1>4, <1>8, <1>10, <1>12 DEF Careful, Sealed, Reusable
<1>14. UNCHANGED <<history, work, output, flights>> /\ flights \in Seq(AloneFlights)
  BY DEF Alone!WritePage, AloneInv, AloneTypes
<1> QED BY <1>4, <1>7, <1>8, <1>10, <1>11, <1>13, <1>14, WrittenByWorker

\* The baseline is chosen; the directory is sealed.
LEMMA AloneBaseline ==
  ASSUME AloneInv, Alone!Compare("p")
  PROVE  \/ Alone!Abandon("p")
         \/ \E d \in Baselines : Alone!Against("p", d)
<1>1. PICK me : me = procs["p"]
  OBVIOUS
<1>2. me \in Workers /\ me.dir \in Alone!Dirs
  BY <1>1, AloneKnown DEF Alone!Compare
<1>0. Alone!NoDir \in Baselines /\ \A d \in Alone!Dirs : d \in Baselines
  BY DEF Baselines
<1>3. Alone!Missing("p") => Alone!Abandon("p") \/ Alone!Against("p", Alone!NoDir)
  BY DEF Alone!Missing
<1>4. CASE me.compare = "none"
  BY <1>0, <1>1, <1>4 DEF Alone!Compare
<1>5. CASE me.compare = "dir"
  BY <1>0, <1>1, <1>5 DEF Alone!Compare
<1>6. CASE me.compare \notin {"none", "dir"}
  <2>1. PICK commit : commit = Alone!BaselineCommit(me)
    OBVIOUS
  <2>2. Alone!FromCache("p", commit)
    BY <1>1, <1>6, <2>1 DEF Alone!Compare
  <2>3. commit \in 0..AloneScenario.commits
    <3>1. Alone!LastCommit \in 1..AloneScenario.commits /\ AloneScenario.commits \in Nat
      BY AloneAssumption DEF AloneInv, AloneTypes, Alone!LastCommit, Alone!BatchCacheAssumption
    <3>2. me.dir.commit \in 1..AloneScenario.commits
      BY <1>2 DEF Alone!Dirs
    <3> QED BY <2>1, <3>1, <3>2 DEF Alone!BaselineCommit
  <2>4. CASE commit = 0
    BY <1>0, <1>3, <2>2, <2>4 DEF Alone!FromCache
  <2>5. CASE commit # 0
    <3>1. PICK exact : exact = Alone!Dir(commit, Alone!Clean, me.dir.digest)
      OBVIOUS
    <3>2. PICK others : others = Alone!Candidates(commit, me.dir.digest)
      OBVIOUS
    <3>3. others \subseteq Alone!Dirs
      BY <3>2 DEF Alone!Candidates
    <3>4. exact \in Alone!Dirs
      BY <1>2, <2>3, <2>5, <3>1 DEF Alone!Dir, Alone!Dirs, Alone!Statuses
    <3>5. CASE Alone!Valid(exact)
      BY <1>0, <1>1, <2>2, <2>5, <3>1, <3>4, <3>5 DEF Alone!FromCache
    <3>6. CASE ~Alone!Valid(exact)
      BY <1>0, <1>1, <1>3, <2>2, <2>5, <3>1, <3>2, <3>3, <3>6 DEF Alone!FromCache
    <3> QED BY <3>5, <3>6
  <2> QED BY <2>4, <2>5
<1> QED BY <1>4, <1>5, <1>6

\* What is published stays as it is while the batch is compared and written out.
LEMMA ReturnedIsAWorker ==
  ASSUME NEW me \in Workers, NEW next, next = Alone!Returned(me)
  PROVE  /\ next \in Workers /\ next.at = "done" /\ next.dir = me.dir /\ next.doing = {}
         /\ next.report = me.report /\ next.baseline = me.baseline
<1>1. Alone!Idle \in Workers
  BY IdleIsAWorker
<1> QED BY <1>1 DEF Alone!Returned, Workers, Alone!Idle

\* The baseline is compared with.
LEMMA AloneCompare ==
  ASSUME AloneInv, Alone!Compare("p")
  PROVE  AloneInv'
<1>1. PICK me : me = procs["p"]
  OBVIOUS
<1>2. PICK content : content = disk[me.dir]
  OBVIOUS
<1>3. me.at = "compare"
  BY <1>1 DEF Alone!Compare
<1>4. me \in Workers /\ me.dir \in Alone!Dirs /\ Careful(me, content, Len(flights), output)
  BY <1>1, <1>2, <1>3, AloneKnown
<1>5. content.page /\ content.report = me.report /\ me.doing = {}
  BY <1>3, <1>4 DEF Careful, Reusable
<1>6. UNCHANGED <<history, work, disk, output, flights>>
      /\ output \in [links : AloneReports, report : AloneReports, compare : Baselines]
  BY DEF Alone!Compare, AloneInv, AloneTypes
<1>7. CASE Alone!Abandon("p")
  BY <1>6, <1>7, IdleIsAWorker, UnwrittenByWorker DEF Alone!Abandon
<1>8. ASSUME NEW d \in Baselines, Alone!Against("p", d)
      PROVE  AloneInv'
  <2>1. PICK compared : compared = [me EXCEPT !.at = "output", !.baseline = d]
    OBVIOUS
  <2>2. PICK next : next = IF AloneScenario.output THEN compared ELSE Alone!Returned(compared)
    OBVIOUS
  <2>3. compared \in Workers /\ compared.at = "output" /\ compared.dir = me.dir
        /\ compared.report = me.report /\ compared.doing = {}
    BY <1>4, <1>5, <1>8, <2>1 DEF Workers
  <2>4. next \in Workers /\ next.dir = me.dir /\ next.report = me.report /\ next.doing = {}
        /\ next.at \in {"output", "done"} /\ (next.at = "done" => ~AloneScenario.output)
    BY <2>2, <2>3, ReturnedIsAWorker
  <2>5. procs' = [procs EXCEPT !["p"] = next]
    BY <1>1, <1>8, <2>1, <2>2 DEF Alone!Against
  <2>6. Careful(next, disk[next.dir], Len(flights), output')
    BY <1>2, <1>4, <1>5, <2>4 DEF Careful, Reusable
  <2> QED BY <1>6, <2>4, <2>5, <2>6, UnwrittenByWorker
<1> QED BY <1>7, <1>8, AloneBaseline

\* write_batch_output_dir: the stable output is written from the batch that was found or flown.
LEMMA AloneOutput ==
  ASSUME AloneInv, Alone!LinkRuns("p") \/ Alone!WriteOutput("p") \/ Alone!WriteCompare("p")
  PROVE  AloneInv'
<1>1. PICK me : me = procs["p"]
  OBVIOUS
<1>2. PICK content : content = disk[me.dir]
  OBVIOUS
<1>3. me.at \in {"output", "report", "compare_json"}
  BY <1>1 DEF Alone!LinkRuns, Alone!WriteOutput, Alone!WriteCompare
<1>4. me \in Workers /\ me.dir \in Alone!Dirs /\ Careful(me, content, Len(flights), output)
  BY <1>1, <1>2, <1>3, AloneKnown
<1>5. Reusable(me, content, output) /\ me.doing = {} /\ me.report \in AloneReports
      /\ me.baseline \in Baselines
  BY <1>3, <1>4 DEF Careful, Workers
<1>6. UNCHANGED <<history, work, disk, flights>>
      /\ output \in [links : AloneReports, report : AloneReports, compare : Baselines]
  BY DEF Alone!LinkRuns, Alone!WriteOutput, Alone!WriteCompare, AloneInv, AloneTypes
<1>7. ASSUME Alone!LinkRuns("p")
      PROVE  AloneInv'
  <2>1. PICK next : next = [me EXCEPT !.at = "report"]
    OBVIOUS
  <2>2. next \in Workers /\ next.at = "report" /\ next.dir = me.dir /\ next.report = me.report
        /\ next.doing = {}
    BY <1>4, <1>5, <2>1 DEF Workers
  <2>3. output' = [output EXCEPT !.links = me.report] /\ procs' = [procs EXCEPT !["p"] = next]
    BY <1>1, <1>7, <2>1 DEF Alone!LinkRuns, AloneInv, AloneTypes
  <2>4. output' \in [links : AloneReports, report : AloneReports, compare : Baselines]
        /\ output'.links = me.report
    BY <1>5, <1>6, <2>3
  <2>5. Careful(next, disk[next.dir], Len(flights), output')
    BY <1>2, <1>4, <1>5, <2>2, <2>4 DEF Careful, Reusable
  <2> QED BY <1>6, <2>2, <2>3, <2>4, <2>5, UnwrittenByWorker
<1>8. ASSUME Alone!WriteOutput("p")
      PROVE  AloneInv'
  <2>1. PICK next : next = [me EXCEPT !.at = "compare_json"]
    OBVIOUS
  <2>2. next \in Workers /\ next.at = "compare_json" /\ next.dir = me.dir /\ next.report = me.report
        /\ next.doing = {}
    BY <1>4, <1>5, <2>1 DEF Workers
  <2>3. output' = [output EXCEPT !.report = me.report] /\ procs' = [procs EXCEPT !["p"] = next]
        /\ me.at = "report"
    BY <1>1, <1>8, <2>1 DEF Alone!WriteOutput, AloneInv, AloneTypes
  <2>4. output' \in [links : AloneReports, report : AloneReports, compare : Baselines]
        /\ output'.report = me.report /\ output'.links = me.report
    BY <1>5, <1>6, <2>3 DEF Reusable
  <2>5. Careful(next, disk[next.dir], Len(flights), output')
    BY <1>2, <1>4, <1>5, <2>2, <2>4 DEF Careful, Reusable
  <2> QED BY <1>6, <2>2, <2>3, <2>4, <2>5, UnwrittenByWorker
<1>9. ASSUME Alone!WriteCompare("p")
      PROVE  AloneInv'
  <2>1. PICK next : next = Alone!Returned(me)
    OBVIOUS
  <2>2. next \in Workers /\ next.at = "done" /\ next.dir = me.dir /\ next.report = me.report
        /\ next.doing = {} /\ next.baseline = me.baseline
    BY <1>4, <2>1, ReturnedIsAWorker
  <2>3. output' = [output EXCEPT !.compare = me.baseline] /\ procs' = [procs EXCEPT !["p"] = next]
        /\ me.at = "compare_json"
    BY <1>1, <1>9, <2>1 DEF Alone!WriteCompare, AloneInv, AloneTypes
  <2>4. output' \in [links : AloneReports, report : AloneReports, compare : Baselines]
        /\ output' = [links |-> me.report, report |-> me.report, compare |-> me.baseline]
    BY <1>5, <1>6, <2>3 DEF Reusable
  <2>5. Careful(next, disk[next.dir], Len(flights), output')
    BY <1>2, <1>4, <1>5, <2>2, <2>4 DEF Careful, Reusable
  <2> QED BY <1>6, <2>2, <2>3, <2>4, <2>5, UnwrittenByWorker
<1> QED BY <1>7, <1>8, <1>9

\* A kill writes a page only where everything else has been written.
LEMMA AloneCrash ==
  ASSUME AloneInv, Alone!Crash("p")
  PROVE  AloneInv'
<1>1. PICK me : me = procs["p"]
  OBVIOUS
<1>2. PICK content : content = disk[me.dir]
  OBVIOUS
<1>3. me.at \notin {"idle", "done"}
  BY <1>1, Zenon DEF Alone!Crash
<1>4. me.at # "idle"
  BY <1>3
<1>5. me \in Workers /\ me.dir \in Alone!Dirs /\ content \in AloneContents
      /\ Sealed(me.dir, content) /\ Careful(me, content, Len(flights), output)
  BY <1>1, <1>2, <1>4, AloneKnown
<1>6. PICK torn : disk' = [disk EXCEPT ![me.dir] = torn] /\ torn \in AloneContents
                  /\ Sealed(me.dir, torn)
  <2>1. CASE me.at = "fly"
    <3>1. PICK all \in SUBSET procs["p"].doing :
            disk' = [disk EXCEPT ![procs["p"].dir].bundles =
              [r \in AloneScenario.runs |->
                 IF r \notin procs["p"].doing THEN @[r]
                 ELSE [exists |-> @[r].exists \/ r \in all, by |-> Alone!Nobody]]]
      <4>1. procs["p"].at = "fly"
        BY <1>1, <2>1
      <4> QED BY <4>1, Zenon DEF Alone!Crash
    <3>2. PICK bundles : bundles =
            [r \in AloneScenario.runs |->
               IF r \notin me.doing THEN content.bundles[r]
               ELSE [exists |-> content.bundles[r].exists \/ r \in all, by |-> Alone!Nobody]]
      OBVIOUS
    <3>3. bundles \in [AloneScenario.runs -> [exists : BOOLEAN, by : Nat]]
      <4>1. \A r \in AloneScenario.runs :
              /\ content.bundles[r] \in [exists : BOOLEAN, by : Nat]
              /\ (content.bundles[r].exists \/ r \in all) \in BOOLEAN
        BY <1>5 DEF AloneContents
      <4>2. Alone!Nobody \in Nat
        BY DEF Alone!Nobody
      <4>3. \A r \in AloneScenario.runs :
              [exists |-> content.bundles[r].exists \/ r \in all, by |-> Alone!Nobody]
                \in [exists : BOOLEAN, by : Nat]
        BY <4>1, <4>2
      <4> QED BY <3>2, <4>1, <4>3
    <3>4. PICK torn : torn = [content EXCEPT !.bundles = bundles]
      OBVIOUS
    <3>5. torn \in AloneContents /\ torn.page = content.page
      BY <1>5, <3>3, <3>4 DEF AloneContents
    <3>6. disk' = [disk EXCEPT ![me.dir] = torn]
      BY <1>1, <1>2, <1>5, <3>1, <3>2, <3>4 DEF AloneInv, AloneTypes
    <3>7. Sealed(me.dir, torn)
      BY <1>5, <2>1, <3>5 DEF Careful, Flying, Sealed
    <3> QED BY <3>5, <3>6, <3>7
  <2>2. CASE me.at # "fly"
    <3>1. PICK torn \in Alone!Tear(content, me.at) : disk' = [disk EXCEPT ![me.dir] = torn]
      BY <1>1, <1>2, <1>5, <2>2 DEF Alone!Crash
    <3>2. Alone!Torn \in AloneReports /\ Alone!NoMeta \in Nat
      BY DEF AloneReports, Alone!NoMeta
    <3>3. CASE torn = content
      BY <1>5, <3>1, <3>3
    <3>4. CASE me.at = "summary" /\ torn = [content EXCEPT !.report = Alone!Torn]
      <4>1. torn \in AloneContents /\ ~torn.page
        BY <1>5, <3>2, <3>4 DEF AloneContents, Careful, Sealing
      <4> QED BY <3>1, <4>1 DEF Sealed
    <3>5. CASE me.at = "meta" /\ torn = [content EXCEPT !.meta = Alone!NoMeta]
      <4>1. torn \in AloneContents /\ ~torn.page
        BY <1>5, <3>2, <3>5 DEF AloneContents, Careful, Sealing
      <4> QED BY <3>1, <4>1 DEF Sealed
    <3>6. CASE me.at = "page" /\ torn = [content EXCEPT !.page = TRUE]
      <4>1. torn \in AloneContents /\ torn.report = content.report /\ torn.meta = content.meta
            /\ torn.bundles = content.bundles
        BY <1>5, <3>6 DEF AloneContents
      <4>2. content.report = me.report /\ me.report \in AloneReport /\ me.report.home = me.dir
            /\ content.meta # Alone!NoMeta /\ AllFrom(content, me.report)
        BY <1>5, <3>6 DEF Careful, Sealing
      <4> QED BY <3>1, <4>1, <4>2 DEF Sealed, AllFrom
    <3> QED BY <3>1, <3>3, <3>4, <3>5, <3>6 DEF Alone!Tear
  <2> QED BY <2>1, <2>2
<1>7. procs' = [procs EXCEPT !["p"] = Alone!Idle] /\ UNCHANGED <<history, work, output, flights>>
      /\ flights \in Seq(AloneFlights)
  BY DEF Alone!Crash, AloneInv, AloneTypes
<1> QED BY <1>5, <1>6, <1>7, IdleIsAWorker, WrittenByWorker

\* The workspace moves on; what is cached stays.
LEMMA AloneWorkspace ==
  ASSUME AloneInv, Alone!Edit \/ Alone!Commit
  PROVE  AloneInv'
<1>1. UNCHANGED <<disk, output, flights, procs>>
  BY DEF Alone!Edit, Alone!Commit
<1>2. history' \in Seq(AloneScenario.codes) /\ Len(history') \in 1..AloneScenario.commits
      /\ work' \in AloneScenario.codes
  <2>1. history \in Seq(AloneScenario.codes) /\ Len(history) \in 1..AloneScenario.commits
        /\ work \in AloneScenario.codes /\ AloneScenario.commits \in Nat
    BY AloneAssumption DEF AloneInv, AloneTypes, Alone!BatchCacheAssumption
  <2>2. CASE Alone!Edit
    BY <2>1, <2>2 DEF Alone!Edit
  <2>3. CASE Alone!Commit
    <3>1. history' = Append(history, work) /\ Len(history) < AloneScenario.commits /\ work' = work
      BY <2>3 DEF Alone!Commit, Alone!LastCommit
    <3> QED BY <2>1, <3>1
  <2> QED BY <2>2, <2>3
<1>3. AloneTypes'
  BY <1>1, <1>2 DEF AloneInv, AloneTypes
<1>4. (procs["p"].at # "idle" => Careful(procs["p"], disk[procs["p"].dir], Len(flights), output))'
  BY <1>1, Zenon DEF AloneInv, Careful, Flying, Sealing, Reusable, AllFrom
<1>5. (\A d \in Alone!Dirs : Sealed(d, disk[d]))'
  BY <1>1, Zenon DEF AloneInv, Sealed, AllFrom
<1> QED BY <1>1, <1>3, <1>4, <1>5 DEF AloneInv

\* At first there is nothing on disk.
LEMMA AloneBegins ==
  ASSUME Alone!Init
  PROVE  AloneInv
<1>1. Alone!Empty \in AloneContents /\ ~Alone!Empty.page
  BY DEF Alone!Empty, Alone!NoBundle, Alone!NoMeta, Alone!Nobody, AloneContents, AloneReports
<1>2. AloneTypes
  <2>1. history \in Seq(AloneScenario.codes) /\ Len(history) \in 1..AloneScenario.commits
        /\ work \in AloneScenario.codes
    <3>1. AloneScenario.initial \in AloneScenario.codes /\ AloneScenario.commits \in Nat \ {0}
      BY AloneAssumption DEF Alone!BatchCacheAssumption
    <3>2. history = <<AloneScenario.initial>> /\ work = AloneScenario.initial
      BY DEF Alone!Init
    <3>3. <<AloneScenario.initial>> \in Seq(AloneScenario.codes)
          /\ Len(<<AloneScenario.initial>>) = 1
      BY <3>1, OneCommit
    <3> QED BY <3>1, <3>2, <3>3
  <2>2. output \in [links : AloneReports, report : AloneReports, compare : Baselines]
    BY DEF Alone!Init, AloneReports, Baselines
  <2> QED BY <1>1, <2>1, <2>2, IdleIsAWorker DEF Alone!Init, AloneTypes
<1>3. \A d \in Alone!Dirs : Sealed(d, disk[d])
  BY <1>1 DEF Alone!Init, Sealed
<1>4. procs["p"].at = "idle" /\ procs["p"].doing = {}
  BY IdleIsAWorker DEF Alone!Init
<1> QED BY <1>2, <1>3, <1>4 DEF AloneInv

\* There is no promotion beside the process.
LEMMA AloneStep ==
  ASSUME AloneInv, Alone!Next \/ UNCHANGED cacheVars
  PROVE  AloneInv'
<1>1. CASE UNCHANGED cacheVars
  <2>1. UNCHANGED <<history, work, disk, output, flights, procs>>
    BY <1>1 DEF cacheVars
  <2>2. AloneTypes'
    BY <2>1 DEF AloneInv, AloneTypes
  <2>3. (procs["p"].at # "idle" => Careful(procs["p"], disk[procs["p"].dir], Len(flights), output))'
    BY <2>1, Zenon DEF AloneInv, Careful, Flying, Sealing, Reusable, AllFrom
  <2>4. (\A d \in Alone!Dirs : Sealed(d, disk[d]))'
    BY <2>1, Zenon DEF AloneInv, Sealed, AllFrom
  <2> QED BY <2>1, <2>2, <2>3, <2>4 DEF AloneInv
<1>2. CASE Alone!Edit \/ Alone!Commit
  BY <1>2, AloneWorkspace
<1>3. CASE Alone!RunPack("p")
  BY <1>3, AloneBegin, AloneReuse, AloneExecute, AloneStartBundle, AloneFinishBundle,
     AloneFailRun, AloneGather, AloneWriteSummary, AloneWriteMeta, AloneWritePage,
     AloneCompare, AloneOutput, Zenon DEF Alone!RunPack
<1>4. ~Alone!Promote("p")
  <2>1. procs["p"] \in Workers
    BY DEF AloneInv, AloneTypes
  <2>2. procs["p"].at \notin {"clear", "copy"}
    BY <2>1 DEF Workers
  <2> QED BY <2>2 DEF Alone!Promote, Alone!BeginPromotion, Alone!ClearPart, Alone!CopyPart
<1> QED BY <1>1, <1>2, <1>3, <1>4, AloneCrash DEF Alone!Next

\* For every number of runs, contents of the workspace, commits and executions: where one process at
\* a time runs and never refuses to reuse, a directory that validates holds the bundles of the
\* execution its summary reports, also after a kill anywhere, and what a finished run-pack leaves
\* can be reused and agrees with its stable output (validate_cached_batch_dir_compatible,
\* write_batch_cache_dir, write_batch_output_dir).
THEOREM ReuseIsAlwaysWhole == EvaluationSpec => []CacheReuseIsWhole
<1>1. EvaluationInit => AloneInvariant
  BY AloneBegins DEF EvaluationInit, AloneInvariant
<1>2. AloneInvariant /\ [EvaluationNext]_allVars => AloneInvariant'
  <2> SUFFICES ASSUME AloneInvariant, [EvaluationNext]_allVars, setting' = "alone"
               PROVE  AloneInv'
    BY DEF AloneInvariant
  <2>1. setting = "alone" /\ (Alone!Next \/ UNCHANGED cacheVars)
    BY DEF EvaluationNext, allVars
  <2> QED BY <2>1, AloneStep DEF AloneInvariant
<1>3. AloneInvariant => CacheReuseIsWhole
  <2> SUFFICES ASSUME AloneInv PROVE Alone!ReuseIsWhole
    BY DEF AloneInvariant, CacheReuseIsWhole
  <2>1. ASSUME NEW d \in Alone!Dirs, Alone!Valid(d)
        PROVE  disk[d].report.home = d /\ AllFrom(disk[d], disk[d].report)
    BY <2>1 DEF AloneInv, Sealed, Alone!Valid, Alone!Compatible
  <2>2. Alone!ReusedIsWhole
    BY <2>1 DEF Alone!ReusedIsWhole, AllFrom
  <2>3. Alone!FinishedIsReusable
    <3> SUFFICES ASSUME procs["p"].at = "done"
                 PROVE  /\ Alone!Valid(procs["p"].dir)
                        /\ disk[procs["p"].dir].report = procs["p"].report
                        /\ AloneScenario.output =>
                             output = [links |-> procs["p"].report, report |-> procs["p"].report,
                                       compare |-> procs["p"].baseline]
      BY DEF Alone!FinishedIsReusable
    <3>1. PICK me : me = procs["p"]
      OBVIOUS
    <3>2. PICK content : content = disk[me.dir]
      OBVIOUS
    <3>3. me.at = "done" /\ me.dir \in Alone!Dirs /\ Sealed(me.dir, content)
          /\ Careful(me, content, Len(flights), output)
      BY <3>1, <3>2, AloneKnown
    <3>4. content.page /\ Reusable(me, content, output)
      BY <3>3 DEF Careful, Reusable
    <3>5. content.report \in AloneReport /\ content.report.home = me.dir
          /\ content.meta # Alone!NoMeta /\ AllFrom(content, content.report)
      BY <3>3, <3>4 DEF Sealed
    <3>6. content.report \notin {Alone!NoReport, Alone!Torn}
      BY <3>5 DEF AloneReport, Alone!NoReport, Alone!Torn
    <3>7. Alone!Valid(me.dir)
      BY <3>2, <3>4, <3>5, <3>6 DEF AllFrom, Alone!Valid, Alone!Compatible, Alone!BundlesExist
    <3> QED BY <3>1, <3>2, <3>3, <3>4, <3>7 DEF Reusable
  <2> QED BY <2>2, <2>3 DEF Alone!ReuseIsWhole
<1> QED BY <1>1, <1>2, <1>3, PTL DEF EvaluationSpec

----------------------------------------------------------------------------
(* Collections.                                                             *)

\* The indices of the request, and those of them before one.
Wanted == CollectionScenario.indices
Before(i) == {j \in Wanted : j < i}

\* The reference state after the indices of D, without a running state: each identity held by a
\* qualifying index goes to its first one, and a panel is as full as its winners make it.
Capped(count, quota) == IF count < quota THEN count ELSE quota
Holders(D) == {proposals[j].identity : j \in {d \in D : Collected!Qualifies(d)}}
WinnerOf(k) == CHOOSE j \in Wanted : Collected!Wins(j) /\ proposals[j].identity = k
Matched(D, p) == {j \in D : Collected!Wins(j) /\ p \in Collected!Matching(j)}
StateOf(D) ==
  [physical |-> [k \in Holders(D) |-> WinnerOf(k)],
   panels |-> [p \in CollectionScenario.panels |->
                 Capped(Cardinality(Matched(D, p)), CollectionScenario.quota[p])]]

\* What the generator may resolve, and what a receipt may say.
Generated ==
  /\ population \in {"broad", "stress"}
  /\ proposals \in [Wanted -> Collected!Resolved \cup {Collected!Exhausted}]
  /\ matching \in [CollectionScenario.identities -> SUBSET CollectionScenario.panels]
AnyReceipts ==
  [index : Wanted, disposition : Collected!Forged \cup {Collected!Canonical(i) : i \in Wanted}]

\* An ascending schedule of all indices, and the indices of its first n places.
InOrder(s) ==
  /\ s \in [1..Cardinality(Wanted) -> Wanted]
  /\ \A m, n \in 1..Cardinality(Wanted) : m < n => s[m] < s[n]
  /\ \A j \in Wanted : \E n \in 1..Cardinality(Wanted) : s[n] = j
First(s, n) == {s[m] : m \in 1..n}

\* The receipts so far are the reference's, and the running state is too.
InLedger(s, rs, state) ==
  /\ rs \in Seq(AnyReceipts) /\ Len(rs) <= Cardinality(Wanted)
  /\ \A n \in 1..Len(rs) : rs[n] = [index |-> s[n], disposition |-> Collected!Canonical(s[n])]
  /\ state = StateOf(First(s, Len(rs)))
CollectionInv ==
  /\ Generated
  /\ place = "called" =>
       /\ Collected!ToSet(schedule) = Wanted
       /\ receipts = <<>> /\ selection = Collected!EmptySelection
  /\ place # "called" => InOrder(schedule) /\ InLedger(schedule, receipts, selection)
  /\ place \in {"published", "altered"} => Len(receipts) = Cardinality(Wanted)
  /\ place = "published" =>
       manifest = [receipts |-> receipts, entries |-> Collected!Admitted(receipts)]
  /\ place = "altered" =>
       /\ manifest.receipts \in Seq(AnyReceipts)
       /\ manifest = [receipts |-> manifest.receipts, entries |-> manifest.entries]
CollectionInvariant == setting = "collection" => CollectionInv

\* A nonempty set of naturals has a least member (the least-number principle, for a set).
LEMMA LeastMember ==
  ASSUME NEW S \in SUBSET Nat, S # {}
  PROVE  \E m \in S : \A k \in S : m <= k
<1> DEFINE R == OpToRel(<, Nat)
<1>1. \A x, y \in Nat : <<x, y>> \in R <=> x < y
  BY DEF OpToRel
<1>2. IsWellFoundedOn(R, Nat)
  BY NatLessThanWellFounded
<1> HIDE DEF R
<1>3. PICK m \in S : \A k \in S : <<k, m>> \notin R
  BY <1>2, WFMin
<1>4. \A k \in S : k \in Nat /\ m \in Nat /\ ~(k < m)
  BY <1>1, <1>3
<1> QED BY <1>3, <1>4

\* The library's operators in the instance are the library's.
LEMMA CollectedOps ==
  /\ \A S : Collected!Cardinality(S) = Cardinality(S)
  /\ \A s : Collected!ToSet(s) = {s[i] : i \in DOMAIN s}
  /\ \A S : Collected!SetToSeqs(S) =
       {f \in [1..Cardinality(S) -> S] : \A i, j \in 1..Cardinality(S) : i # j => f[i] # f[j]}
<1>1. \A S : Collected!Cardinality(S) = Cardinality(S)
  BY DEF Collected!Cardinality, Cardinality
<1> QED
  BY <1>1 DEF Collected!ToSet, Collected!SetToSeqs

\* The indices are a finite set of naturals, and there are some.
LEMMA WantedAreCounted ==
  /\ Wanted \in SUBSET Nat /\ IsFiniteSet(Wanted)
  /\ Cardinality(Wanted) \in Nat /\ Cardinality(Wanted) # 0
<1>1. Wanted \in SUBSET Nat /\ IsFiniteSet(Wanted) /\ Wanted # {}
  BY CollectedAssumption DEF Collected!SelectionAssumption, Wanted, Collected!IsFiniteSet, IsFiniteSet
<1> QED
  BY <1>1, FS_CardinalityType, FS_EmptySet

\* Quotas are numbers.
LEMMA QuotasAreCounts ==
  \A p \in CollectionScenario.panels : CollectionScenario.quota[p] \in Nat
BY CollectedAssumption DEF Collected!SelectionAssumption

\* What a qualifying index resolves to.
LEMMA OfQualifying ==
  ASSUME Generated, NEW i \in Wanted, Collected!Qualifies(i)
  PROVE  /\ proposals[i].identity \in CollectionScenario.identities
         /\ Collected!Matching(i) \in SUBSET CollectionScenario.panels
<1>1. proposals[i] \in Collected!Resolved \cup {Collected!Exhausted}
  BY DEF Generated
<1>2. proposals[i].resolved
  BY DEF Collected!Qualifies
<1>3. proposals[i] # Collected!Exhausted
  BY <1>2 DEF Collected!Exhausted
<1>4. proposals[i] \in Collected!Resolved
  BY <1>1, <1>3
<1>5. proposals[i].identity \in CollectionScenario.identities
  BY <1>4 DEF Collected!Resolved
<1> QED
  BY <1>5 DEF Generated, Collected!Matching

\* Two winners of one identity are one.
LEMMA WinnersAreUnique ==
  ASSUME NEW i \in Wanted, Collected!Wins(i)
  PROVE  WinnerOf(proposals[i].identity) = i
<1>1. ASSUME NEW j \in Wanted, Collected!Wins(j), proposals[j].identity = proposals[i].identity
      PROVE  i = j
  <2>1. ~(i < j) /\ ~(j < i)
    BY <1>1 DEF Collected!Wins, Wanted
  <2> QED
    BY <2>1, WantedAreCounted
<1> QED
  BY <1>1 DEF WinnerOf

\* In the reference state an identity is taken exactly when its index is not the first to qualify.
LEMMA SeenHasLost ==
  ASSUME NEW i \in Wanted, Collected!Qualifies(i)
  PROVE  Collected!Seen(StateOf(Before(i)), i) <=> ~Collected!Wins(i)
<1>1. Collected!Seen(StateOf(Before(i)), i) <=> proposals[i].identity \in Holders(Before(i))
  BY DEF Collected!Seen, StateOf
<1>2. proposals[i].identity \in Holders(Before(i))
        <=> \E j \in Before(i) : Collected!Qualifies(j) /\ proposals[j].identity = proposals[i].identity
  BY DEF Holders
<1>3. ~Collected!Wins(i)
        <=> \E j \in Wanted : j < i /\ Collected!Qualifies(j)
                              /\ proposals[j].identity = proposals[i].identity
  BY DEF Collected!Wins, Wanted
<1> QED
  BY <1>1, <1>2, <1>3 DEF Before

\* The sets that are counted are finite.
LEMMA MatchedAreCounted ==
  ASSUME NEW D \in SUBSET Wanted, NEW p
  PROVE  /\ IsFiniteSet(Matched(D, p)) /\ Cardinality(Matched(D, p)) \in Nat
         /\ Matched(D, p) \in SUBSET D
<1>1. Matched(D, p) \in SUBSET Wanted /\ Matched(D, p) \in SUBSET D
  BY DEF Matched
<1> QED
  BY <1>1, WantedAreCounted, FS_Subset, FS_CardinalityType

\* In the reference state a panel has room exactly for those that fill it.
LEMMA RoomIsFilled ==
  ASSUME Generated, NEW i \in Wanted, Collected!Qualifies(i)
  PROVE  Collected!Room(StateOf(Before(i)), i) = Collected!Fills(i)
<1>1. ASSUME NEW p \in CollectionScenario.panels
      PROVE  StateOf(Before(i)).panels[p] < CollectionScenario.quota[p]
               <=> Cardinality(Matched(Before(i), p)) < CollectionScenario.quota[p]
  <2>1. StateOf(Before(i)).panels[p]
          = Capped(Cardinality(Matched(Before(i), p)), CollectionScenario.quota[p])
    BY DEF StateOf
  <2>2. Before(i) \in SUBSET Wanted
    BY DEF Before
  <2>3. Cardinality(Matched(Before(i), p)) \in Nat /\ CollectionScenario.quota[p] \in Nat
    BY <2>2, MatchedAreCounted, QuotasAreCounts
  <2> QED
    BY <2>1, <2>3 DEF Capped
<1>2. ASSUME NEW p
      PROVE  {j \in Wanted : j < i /\ Collected!Wins(j) /\ p \in Collected!Matching(j)}
               = Matched(Before(i), p)
  BY DEF Matched, Before
<1>3. Collected!Matching(i) \in SUBSET CollectionScenario.panels
  BY OfQualifying
<1>4. \A p \in Collected!Matching(i) :
        Collected!Cardinality(
          {j \in Wanted : j < i /\ Collected!Wins(j) /\ p \in Collected!Matching(j)})
          = Cardinality(Matched(Before(i), p))
  BY <1>2, CollectedOps
<1> QED
  BY <1>1, <1>3, <1>4 DEF Collected!Room, Collected!Fills, Wanted

\* In the reference state the writer and the reader decide as the reference does.
LEMMA DecisionIsCanonical ==
  ASSUME Generated, NEW i \in Wanted
  PROVE  Collected!Decision(StateOf(Before(i)), i) = Collected!Canonical(i)
<1> DEFINE state == StateOf(Before(i))
<1>1. CASE ~Collected!Qualifies(i)
  <2>1. ~Collected!Wins(i)
    BY <1>1 DEF Collected!Wins
  <2> QED
    BY <1>1, <2>1, Zenon DEF Collected!Decision, Collected!Canonical, Collected!Qualifies
<1>2. CASE Collected!Qualifies(i) /\ Collected!Seen(state, i)
  <2>1. ~Collected!Wins(i) /\ proposals[i].resolved
    BY <1>2, SeenHasLost DEF Collected!Qualifies
  <2>2. proposals[i].identity \in Holders(Before(i))
    BY <1>2 DEF Collected!Seen, StateOf
  <2>3. state.physical[proposals[i].identity] = Collected!Winner(i)
    BY <2>2 DEF StateOf, WinnerOf, Collected!Winner, Wanted
  <2> HIDE DEF state
  <2>4. Collected!Decision(state, i) = Collected!Disposed("PhysicalDuplicate", {}, Collected!Winner(i))
    BY <1>2, <2>1, <2>3, Zenon DEF Collected!Decision
  <2>5. Collected!Canonical(i) = Collected!Disposed("PhysicalDuplicate", {}, Collected!Winner(i))
    BY <1>2, <2>1, Zenon DEF Collected!Canonical
  <2> QED
    BY <2>4, <2>5 DEF state
<1>3. CASE Collected!Qualifies(i) /\ ~Collected!Seen(state, i)
  <2>1. Collected!Wins(i) /\ proposals[i].resolved
    BY <1>3, SeenHasLost DEF Collected!Qualifies
  <2>2. Collected!Room(state, i) = Collected!Fills(i)
    BY <1>3, RoomIsFilled
  <2> HIDE DEF state
  <2>3. CASE population = "stress" /\ Collected!Fills(i) = {}
    <3>1. Collected!Decision(state, i) = Collected!Disposed("StressExcluded", {}, Collected!NoIndex)
      BY <1>3, <2>1, <2>2, <2>3, Zenon DEF Collected!Decision
    <3>2. Collected!Canonical(i) = Collected!Disposed("StressExcluded", {}, Collected!NoIndex)
      BY <1>3, <2>1, <2>3, Zenon DEF Collected!Canonical
    <3> QED BY <3>1, <3>2 DEF state
  <2>4. CASE ~(population = "stress" /\ Collected!Fills(i) = {})
    <3>1. Collected!Decision(state, i)
            = Collected!Disposed("Accepted", Collected!Fills(i), Collected!NoIndex)
      BY <1>3, <2>1, <2>2, <2>4, Zenon DEF Collected!Decision
    <3>2. Collected!Canonical(i)
            = Collected!Disposed("Accepted", Collected!Fills(i), Collected!NoIndex)
      BY <1>3, <2>1, <2>4, Zenon DEF Collected!Canonical
    <3> QED BY <3>1, <3>2 DEF state
  <2> QED BY <2>3, <2>4
<1> QED BY <1>1, <1>2, <1>3

\* What is remembered of an index is what the reference adds to its state.
LEMMA RememberedIsCanonical ==
  ASSUME Generated, NEW i \in Wanted
  PROVE  Collected!Remember(StateOf(Before(i)), i) = StateOf(Before(i) \cup {i})
<1> DEFINE D == Before(i)
           k == proposals[i].identity
<1>0. D \in SUBSET Wanted /\ i \notin D /\ D \cup {i} \in SUBSET Wanted
  BY WantedAreCounted DEF Before
<1>1. CASE ~Collected!Qualifies(i) \/ Collected!Seen(StateOf(D), i)
  <2>1. ~Collected!Wins(i)
    BY <1>1, SeenHasLost DEF Collected!Wins
  <2>2. Holders(D \cup {i}) = Holders(D)
    <3>1. CASE ~Collected!Qualifies(i)
      BY <3>1 DEF Holders
    <3>2. CASE Collected!Qualifies(i) /\ Collected!Seen(StateOf(D), i)
      <4>1. k \in Holders(D)
        BY <3>2 DEF Collected!Seen, StateOf
      <4>2. Holders(D \cup {i}) = Holders(D) \cup {k}
        BY <3>2 DEF Holders
      <4> QED BY <4>1, <4>2
    <3> QED BY <1>1, <3>1, <3>2
  <2>3. \A p : Matched(D \cup {i}, p) = Matched(D, p)
    BY <2>1 DEF Matched
  <2>4. StateOf(D \cup {i}) = StateOf(D)
    BY <2>2, <2>3 DEF StateOf
  <2> QED BY <1>1, <2>4 DEF Collected!Remember
<1>2. CASE Collected!Qualifies(i) /\ ~Collected!Seen(StateOf(D), i)
  <2>1. Collected!Wins(i)
    BY <1>2, SeenHasLost
  <2>2. WinnerOf(k) = i
    BY <2>1, WinnersAreUnique
  <2>3. k \notin Holders(D) /\ Holders(D \cup {i}) = Holders(D) \cup {k}
    BY <1>2 DEF Collected!Seen, StateOf, Holders
  <2>4. Collected!Room(StateOf(D), i) = Collected!Fills(i)
    BY <1>2, RoomIsFilled
  <2>5. ASSUME NEW p \in CollectionScenario.panels
        PROVE  StateOf(D).panels[p] + (IF p \in Collected!Room(StateOf(D), i) THEN 1 ELSE 0)
                 = StateOf(D \cup {i}).panels[p]
    <3> DEFINE quota == CollectionScenario.quota[p]
               count == Cardinality(Matched(D, p))
               counted == Cardinality(Matched(D \cup {i}, p))
    <3>1. count \in Nat /\ quota \in Nat /\ IsFiniteSet(Matched(D, p)) /\ i \notin Matched(D, p)
      BY <1>0, MatchedAreCounted, QuotasAreCounts
    <3>2. StateOf(D).panels[p] = Capped(count, quota)
          /\ StateOf(D \cup {i}).panels[p] = Capped(counted, quota)
      BY DEF StateOf
    <3>3. p \in Collected!Room(StateOf(D), i)
            <=> p \in Collected!Matching(i) /\ Capped(count, quota) < quota
      BY <3>2 DEF Collected!Room
    <3>4. CASE p \in Collected!Matching(i)
      <4>1. Matched(D \cup {i}, p) = Matched(D, p) \cup {i}
        BY <2>1, <3>4 DEF Matched
      <4>2. counted = count + 1
        BY <3>1, <4>1, FS_AddElement
      <4> HIDE DEF count, counted, quota
      <4> QED BY <3>1, <3>2, <3>3, <3>4, <4>2 DEF Capped
    <3>5. CASE p \notin Collected!Matching(i)
      <4>1. Matched(D \cup {i}, p) = Matched(D, p)
        BY <3>5 DEF Matched
      <4>2. counted = count
        BY <4>1
      <4> HIDE DEF count, counted, quota
      <4> QED BY <3>1, <3>2, <3>3, <3>5, <4>2 DEF Capped
    <3> QED BY <3>4, <3>5
  <2>6. DOMAIN StateOf(D).physical = Holders(D)
        /\ \A h \in Holders(D) : StateOf(D).physical[h] = WinnerOf(h)
    BY DEF StateOf
  <2>7. [h \in DOMAIN StateOf(D).physical \cup {k} |->
           IF h = k THEN i ELSE StateOf(D).physical[h]]
          = StateOf(D \cup {i}).physical
    <3>1. StateOf(D \cup {i}).physical = [h \in Holders(D) \cup {k} |-> WinnerOf(h)]
      BY <2>3 DEF StateOf
    <3> QED BY <2>2, <2>6, <3>1
  <2>8. [p \in CollectionScenario.panels |->
           StateOf(D).panels[p] + IF p \in Collected!Room(StateOf(D), i) THEN 1 ELSE 0]
          = StateOf(D \cup {i}).panels
    <3>1. StateOf(D \cup {i}).panels
            = [p \in CollectionScenario.panels |-> StateOf(D \cup {i}).panels[p]]
      BY DEF StateOf
    <3> QED BY <2>5, <3>1
  <2>9. StateOf(D \cup {i})
          = [physical |-> StateOf(D \cup {i}).physical, panels |-> StateOf(D \cup {i}).panels]
    BY DEF StateOf
  <2> QED
    BY <1>2, <2>7, <2>8, <2>9, Zenon DEF Collected!Remember
<1> QED BY <1>1, <1>2

\* The first n indices of an ascending schedule are those before the next one.
LEMMA FirstAreBefore ==
  ASSUME NEW s, InOrder(s), NEW n \in 1..Cardinality(Wanted)
  PROVE  /\ s[n] \in Wanted
         /\ First(s, n - 1) = Before(s[n])
         /\ First(s, n) = Before(s[n]) \cup {s[n]}
<1>0. Cardinality(Wanted) \in Nat /\ n - 1 \in Nat /\ n \in Nat /\ s[n] \in Wanted
  BY WantedAreCounted DEF InOrder
<1>1. First(s, n) = First(s, n - 1) \cup {s[n]}
  <2>1. 1..n = 1..(n - 1) \cup {n}
    BY <1>0
  <2> QED BY <2>1 DEF First
<1>2. ASSUME NEW m \in 1..(n - 1) PROVE s[m] \in Before(s[n])
  <2>1. m \in 1..Cardinality(Wanted) /\ m < n
    BY <1>0
  <2> QED BY <2>1 DEF InOrder, Before
<1>3. ASSUME NEW j \in Before(s[n]) PROVE j \in First(s, n - 1)
  <2>1. PICK m \in 1..Cardinality(Wanted) : s[m] = j
    BY DEF InOrder, Before
  <2>2. j \in Nat /\ s[n] \in Nat /\ j < s[n]
    BY <1>0, WantedAreCounted DEF Before
  <2>3. n < m => s[n] < s[m]
    BY <2>1 DEF InOrder
  <2>4. m # n
    BY <2>1, <2>2
  <2>5. m \in 1..(n - 1)
    BY <1>0, <2>1, <2>2, <2>3, <2>4
  <2> QED BY <2>1, <2>5 DEF First
<1> QED
  BY <1>0, <1>1, <1>2, <1>3 DEF First

\* Without an index the reference state is the empty one.
LEMMA NothingHeld ==
  ASSUME NEW s
  PROVE  StateOf(First(s, 0)) = Collected!EmptySelection
<1>1. First(s, 0) = {}
  BY DEF First
<1>2. Holders({}) = {} /\ \A p : Matched({}, p) = {}
  BY DEF Holders, Matched
<1>3. \A p \in CollectionScenario.panels : Capped(Cardinality({}), CollectionScenario.quota[p]) = 0
  <2>1. Cardinality({}) = 0
    BY FS_EmptySet
  <2> QED BY <2>1, QuotasAreCounts DEF Capped
<1>4. [p \in CollectionScenario.panels |->
         Capped(Cardinality(Matched({}, p)), CollectionScenario.quota[p])]
        = [p \in CollectionScenario.panels |-> 0]
  BY <1>2, <1>3
<1>5. [k \in Holders({}) |-> WinnerOf(k)] = [k \in {} |-> Collected!NoIndex]
  BY <1>2
<1> QED
  BY <1>1, <1>4, <1>5 DEF StateOf, Collected!EmptySelection

\* One receipt takes the reference state to the next.
LEMMA NextState ==
  ASSUME Generated, NEW s, InOrder(s), NEW n \in 1..Cardinality(Wanted)
  PROVE  /\ Collected!Receipt(StateOf(First(s, n - 1)), s[n])
              = [index |-> s[n], disposition |-> Collected!Canonical(s[n])]
         /\ Collected!Remember(StateOf(First(s, n - 1)), s[n]) = StateOf(First(s, n))
<1>1. s[n] \in Wanted /\ First(s, n - 1) = Before(s[n]) /\ First(s, n) = Before(s[n]) \cup {s[n]}
  BY FirstAreBefore
<1> QED
  BY <1>1, DecisionIsCanonical, RememberedIsCanonical DEF Collected!Receipt

\* The reader's states are the reference's, whatever the dispositions of its receipts say.
LEMMA ReaderKeepsTheReference ==
  ASSUME Generated, NEW s, InOrder(s), NEW rs, Len(rs) = Cardinality(Wanted),
         \A n \in 1..Cardinality(Wanted) : rs[n].index = s[n]
  PROVE  \A n \in 0..Cardinality(Wanted) : Collected!StatesOf(rs)[n] = StateOf(First(s, n))
<1> DEFINE N == Cardinality(Wanted)
           follows(f) == f = [n \in 0..N |-> IF n = 0 THEN Collected!EmptySelection
                                             ELSE Collected!Remember(f[n - 1], rs[n].index)]
           read == Collected!StatesOf(rs)
           ref == [n \in 0..N |-> StateOf(First(s, n))]
<1>1. N \in Nat
  BY WantedAreCounted
<1>2. read = CHOOSE f : follows(f)
  BY DEF Collected!StatesOf
<1>3. ASSUME NEW n \in 0..N
      PROVE  ref[n] = IF n = 0 THEN Collected!EmptySelection
                      ELSE Collected!Remember(ref[n - 1], rs[n].index)
  <2>1. CASE n = 0
    BY <2>1, NothingHeld
  <2>2. CASE n # 0
    <3>1. n \in 1..N /\ n - 1 \in 0..N
      BY <1>1, <2>2
    <3>2. ref[n - 1] = StateOf(First(s, n - 1)) /\ ref[n] = StateOf(First(s, n))
      BY <3>1
    <3>3. rs[n].index = s[n]
      BY <3>1
    <3> HIDE DEF ref
    <3>4. Collected!Remember(ref[n - 1], rs[n].index) = ref[n]
      BY <3>1, <3>2, <3>3, NextState
    <3> QED BY <2>2, <3>4
  <2> QED BY <2>1, <2>2
<1>4. follows(ref)
  <2>1. ref = [n \in 0..N |-> ref[n]]
    OBVIOUS
  <2> HIDE DEF ref
  <2> QED BY <1>3, <2>1
<1> HIDE DEF read, ref
<1>5. follows(read)
  <2> HIDE DEF follows
  <2> QED BY <1>2, <1>4
<1>6. ASSUME NEW n \in 0..N, read[n] # ref[n] PROVE FALSE
  <2> DEFINE wrong == {m \in 0..N : read[m] # ref[m]}
  <2>1. PICK m \in wrong : \A k \in wrong : m <= k
    <3>1. wrong \in SUBSET Nat /\ wrong # {}
      BY <1>1, <1>6
    <3> HIDE DEF wrong
    <3> QED BY <3>1, LeastMember
  <2>2. m \in 0..N /\ read[m] # ref[m]
    OBVIOUS
  <2>3. read[m] = IF m = 0 THEN Collected!EmptySelection
                  ELSE Collected!Remember(read[m - 1], rs[m].index)
    BY <1>5, <2>2
  <2>4. ref[m] = IF m = 0 THEN Collected!EmptySelection
                 ELSE Collected!Remember(ref[m - 1], rs[m].index)
    BY <1>3, <2>2
  <2>5. m # 0
    BY <2>2, <2>3, <2>4
  <2>6. m - 1 \in 0..N /\ ~(m <= m - 1)
    BY <1>1, <2>2, <2>5
  <2>7. read[m - 1] = ref[m - 1]
    BY <2>1, <2>6
  <2> QED BY <2>2, <2>3, <2>4, <2>7
<1>7. \A n \in 0..N : read[n] = ref[n]
  BY <1>6
<1> QED
  BY <1>7 DEF ref, read

\* What the generator resolves does not change, so the reference does not.
LEMMA SameReference ==
  ASSUME population' = population, proposals' = proposals, matching' = matching
  PROVE  /\ Generated' <=> Generated
         /\ \A i : Collected!Canonical(i)' = Collected!Canonical(i)
         /\ \A D : StateOf(D)' = StateOf(D)
         /\ AnyReceipts' = AnyReceipts
         /\ \A s, rs, state : InLedger(s, rs, state)' <=> InLedger(s, rs, state)
<1>1. Generated' <=> Generated
  BY DEF Generated
<1>2. \A i : Collected!Qualifies(i)' <=> Collected!Qualifies(i)
  BY DEF Collected!Qualifies
<1>3. \A i : Collected!Matching(i)' = Collected!Matching(i)
  BY DEF Collected!Matching
<1>4. \A i : Collected!Wins(i)' <=> Collected!Wins(i)
  BY <1>2 DEF Collected!Wins
<1>5. \A i : Collected!Winner(i)' = Collected!Winner(i)
  BY <1>4 DEF Collected!Winner
<1>6. \A i : Collected!Fills(i)' = Collected!Fills(i)
  BY <1>3, <1>4 DEF Collected!Fills
<1>7. \A i : Collected!Canonical(i)' = Collected!Canonical(i)
  BY <1>2, <1>4, <1>5, <1>6 DEF Collected!Canonical
<1>8. \A D : Holders(D)' = Holders(D)
  BY <1>2 DEF Holders
<1>9. \A k : WinnerOf(k)' = WinnerOf(k)
  BY <1>4 DEF WinnerOf
<1>10. \A D, p : Matched(D, p)' = Matched(D, p)
  BY <1>3, <1>4 DEF Matched
<1>11. \A D : StateOf(D)' = StateOf(D)
  BY <1>8, <1>9, <1>10 DEF StateOf
<1>12. AnyReceipts' = AnyReceipts
  BY <1>7 DEF AnyReceipts
<1>13. \A s, rs, state : InLedger(s, rs, state)' <=> InLedger(s, rs, state)
  BY <1>7, <1>11, <1>12 DEF InLedger
<1> QED
  BY <1>1, <1>7, <1>11, <1>12, <1>13

\* The reader accepts the reference's receipts with their entries, and nothing else.
LEMMA OnlyTheReferenceIsRead ==
  ASSUME Generated, InOrder(schedule), NEW m, m.receipts \in Seq(AnyReceipts),
         NEW rs \in Seq(AnyReceipts), Len(rs) = Cardinality(Wanted),
         \A n \in 1..Len(rs) :
           rs[n] = [index |-> schedule[n], disposition |-> Collected!Canonical(schedule[n])]
  PROVE  Collected!Reads(m) <=> m.receipts = rs /\ m.entries = Collected!Admitted(rs)
<1> DEFINE N == Cardinality(Wanted)
<1>1. N \in Nat /\ Len(schedule) = N
  BY WantedAreCounted DEF InOrder
<1>2. DOMAIN m.receipts = 1..Len(m.receipts) /\ Len(m.receipts) \in Nat /\ DOMAIN rs = 1..N
  BY LenProperties
<1>3. ASSUME NEW q \in Seq(AnyReceipts), Len(q) = N,
             \A n \in 1..N : q[n].index = schedule[n]
      PROVE  \A n \in 1..N : Collected!SameReceipt(q, n) <=> q[n] = rs[n]
  <2> SUFFICES ASSUME NEW n \in 1..N PROVE Collected!SameReceipt(q, n) <=> q[n] = rs[n]
    OBVIOUS
  <2>1. n - 1 \in 0..N
    BY <1>1
  <2>2. Collected!StatesOf(q)[n - 1] = StateOf(First(schedule, n - 1))
    BY <1>3, <2>1, ReaderKeepsTheReference
  <2>3. q[n].index = schedule[n]
    BY <1>3
  <2>4. Collected!Receipt(StateOf(First(schedule, n - 1)), schedule[n]) = rs[n]
    BY NextState
  <2> QED
    BY <2>2, <2>3, <2>4 DEF Collected!SameReceipt
<1>4. ASSUME Collected!Reads(m) PROVE m.receipts = rs /\ m.entries = Collected!Admitted(rs)
  <2>1. /\ Len(m.receipts) = N
        /\ \A n \in DOMAIN m.receipts :
             m.receipts[n].index = schedule[n] /\ Collected!SameReceipt(m.receipts, n)
        /\ m.entries = Collected!Admitted(m.receipts)
    BY <1>1, <1>4 DEF Collected!Reads
  <2>2. \A n \in 1..N : m.receipts[n] = rs[n]
    BY <1>2, <1>3, <2>1
  <2>3. m.receipts = rs
    BY <2>1, <2>2, SeqEqual
  <2> QED BY <2>1, <2>3
<1>5. ASSUME m.receipts = rs, m.entries = Collected!Admitted(rs) PROVE Collected!Reads(m)
  <2>1. \A n \in 1..N : rs[n].index = schedule[n]
    OBVIOUS
  <2>2. \A n \in 1..N : Collected!SameReceipt(rs, n)
    BY <1>3, <2>1
  <2> QED
    BY <1>1, <1>2, <1>5, <2>1, <2>2 DEF Collected!Reads
<1> QED BY <1>4, <1>5

\* The index of a receipt and its disposition are the reference's.
LEMMA CanonicalIsAReceipt ==
  ASSUME NEW i \in Wanted
  PROVE  [index |-> i, disposition |-> Collected!Canonical(i)] \in AnyReceipts
BY DEF AnyReceipts

\* A schedule lists every index once, so one in ascending order is in order.
LEMMA AscendingIsInOrder ==
  ASSUME NEW s \in Collected!Ascending(Wanted)
  PROVE  InOrder(s)
<1> DEFINE N == Cardinality(Wanted)
<1>1. /\ s \in [1..N -> Wanted]
      /\ \A i, j \in 1..N : i # j => s[i] # s[j]
      /\ \A m, n \in DOMAIN s : m < n => s[m] < s[n]
  BY CollectedOps DEF Collected!Ascending
<1>2. s \in Injection(1..N, Wanted)
  BY <1>1 DEF Injection, IsInjective
<1>3. IsFiniteSet(1..N) /\ Cardinality(1..N) = N
  BY WantedAreCounted, FS_Interval
<1>4. s \in Surjection(1..N, Wanted)
  BY <1>2, <1>3, WantedAreCounted, FS_Injection
<1> QED
  BY <1>1, <1>4 DEF InOrder, Surjection

\* The schedule as it is supplied lists every index.
LEMMA CollectionBegins ==
  ASSUME Collected!Init
  PROVE  CollectionInv
<1> DEFINE N == Cardinality(Wanted)
<1>1. Generated
  <2>1. population \in {"broad", "stress"}
        /\ proposals \in [Wanted -> Collected!Resolved \cup {Collected!Exhausted}]
    BY DEF Collected!Init, Wanted
  <2>2. (IF population = "stress" THEN SUBSET CollectionScenario.panels ELSE {{}})
          \in SUBSET (SUBSET CollectionScenario.panels)
    OBVIOUS
  <2>3. matching \in [CollectionScenario.identities ->
                        IF population = "stress" THEN SUBSET CollectionScenario.panels ELSE {{}}]
    BY DEF Collected!Init
  <2> QED BY <2>1, <2>2, <2>3 DEF Generated
<1>2. schedule \in Collected!SetToSeqs(Wanted)
  BY DEF Collected!Init, Wanted
<1>3. schedule \in [1..N -> Wanted] /\ \A i, j \in 1..N : i # j => schedule[i] # schedule[j]
  BY <1>2, CollectedOps
<1>4. schedule \in Injection(1..N, Wanted)
  BY <1>3 DEF Injection, IsInjective
<1>5. IsFiniteSet(1..N) /\ Cardinality(1..N) = N
  BY WantedAreCounted, FS_Interval
<1>6. schedule \in Surjection(1..N, Wanted)
  BY <1>4, <1>5, WantedAreCounted, FS_Injection
<1>7. {schedule[n] : n \in DOMAIN schedule} = Wanted
  BY <1>3, <1>6 DEF Surjection
<1> QED
  BY <1>1, <1>7, CollectedOps DEF CollectionInv, Collected!Init

\* The directory is reserved for an ascending schedule.
LEMMA CollectionReserve ==
  ASSUME CollectionInv, Collected!Reserve
  PROVE  CollectionInv'
<1>1. /\ place = "called" /\ place' = "writing"
      /\ schedule' \in Collected!Ascending(Collected!ToSet(schedule))
      /\ receipts' = receipts /\ selection' = selection
      /\ population' = population /\ proposals' = proposals /\ matching' = matching
  BY DEF Collected!Reserve, Collected!given
<1>2. Collected!ToSet(schedule) = Wanted /\ receipts = <<>>
      /\ selection = Collected!EmptySelection /\ Generated
  BY <1>1 DEF CollectionInv
<1>3. InOrder(schedule')
  BY <1>1, <1>2, AscendingIsInOrder
<1>4. selection = StateOf(First(schedule', 0))
  BY <1>2, NothingHeld
<1>5. InLedger(schedule', receipts, selection)
  <2>1. receipts \in Seq(AnyReceipts) /\ Len(receipts) = 0
    BY <1>2
  <2> QED BY <1>4, <2>1, WantedAreCounted DEF InLedger
<1> QED
  BY <1>1, <1>2, <1>3, <1>5, SameReference DEF CollectionInv

\* The next index gets the receipt of the reference.
LEMMA CollectionSelect ==
  ASSUME CollectionInv, Collected!Select
  PROVE  CollectionInv'
<1> DEFINE n == Len(receipts) + 1
           r == [index |-> schedule[n], disposition |-> Collected!Canonical(schedule[n])]
<1>1. /\ place = "writing" /\ place' = place /\ Len(receipts) < Len(schedule)
      /\ schedule' = schedule /\ manifest' = manifest
      /\ population' = population /\ proposals' = proposals /\ matching' = matching
      /\ receipts' = Append(receipts, Collected!Receipt(selection, schedule[n]))
      /\ selection' = Collected!Remember(selection, schedule[n])
  BY DEF Collected!Select, Collected!given
<1>2. InOrder(schedule) /\ InLedger(schedule, receipts, selection) /\ Generated
  BY <1>1 DEF CollectionInv
<1>3. Len(schedule) = Cardinality(Wanted) /\ Cardinality(Wanted) \in Nat
  BY <1>2, WantedAreCounted DEF InOrder
<1>4. receipts \in Seq(AnyReceipts) /\ Len(receipts) \in Nat
  BY <1>2 DEF InLedger
<1>5. n \in 1..Cardinality(Wanted) /\ n - 1 = Len(receipts)
  BY <1>1, <1>3, <1>4
<1>6. selection = StateOf(First(schedule, n - 1))
  BY <1>2, <1>5 DEF InLedger
<1>7. Collected!Receipt(selection, schedule[n]) = r
      /\ Collected!Remember(selection, schedule[n]) = StateOf(First(schedule, n))
  BY <1>2, <1>5, <1>6, NextState
<1>8. r \in AnyReceipts
  BY <1>2, <1>5, FirstAreBefore, CanonicalIsAReceipt
<1>9. /\ receipts' \in Seq(AnyReceipts) /\ Len(receipts') = n
      /\ \A m \in 1..Len(receipts) : receipts'[m] = receipts[m]
      /\ receipts'[n] = r
  <2> HIDE DEF r
  <2> QED BY <1>1, <1>4, <1>7, <1>8, AppendProperties
<1>10. ASSUME NEW m \in 1..n
       PROVE  receipts'[m]
                = [index |-> schedule[m], disposition |-> Collected!Canonical(schedule[m])]
  <2>1. CASE m = n
    BY <1>9, <2>1
  <2>2. CASE m # n
    <3>1. m \in 1..Len(receipts)
      BY <1>4, <2>2
    <3> QED BY <1>2, <1>9, <3>1 DEF InLedger
  <2> QED BY <2>1, <2>2
<1>11. InLedger(schedule, receipts', selection')
  <2>1. Len(receipts') <= Cardinality(Wanted)
    BY <1>3, <1>5, <1>9
  <2>2. selection' = StateOf(First(schedule, Len(receipts')))
    BY <1>1, <1>7, <1>9
  <2> HIDE DEF n
  <2> QED BY <1>9, <1>10, <2>1, <2>2 DEF InLedger
<1> QED
  BY <1>1, <1>2, <1>11, SameReference DEF CollectionInv

\* The manifest published holds the receipts.
LEMMA CollectionPublish ==
  ASSUME CollectionInv, Collected!Publish
  PROVE  CollectionInv'
<1>1. /\ place = "writing" /\ place' = "published" /\ Len(receipts) = Len(schedule)
      /\ schedule' = schedule /\ receipts' = receipts /\ selection' = selection
      /\ population' = population /\ proposals' = proposals /\ matching' = matching
      /\ manifest' = [receipts |-> receipts, entries |-> Collected!Admitted(receipts)]
  BY DEF Collected!Publish, Collected!given
<1>2. InOrder(schedule) /\ InLedger(schedule, receipts, selection) /\ Generated
  BY <1>1 DEF CollectionInv
<1>3. Len(receipts) = Cardinality(Wanted)
  BY <1>1, <1>2, WantedAreCounted DEF InOrder
<1>4. manifest' = [receipts |-> receipts', entries |-> Collected!Admitted(receipts')]
  BY <1>1
<1> QED
  BY <1>1, <1>2, <1>3, <1>4, SameReference DEF CollectionInv

\* A stop leaves what is written.
LEMMA CollectionStop ==
  ASSUME CollectionInv, Collected!Stop
  PROVE  CollectionInv'
<1>1. /\ place = "writing" /\ place' = "stopped"
      /\ schedule' = schedule /\ receipts' = receipts /\ selection' = selection
      /\ population' = population /\ proposals' = proposals /\ matching' = matching
  BY DEF Collected!Stop, Collected!given
<1> QED
  BY <1>1, SameReference DEF CollectionInv

\* An altered manifest still holds receipts, of indices of the request.
LEMMA CollectionAlter ==
  ASSUME CollectionInv, Collected!Alter
  PROVE  CollectionInv'
<1>1. /\ place = "published" /\ place' = "altered"
      /\ schedule' = schedule /\ receipts' = receipts /\ selection' = selection
      /\ population' = population /\ proposals' = proposals /\ matching' = matching
  BY DEF Collected!Alter, Collected!given
<1>2. receipts \in Seq(AnyReceipts) /\ Len(receipts) = Cardinality(Wanted)
  BY <1>1 DEF CollectionInv, InLedger
<1>3. DOMAIN receipts = 1..Len(receipts) /\ Len(receipts) \in Nat
  BY <1>2, LenProperties
<1>4. \/ \E n \in DOMAIN receipts, disposition \in Collected!Forged : \E entries :
           manifest' = [receipts |-> [receipts EXCEPT ![n].disposition = disposition],
                        entries |-> entries]
      \/ \E entries :
           manifest' = [receipts |-> SubSeq(receipts, 1, Len(receipts) - 1), entries |-> entries]
  <2>1. \/ \E n \in DOMAIN receipts, disposition \in Collected!Forged :
             LET rs == [receipts EXCEPT ![n].disposition = disposition]
             IN \E es \in {Collected!Admitted(rs), Collected!Admitted(receipts)} :
                  manifest' = [receipts |-> rs, entries |-> es]
        \/ manifest' = [receipts |-> SubSeq(receipts, 1, Len(receipts) - 1),
                        entries |-> Collected!Admitted(SubSeq(receipts, 1, Len(receipts) - 1))]
    BY DEF Collected!Alter, Collected!Front
  <2> QED BY <2>1, Zenon
<1>5. /\ manifest' = [receipts |-> manifest'.receipts, entries |-> manifest'.entries]
      /\ \/ \E n \in DOMAIN receipts, disposition \in Collected!Forged :
              manifest'.receipts = [receipts EXCEPT ![n].disposition = disposition]
         \/ manifest'.receipts = SubSeq(receipts, 1, Len(receipts) - 1)
  BY SMTT(30), <1>4
<1>6. manifest'.receipts \in Seq(AnyReceipts)
  <2>1. ASSUME NEW n \in DOMAIN receipts, NEW disposition \in Collected!Forged,
               manifest'.receipts = [receipts EXCEPT ![n].disposition = disposition]
        PROVE  manifest'.receipts \in Seq(AnyReceipts)
    <3>1. receipts[n] \in AnyReceipts
      BY <1>2, <1>3, ElementOfSeq
    <3>2. [receipts[n] EXCEPT !.disposition = disposition] \in AnyReceipts
      BY <3>1 DEF AnyReceipts
    <3>3. manifest'.receipts
            = [receipts EXCEPT ![n] = [receipts[n] EXCEPT !.disposition = disposition]]
      BY <2>1
    <3> QED BY <1>2, <1>3, <3>2, <3>3, ExceptSeq
  <2>2. ASSUME manifest'.receipts = SubSeq(receipts, 1, Len(receipts) - 1)
        PROVE  manifest'.receipts \in Seq(AnyReceipts)
    <3>1. \A i \in 1..(Len(receipts) - 1) : receipts[i] \in AnyReceipts
      BY <1>2, <1>3, ElementOfSeq
    <3> QED BY <1>3, <2>2, <3>1, SubSeqProperties
  <2> QED BY <1>5, <2>1, <2>2
<1> QED
  BY <1>1, <1>5, <1>6, SameReference DEF CollectionInv

\* Every step keeps the invariant.
LEMMA CollectionStep ==
  ASSUME CollectionInv, Collected!Next \/ UNCHANGED selectionVars
  PROVE  CollectionInv'
<1>1. CASE UNCHANGED selectionVars
  BY <1>1, SameReference DEF selectionVars, CollectionInv
<1>2. CASE Collected!Next
  <2>1. CASE Collected!Ended
    BY <2>1, SameReference DEF Collected!Ended, Collected!vars, Collected!given, CollectionInv
  <2> QED
    BY <1>2, <2>1, CollectionReserve, CollectionSelect, CollectionPublish, CollectionStop,
       CollectionAlter DEF Collected!Next
<1> QED BY <1>1, <1>2

\* For every request, generator and order in which its indices were supplied: each receipt says
\* what the indices alone decide, the reader accepts what the writer published, and of what anybody
\* makes of it nothing but the same manifest (SelectionState::decide, write_collection_v2,
\* read_collection_manifest_v2).
THEOREM EveryCollectionIsCanonical == EvaluationSpec => []CollectionIsCanonical
<1>1. EvaluationInit => CollectionInvariant
  BY CollectionBegins DEF EvaluationInit, CollectionInvariant
<1>2. CollectionInvariant /\ [EvaluationNext]_allVars => CollectionInvariant'
  <2> SUFFICES ASSUME CollectionInvariant, [EvaluationNext]_allVars, setting' = "collection"
               PROVE  CollectionInv'
    BY DEF CollectionInvariant
  <2>1. setting = "collection" /\ (Collected!Next \/ UNCHANGED selectionVars)
    BY DEF EvaluationNext, allVars
  <2> QED BY <2>1, CollectionStep DEF CollectionInvariant
<1>3. CollectionInvariant => CollectionIsCanonical
  <2> SUFFICES ASSUME CollectionInv PROVE Collected!ManifestIsCanonical
    BY DEF CollectionInvariant, CollectionIsCanonical
  <2>1. Collected!SelectionIsCanonical
    <3>1. CASE place = "called"
      BY <3>1 DEF CollectionInv, Collected!SelectionIsCanonical
    <3>2. CASE place # "called"
      <4>1. InLedger(schedule, receipts, selection)
        BY <3>2 DEF CollectionInv
      <4>2. DOMAIN receipts = 1..Len(receipts)
        BY <4>1 DEF InLedger
      <4> QED BY <4>1, <4>2 DEF InLedger, Collected!SelectionIsCanonical
    <3> QED BY <3>1, <3>2
  <2>2. ASSUME place \in {"published", "altered"}, manifest.receipts \in Seq(AnyReceipts)
        PROVE  Collected!Reads(manifest)
                 <=> /\ manifest.receipts = receipts
                     /\ manifest.entries = Collected!Admitted(receipts)
    <3>1. /\ InOrder(schedule) /\ Generated /\ receipts \in Seq(AnyReceipts)
          /\ Len(receipts) = Cardinality(Wanted)
          /\ \A n \in 1..Len(receipts) : receipts[n]
               = [index |-> schedule[n], disposition |-> Collected!Canonical(schedule[n])]
      BY <2>2 DEF CollectionInv, InLedger
    <3> QED BY <2>2, <3>1, OnlyTheReferenceIsRead
  <2>3. place = "published" => Collected!Reads(manifest)
    <3> SUFFICES ASSUME place = "published" PROVE Collected!Reads(manifest)
      OBVIOUS
    <3>1. manifest = [receipts |-> receipts, entries |-> Collected!Admitted(receipts)]
          /\ receipts \in Seq(AnyReceipts)
      BY DEF CollectionInv, InLedger
    <3>2. manifest.receipts = receipts /\ manifest.entries = Collected!Admitted(receipts)
      BY <3>1
    <3> QED BY <2>2, <3>1, <3>2
  <2>4. place = "altered" /\ Collected!Reads(manifest) =>
          manifest = [receipts |-> receipts, entries |-> Collected!Admitted(receipts)]
    <3> SUFFICES ASSUME place = "altered", Collected!Reads(manifest)
                 PROVE  manifest = [receipts |-> receipts, entries |-> Collected!Admitted(receipts)]
      OBVIOUS
    <3>1. manifest.receipts \in Seq(AnyReceipts)
          /\ manifest = [receipts |-> manifest.receipts, entries |-> manifest.entries]
      BY DEF CollectionInv
    <3>2. manifest.receipts = receipts /\ manifest.entries = Collected!Admitted(receipts)
      BY <2>2, <3>1
    <3> QED BY <3>1, <3>2
  <2> QED
    BY <2>1, <2>3, <2>4 DEF Collected!ManifestIsCanonical, Collected!ReadableIsCanonical
<1> QED BY <1>1, <1>2, <1>3, PTL DEF EvaluationSpec

=============================================================================

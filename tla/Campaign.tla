------------------------------ MODULE Campaign ------------------------------
(***************************************************************************)
(* Collection campaigns (evaluate_collection_with_executor, pd-eval): each  *)
(* run reserves an output directory, records that it was exposed to the     *)
(* collection, flies a schedule of missions with a sealed capture and a     *)
(* record per attempt, and writes its summary last.  Several runs may use   *)
(* one collection, any run may stop at any point, and the inputs may change *)
(* underneath them.                                                         *)
(*                                                                         *)
(* A file is whole or torn.  Only usage receipts are read by another run    *)
(* while they are written, so only theirs is a write of two steps; any      *)
(* other write ends whole or leaves a torn file behind a stopped run.       *)
(***************************************************************************)
EXTENDS Naturals, Sequences, FiniteSets

CONSTANTS
  Runs,       \* calls of the evaluator; a retry is another run
  Outputs,    \* output paths
  Missions,   \* files of the collection: admitted missions, excluded proposals
  Schedule,   \* request.attempt_indices, repeats allowed
  Refusals,   \* ways an executor ends an attempt without a result
  MaxDrift    \* bound: inputs that change while the runs last

ASSUME CampaignAssumption ==
  /\ Schedule \in Seq(Missions) /\ Schedule # <<>>
  /\ Missions \cap {"manifest", "source"} = {}
  /\ "none" \notin Runs
  /\ Refusals \subseteq {"Unsupported", "InitializationFailed", "ExecutionFailed"}
  /\ MaxDrift \in Nat

VARIABLES
  inputs,   \* version of every bound input; 0 is the declared one
  owner,    \* the run that created an output directory, or NoRun
  files,    \* the files that exist: path -> [by, whole, data]
  runs      \* local state of each run

vars == <<inputs, owner, files, runs>>

NoRun == "none"
Inputs == Missions \cup {"manifest", "source"}
Places == {"idle", "request", "usage", "receipt", "check", "list", "before", "load",
           "execute", "flight", "save", "record", "after", "summary", "done", "stopped"}
Reading == {"load", "execute", "flight", "save", "record", "after", "summary", "done"}
Dispositions == Refusals \cup {"Executed", "InputInvalid", "CaptureFailed"}

\* A path: a kind of file, its output, the attempt it belongs to.
Request(d) == <<"request", d, 0>>
Usage(d) == <<"usage", d, 0>>            \* in the collection, named after the output
Evaluation(d, n) == <<"evaluation", d, n>>
Seal(d, n) == <<"seal", d, n>>
Attempt(d, n) == <<"attempt", d, n>>
Summary(d) == <<"summary", d, 0>>

Exists(p) == p \in DOMAIN files
Whole(p) == Exists(p) /\ files[p].whole
File(r, whole, data) == [by |-> r, whole |-> whole, data |-> data]
Put(p, file) == [q \in DOMAIN files \cup {p} |-> IF q = p THEN file ELSE files[q]]

Nothing == [kind |-> "None"]
Fresh == [at |-> "idle", output |-> NoRun, bound |-> {}, before |-> Nothing, after |-> Nothing,
          episode |-> Nothing, disposition |-> Nothing, attempts |-> <<>>]

Init ==
  /\ inputs = [i \in Inputs |-> 0]
  /\ owner = [d \in Outputs |-> NoRun]
  /\ files = [p \in {} |-> Nothing]
  /\ runs = [r \in Runs |-> Fresh]

Move(r, place) == runs' = [runs EXCEPT ![r].at = place]
\* The call returned an error or its process died; its memory is gone, its files are not.
Halt(r) == runs' = [runs EXCEPT ![r] = [Fresh EXCEPT !.at = "stopped"]]

\* write_bytes_create_only by a run that would go on as `next`; inside a directory of its own
\* the file is always new.
WriteThen(r, p, data, next) ==
  \/ ~Exists(p) /\ files' = Put(p, File(r, TRUE, data)) /\ runs' = [runs EXCEPT ![r] = next]
  \/ ~Exists(p) /\ files' = Put(p, File(r, FALSE, Nothing)) /\ Halt(r)
-----------------------------------------------------------------------------
(* Entry: reservation, exposure, binding of the evidence. *)

\* Fault: create_dir_all instead of create_dir.
ReserveAnyway(r, d) ==
  /\ runs[r].at = "idle"
  /\ inputs["manifest"] = 0
  /\ owner' = [owner EXCEPT ![d] = r]
  /\ runs' = [runs EXCEPT ![r].at = "request", ![r].output = d]
  /\ UNCHANGED <<inputs, files>>

Reserve(r, d) ==
  /\ runs[r].at = "idle"
  /\ inputs["manifest"] = 0 /\ owner[d] = NoRun
  /\ owner' = [owner EXCEPT ![d] = r]
  /\ runs' = [runs EXCEPT ![r].at = "request", ![r].output = d]
  /\ UNCHANGED <<inputs, files>>

RefuseRequest(r, d) ==
  /\ runs[r].at = "idle"
  /\ inputs["manifest"] # 0 \/ owner[d] # NoRun
  /\ Halt(r)
  /\ UNCHANGED <<inputs, owner, files>>

\* Fault: the exposure is not recorded before the missions are read.
RequestUnrecorded(r) ==
  /\ runs[r].at = "request"
  /\ WriteThen(r, Request(runs[r].output), Nothing, [runs[r] EXCEPT !.at = "check"])
  /\ UNCHANGED <<inputs, owner>>

WriteRequest(r) ==
  /\ runs[r].at = "request"
  /\ WriteThen(r, Request(runs[r].output), Nothing, [runs[r] EXCEPT !.at = "usage"])
  /\ UNCHANGED <<inputs, owner>>

CreateReceipt(r) ==
  LET p == Usage(runs[r].output)
  IN /\ runs[r].at = "usage"
     /\ IF Exists(p)
        THEN Halt(r) /\ UNCHANGED files
        ELSE /\ files' = Put(p, File(r, FALSE, [digest |-> inputs["manifest"]]))
             /\ Move(r, "receipt")
     /\ UNCHANGED <<inputs, owner>>

FillReceipt(r) ==
  /\ runs[r].at = "receipt"
  /\ files' = [files EXCEPT ![Usage(runs[r].output)].whole = TRUE]
  /\ Move(r, "check")
  /\ UNCHANGED <<inputs, owner>>

\* read_collection_usage parses every receipt, those of other runs included.
Receipts == {d \in Outputs : Exists(Usage(d))}
Readable(d) == Whole(Usage(d)) /\ files[Usage(d)].data.digest = inputs["manifest"]

CheckUsage(r) ==
  /\ runs[r].at = "check"
  /\ IF \A d \in Receipts : Readable(d) THEN Move(r, "list") ELSE Halt(r)
  /\ UNCHANGED <<inputs, owner, files>>

ListReceipts(r) ==
  /\ runs[r].at = "list"
  /\ runs' = [runs EXCEPT ![r].at = "before", ![r].bound = Receipts]
  /\ UNCHANGED <<inputs, owner, files>>

\* EvidenceScope::snapshot: every input, and the bytes of the bound receipts as they are.
Snapshot(r) == [inputs |-> inputs, receipts |-> {d \in runs[r].bound : Whole(Usage(d))}]

SnapshotBefore(r) ==
  /\ runs[r].at = "before"
  /\ runs' = [runs EXCEPT ![r].at = "load", ![r].before = Snapshot(r)]
  /\ UNCHANGED <<inputs, owner, files>>
-----------------------------------------------------------------------------
(* One attempt: load, execute, assess, capture, record. *)

Number(r) == Len(runs[r].attempts) + 1
Mission(r) == Schedule[Number(r)]

Disposed(r, kind, verified) ==
  [runs[r] EXCEPT !.at = "record", !.episode = Nothing,
                  !.disposition = [kind |-> kind, verified |-> verified]]
Dispose(r, kind) == runs' = [runs EXCEPT ![r] = Disposed(r, kind, FALSE)]

\* The bytes are hashed against the manifest the run holds in memory.
LoadMission(r) ==
  /\ runs[r].at = "load"
  /\ IF inputs[Mission(r)] = 0 THEN Move(r, "execute") ELSE Dispose(r, "InputInvalid")
  /\ UNCHANGED <<inputs, owner, files>>

\* The executor's error, or its result for another mission or agent.
RefuseAttempt(r, kind) ==
  /\ runs[r].at \in {"execute", "flight"}
  /\ Dispose(r, kind)
  /\ UNCHANGED <<inputs, owner, files>>

\* An episode binds the sources and its own mission, not the collection.
Evidence(r) == [source |-> inputs["source"], mission |-> inputs[Mission(r)]]

TakeOff(r) ==
  /\ runs[r].at = "execute"
  /\ runs' = [runs EXCEPT ![r].at = "flight", ![r].episode = [before |-> Evidence(r)]]
  /\ UNCHANGED <<inputs, owner, files>>

\* verified_landing; `landed` stands for all of it that is not evidence: the descriptor
\* unchanged, the replay complete, no failure, a terminal mission and a landing on target.
VerifiedLanding(before, after, landed) == before = after /\ landed

Touchdown(r, landed) ==
  LET before == runs[r].episode.before
      after == Evidence(r)
      episode == [before |-> before, after |-> after,
                  verified |-> VerifiedLanding(before, after, landed)]
  IN /\ runs[r].at = "flight"
     /\ runs' = [runs EXCEPT ![r].at = "save", ![r].episode = episode]
     /\ UNCHANGED <<inputs, owner, files>>

\* What save_evaluation has written of a capture: the evaluation first, then its seal.
PutCapture(r, evaluation, seal) ==
  LET d == runs[r].output
      n == Number(r)
      paths == (IF evaluation = "absent" THEN {} ELSE {Evaluation(d, n)})
                 \cup (IF seal = "absent" THEN {} ELSE {Seal(d, n)})
  IN files' = [p \in DOMAIN files \cup paths |->
       IF p \notin paths THEN files[p]
       ELSE File(r, (IF p = Seal(d, n) THEN seal ELSE evaluation) = "whole", runs[r].episode)]

SaveCapture(r) ==
  /\ runs[r].at = "save"
  /\ PutCapture(r, "whole", "whole")
  /\ runs' = [runs EXCEPT ![r] = Disposed(r, "Executed", runs[r].episode.verified)]
  /\ UNCHANGED <<inputs, owner>>

\* Fault: the error of save_evaluation is dropped.
LoseCaptureUnnoticed(r) ==
  /\ runs[r].at = "save"
  /\ PutCapture(r, "whole", "torn")
  /\ runs' = [runs EXCEPT ![r] = Disposed(r, "Executed", runs[r].episode.verified)]
  /\ UNCHANGED <<inputs, owner>>

LoseCapture(r) ==
  /\ runs[r].at = "save"
  /\ \/ \E part \in {"absent", "torn", "whole"} : PutCapture(r, part, "absent")
     \/ PutCapture(r, "whole", "torn")
  /\ Dispose(r, "CaptureFailed") \/ Halt(r)
  /\ UNCHANGED <<inputs, owner>>

AfterAttempt(done) == IF Len(done) < Len(Schedule) THEN "load" ELSE "after"

RecordAttempt(r) ==
  LET attempt == [mission |-> Mission(r), kind |-> runs[r].disposition.kind,
                  verified |-> runs[r].disposition.verified]
      done == Append(runs[r].attempts, attempt)
  IN /\ runs[r].at = "record"
     /\ WriteThen(r, Attempt(runs[r].output, Number(r)), attempt,
          [runs[r] EXCEPT !.at = AfterAttempt(done), !.attempts = done, !.disposition = Nothing])
     /\ UNCHANGED <<inputs, owner>>
-----------------------------------------------------------------------------
(* Publication. *)

SnapshotAfter(r) ==
  /\ runs[r].at = "after"
  /\ runs' = [runs EXCEPT ![r].at = "summary", ![r].after = Snapshot(r)]
  /\ UNCHANGED <<inputs, owner, files>>

Integrity(before, after) == before = after

Summarise(r) ==
  LET run == runs[r]
  IN /\ run.at = "summary"
     /\ WriteThen(r, Summary(run.output),
          [attempts |-> run.attempts, before |-> run.before,
           integrity |-> Integrity(run.before, run.after)],
          [Fresh EXCEPT !.at = "done", !.output = run.output])
     /\ UNCHANGED <<inputs, owner>>
-----------------------------------------------------------------------------
(* The surroundings. *)

\* An error returned by `?` or a crash, between any two steps.
Stop(r) ==
  /\ runs[r].at \notin {"idle", "done", "stopped"}
  /\ Halt(r)
  /\ UNCHANGED <<inputs, owner, files>>

\* Somebody edits an input while runs are under way; nobody restores it.
Drift(i) ==
  /\ inputs[i] = 0
  /\ Cardinality({j \in Inputs : inputs[j] # 0}) < MaxDrift
  /\ inputs' = [inputs EXCEPT ![i] = 1]
  /\ UNCHANGED <<owner, files, runs>>

\* Somebody removes what a stopped run left behind; the receipt is not in the directory.
Discard(d) ==
  /\ owner[d] # NoRun /\ runs[owner[d]].at = "stopped"
  /\ owner' = [owner EXCEPT ![d] = NoRun]
  /\ files' = [p \in {q \in DOMAIN files : q[2] # d \/ q = Usage(d)} |-> files[p]]
  /\ UNCHANGED <<inputs, runs>>

Ended ==
  /\ \A r \in Runs : runs[r].at \in {"done", "stopped"}
  /\ UNCHANGED vars

Step(r) ==
  \/ \E d \in Outputs : Reserve(r, d) \/ RefuseRequest(r, d)
  \/ WriteRequest(r) \/ CreateReceipt(r) \/ FillReceipt(r) \/ CheckUsage(r)
  \/ ListReceipts(r) \/ SnapshotBefore(r)
  \/ LoadMission(r) \/ \E kind \in Refusals : RefuseAttempt(r, kind)
  \/ TakeOff(r) \/ \E landed \in BOOLEAN : Touchdown(r, landed)
  \/ SaveCapture(r) \/ LoseCapture(r) \/ RecordAttempt(r)
  \/ SnapshotAfter(r) \/ Summarise(r)
  \/ Stop(r)

Next ==
  \/ \E r \in Runs : Step(r)
  \/ \E i \in Inputs : Drift(i)
  \/ \E d \in Outputs : Discard(d)
  \/ Ended

Spec == Init /\ [][Next]_vars
-----------------------------------------------------------------------------
(* Properties. *)

\* load_verified_evaluation succeeds: both files parse and the seal is of these bytes.
Loadable(d, n) ==
  /\ Whole(Evaluation(d, n)) /\ Whole(Seal(d, n))
  /\ files[Seal(d, n)].data = files[Evaluation(d, n)].data

Positions == 1..Len(Schedule)
Published == {d \in Outputs : Whole(Summary(d))}

\* A summary on disk tells the whole schedule, attempt for attempt as the records of the same
\* run on disk tell it, whatever failed on the way (collection.rs:217-287).
SummarySpeaksForAttempts ==
  \A d \in Published :
    LET summary == files[Summary(d)]
    IN /\ Len(summary.data.attempts) = Len(Schedule)
       /\ \A n \in Positions :
            /\ summary.data.attempts[n].mission = Schedule[n]
            /\ Whole(Attempt(d, n))
            /\ files[Attempt(d, n)] = File(summary.by, TRUE, summary.data.attempts[n])

\* An attempt recorded as executed has a capture that loads, of the same run and with the
\* verdict of the record: no error or crash inside save_evaluation goes by unnoticed.
ExecutedIsLoadable ==
  \A d \in Outputs, n \in Positions :
    Whole(Attempt(d, n)) /\ files[Attempt(d, n)].data.kind = "Executed"
      => /\ Loadable(d, n)
         /\ files[Evaluation(d, n)].by = files[Attempt(d, n)].by
         /\ files[Evaluation(d, n)].data.verified = files[Attempt(d, n)].data.verified

\* Nobody has seen a mission of the collection without a complete receipt of its own saying so,
\* crashes and reuse of an output path included (collection.rs:155-165).
ExposureRecorded ==
  \A r \in Runs : runs[r].at \in Reading
    => Whole(Usage(runs[r].output)) /\ files[Usage(runs[r].output)].by = r

\* A summary whose integrity passed counts landings flown from the declared missions and from
\* the sources the campaign started with; an episode by itself sees no drift between its
\* mission's loading and its own first snapshot (collection.rs:284-285, 119-122).
CountsUnderOneScope ==
  \A d \in Published :
    LET summary == files[Summary(d)].data
    IN summary.integrity =>
         \A n \in Positions : summary.attempts[n].kind = "Executed" =>
           LET e == files[Evaluation(d, n)].data
           IN /\ e.before = e.after
              /\ e.after = [source |-> summary.before.inputs["source"], mission |-> 0]

\* Together: what is on disk after any crash or drift is the truth about the attempts made, and
\* a summary that claims integrity speaks of one set of inputs.
DiskTellsAttempts == SummarySpeaksForAttempts /\ ExecutedIsLoadable /\ CountsUnderOneScope

\* Receipts are append-only: once complete, a receipt stays as it is, also when the output it
\* speaks of is removed and its path is tried again (pd-missions collection.rs:259, 317-326).
ReceiptsAppendOnly == \A d \in Outputs : Whole(Usage(d)) => files'[Usage(d)] = files[Usage(d)]

\* Runs keep to one owner per output, record in order and publish once, over everything.
Ledger == INSTANCE CampaignLedger WITH
  Attempts <- Len(Schedule),
  recorded <- [d \in Outputs |-> Cardinality({n \in Positions : Whole(Attempt(d, n))})],
  published <- [d \in Outputs |-> Whole(Summary(d))]

\* collection.rs:168: "A later append-only usage receipt is not a mutation of physical inputs."
ExposureIsNoMutation ==
  \A d \in Published :
    (\A i \in Inputs : inputs[i] = 0) => files[Summary(d)].data.integrity
=============================================================================

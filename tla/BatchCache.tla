----------------------------- MODULE BatchCache -----------------------------
(***************************************************************************)
(* The result cache of controller packs (run-pack and promote-cache of       *)
(* pd-eval-cli: runtime.rs, execution.rs, lib.rs).  A batch is kept under     *)
(* outputs/eval/cache/<workspace key>/<batch stem>.  The workspace key is the *)
(* commit, with a digest of `git status` when the tree is dirty; the stem     *)
(* holds the digest of the resolved runs.  Bundles are written in place, one  *)
(* per run; summary, meta and page follow.  A later run-pack that finds the   *)
(* directory valid reuses it.                                               *)
(*                                                                         *)
(* The workspace is edited and committed while processes run.  A code is one  *)
(* content of the workspace; a bundle's files are one value, told apart by    *)
(* whether they all exist and come from one execution.  pack.json and        *)
(* resolved_runs.json, only ever checked for existence, follow the summary.  *)
(***************************************************************************)
EXTENDS Naturals, FiniteSets, Sequences

CONSTANTS
  Procs,        \* pd-eval processes
  Runs,         \* resolved runs of the pack
  Codes,        \* contents of the workspace
  Initial,      \* the code of the first commit
  Digest,       \* code -> resolved run digest of the pack under it
  Touched,      \* code -> what `git status` lists when it is not committed
  MaxCommits,   \* bound: commits of the history
  MaxAttempts,  \* bound: executions of the pack
  Reuses,       \* values of reuse_cache (--no-reuse makes it FALSE)
  Compares,     \* values of --compare-ref, "dir" for --baseline-dir
  WithOutput,   \* is a stable output directory asked for?
  Parallels,    \* is there more than one worker?
  Promotes,     \* may promote-cache be run?
  Crashes       \* the commands in which a process may be killed

BatchCacheAssumption ==
  /\ Initial \in Codes /\ IsFiniteSet(Codes) /\ IsFiniteSet(Runs) /\ Runs # {}
  /\ Codes \subseteq DOMAIN Digest /\ Codes \subseteq DOMAIN Touched
  /\ MaxCommits \in Nat \ {0} /\ MaxAttempts \in Nat \ {0}
  /\ Reuses \subseteq BOOLEAN /\ Parallels \subseteq BOOLEAN
  /\ WithOutput \in BOOLEAN /\ Promotes \in BOOLEAN
  /\ Crashes \subseteq {"run-pack", "promote-cache"}
  /\ Compares \subseteq {"none", "auto", "HEAD", "dir"}

VARIABLES
  history,      \* codes of the commits, HEAD last
  work,         \* the code in the workspace
  disk,         \* cache directory -> what it holds
  output,       \* the stable output directory of the pack
  flights,      \* executions so far: the code flown, the runs that succeeded
  procs         \* process -> its local state

vars == <<history, work, disk, output, flights, procs>>

LastCommit == Len(history)
Clean == "clean"

\* current_workspace_state: what git says, not what the files hold.
Status == IF work = history[LastCommit] THEN Clean ELSE Touched[work]

\* A cache directory: workspace key (commit, status) and the digest in the stem.
Dir(commit, status, digest) == [commit |-> commit, status |-> status, digest |-> digest]
Statuses == {Clean} \cup {Touched[c] : c \in Codes}
Digests == {Digest[c] : c \in Codes}
Dirs == [commit : 1..MaxCommits, status : Statuses, digest : Digests]
HereDir == Dir(LastCommit, Status, Digest[work])

Nobody == 0
NoReport == [flight |-> Nobody, home |-> "none"]
Torn == [flight |-> Nobody, home |-> "torn"]
NoMeta == 0
NoDir == [commit |-> 0, status |-> Clean, digest |-> "none"]

\* A bundle: do its ten files all exist, and which execution wrote all of them?
NoBundle == [exists |-> FALSE, by |-> Nobody]
Empty == [bundles |-> [r \in Runs |-> NoBundle], report |-> NoReport,
          meta |-> NoMeta, page |-> FALSE]
Exists(d) == disk[d] # Empty

Idle == [at |-> "idle", code |-> Initial, dir |-> NoDir, reuse |-> TRUE, compare |-> "none",
         skip |-> TRUE, parallel |-> FALSE, flight |-> Nobody, doing |-> {}, flown |-> {},
         failed |-> {}, report |-> NoReport, source |-> NoDir, left |-> {}, baseline |-> NoDir]

Init ==
  /\ history = <<Initial>>
  /\ work = Initial
  /\ disk = [d \in Dirs |-> Empty]
  /\ output = [links |-> NoReport, report |-> NoReport, compare |-> NoDir]
  /\ flights = <<>>
  /\ procs = [p \in Procs |-> Idle]

(***************************************************************************)
(* The workspace moves on.                                                  *)
(***************************************************************************)
Edit ==
  /\ \E c \in Codes \ {work} : work' = c
  /\ UNCHANGED <<history, disk, output, flights, procs>>

Commit ==
  /\ Status # Clean /\ LastCommit < MaxCommits
  /\ history' = Append(history, work)
  /\ UNCHANGED <<work, disk, output, flights, procs>>

(***************************************************************************)
(* Validation.  Everything a record names must exist; nothing is read but    *)
(* the meta and the summary.                                                *)
(***************************************************************************)
\* validate_cached_run_bundles: the records' files, wherever the records say they are.
BundlesExist(report) == \A r \in Runs : disk[report.home].bundles[r].exists

\* validate_cached_batch_dir_compatible: the five files, two of them readable.
Compatible(d) ==
  /\ disk[d].page
  /\ disk[d].meta # NoMeta
  /\ disk[d].report \notin {NoReport, Torn}
  /\ BundlesExist(disk[d].report)

\* validate_cached_batch_dir
Valid(d) == Compatible(d)

(***************************************************************************)
(* run_pack_cached_with_options                                             *)
(***************************************************************************)
\* The pack is resolved and the workspace identified; the binary is the workspace's.
Begin(p) ==
  /\ procs[p].at \in {"idle", "done"}
  /\ \E reuse \in Reuses, compare \in Compares, skip \in BOOLEAN, parallel \in Parallels :
       /\ compare = "none" => skip
       /\ procs' = [procs EXCEPT ![p] =
            [Idle EXCEPT !.at = "look", !.code = work, !.dir = HereDir, !.reuse = reuse,
                         !.compare = compare, !.skip = skip, !.parallel = parallel]]
  /\ UNCHANGED <<history, work, disk, output, flights>>

Reuse(p) ==
  LET me == procs[p] IN
  /\ me.at = "look" /\ me.reuse /\ Valid(me.dir)
  /\ procs' = [procs EXCEPT ![p].at = "compare", ![p].report = disk[me.dir].report]
  /\ UNCHANGED <<history, work, disk, output, flights>>

\* Fault: the cache is not asked.
ExecuteAnyway(p) ==
  LET me == procs[p] IN
  /\ me.at = "look"
  /\ Len(flights) < MaxAttempts
  /\ flights' = Append(flights, [code |-> me.code, flown |-> {}])
  /\ procs' = [procs EXCEPT ![p].at = "fly", ![p].flight = Len(flights) + 1,
                           ![p].code = Initial]
  /\ UNCHANGED <<history, work, disk, output>>

Execute(p) ==
  LET me == procs[p] IN
  /\ me.at = "look" /\ ~(me.reuse /\ Valid(me.dir))
  /\ Len(flights) < MaxAttempts
  /\ flights' = Append(flights, [code |-> me.code, flown |-> {}])
  /\ procs' = [procs EXCEPT ![p].at = "fly", ![p].flight = Len(flights) + 1,
                           ![p].code = Initial]
  /\ UNCHANGED <<history, work, disk, output>>

Open(p) == Runs \ (procs[p].doing \cup procs[p].flown \cup procs[p].failed)

\* One worker stops at the first error; a pool runs them all.
MayStart(p) == procs[p].parallel \/ (procs[p].doing = {} /\ procs[p].failed = {})

\* write_artifact_bundle begins: files already there are overwritten one by one.
StartBundle(p) ==
  LET me == procs[p] IN
  /\ me.at = "fly" /\ MayStart(p)
  /\ \E r \in Open(p) :
       /\ disk' = [disk EXCEPT ![me.dir].bundles[r].by = me.flight]
       /\ procs' = [procs EXCEPT ![p].doing = @ \cup {r}]
  /\ UNCHANGED <<history, work, output, flights>>

\* The bundle is one execution's only if nobody else wrote into it meanwhile.
OthersIn(p, r) ==
  \E q \in Procs \ {p} : procs[q].dir = procs[p].dir /\ r \in procs[q].doing

FinishBundle(p) ==
  LET me == procs[p] IN
  \E r \in me.doing :
    LET alone == disk[me.dir].bundles[r].by = me.flight /\ ~OthersIn(p, r) IN
    /\ disk' = [disk EXCEPT ![me.dir].bundles[r] =
                  [exists |-> TRUE, by |-> IF alone THEN me.flight ELSE Nobody]]
    /\ flights' = [flights EXCEPT ![me.flight].flown = @ \cup {r}]
    /\ procs' = [procs EXCEPT ![p].doing = @ \ {r}, ![p].flown = @ \cup {r}]
    /\ UNCHANGED <<history, work, output>>

\* A run whose context, controller or bundle cannot be had.
FailRun(p) ==
  LET me == procs[p] IN
  /\ me.at = "fly"
  /\ \E r \in me.doing \cup (IF MayStart(p) THEN Open(p) ELSE {}) :
       /\ procs' = [procs EXCEPT ![p].doing = @ \ {r}, ![p].failed = @ \cup {r}]
       /\ disk' = IF r \in me.doing THEN [disk EXCEPT ![me.dir].bundles[r].by = Nobody] ELSE disk
  /\ UNCHANGED <<history, work, output, flights>>

\* Fault: the records of the runs that succeeded make the report.
GatherPartial(p) ==
  LET me == procs[p] IN
  /\ me.at = "fly" /\ me.doing = {} /\ (Open(p) = {} \/ ~MayStart(p))
  /\ procs' = [procs EXCEPT ![p].at = "summary", ![p].flown = {}, ![p].failed = {},
                 ![p].report = [flight |-> me.flight, home |-> me.dir]]
  /\ UNCHANGED <<history, work, disk, output, flights>>

\* execute_resolved_runs collects the results; an error of any run is the batch's.
Gather(p) ==
  LET me == procs[p] IN
  /\ me.at = "fly" /\ me.doing = {} /\ (Open(p) = {} \/ ~MayStart(p))
  /\ procs' = [procs EXCEPT ![p] =
       IF me.failed # {} THEN Idle
       ELSE [me EXCEPT !.at = "summary", !.flown = {},
                          !.report = [flight |-> me.flight, home |-> me.dir]]]
  /\ UNCHANGED <<history, work, disk, output, flights>>

\* A process that has returned: what it returned is all that is left of it.
Returned(me) ==
  [Idle EXCEPT !.at = "done", !.dir = me.dir, !.report = me.report, !.source = me.source,
               !.baseline = me.baseline]

\* write_batch_cache_dir: the manifests, then meta.json, then the page.
WriteSummary(p) ==
  LET me == procs[p] IN
  /\ me.at = "summary"
  /\ disk' = [disk EXCEPT ![me.dir].report = me.report]
  /\ procs' = [procs EXCEPT ![p].at = "meta"]
  /\ UNCHANGED <<history, work, output, flights>>

WriteMeta(p) ==
  LET me == procs[p] IN
  /\ me.at = "meta"
  /\ disk' = [disk EXCEPT ![me.dir].meta = Len(flights)]
  /\ procs' = [procs EXCEPT ![p].at = "page"]
  /\ UNCHANGED <<history, work, output, flights>>

WritePage(p) ==
  LET me == procs[p] IN
  /\ me.at = "page"
  /\ disk' = [disk EXCEPT ![me.dir].page = TRUE]
  /\ procs' = [procs EXCEPT ![p] = IF me.source = NoDir THEN [me EXCEPT !.at = "compare"]
                                       ELSE Returned(me)]
  /\ UNCHANGED <<history, work, output, flights>>

(***************************************************************************)
(* The baseline: resolve_compare_provenance and load_requested_baseline.     *)
(***************************************************************************)
\* HEAD and HEAD^ are read now, the workspace was read at the start.
BaselineCommit(me) ==
  CASE me.compare = "HEAD" -> LastCommit
    [] me.compare = "auto" /\ me.dir.status # Clean -> me.dir.commit
    [] OTHER -> LastCommit - 1

\* find_compatible_cache: the same pack under another resolved run digest.
Candidates(commit, digest) ==
  {d \in Dirs : d.commit = commit /\ d.status = Clean /\ d.digest # digest /\ Compatible(d)}

Against(p, d) ==
  LET compared == [procs[p] EXCEPT !.at = "output", !.baseline = d] IN
  procs' = [procs EXCEPT ![p] = IF WithOutput THEN compared ELSE Returned(compared)]
Abandon(p) == procs' = [procs EXCEPT ![p] = Idle]

\* A baseline that is missing is skipped or is the batch's error.
Missing(p) == IF procs[p].skip THEN Against(p, NoDir) ELSE Abandon(p)

FromCache(p, commit) ==
  LET digest == procs[p].dir.digest
      exact == Dir(commit, Clean, digest)
      others == Candidates(commit, digest) IN
  CASE commit = 0 -> Missing(p)
    [] commit # 0 /\ Valid(exact) -> Against(p, exact)
    [] commit # 0 /\ ~Valid(exact) /\ Cardinality(others) = 1 ->
         \E d \in others : Against(p, d)
    [] commit # 0 /\ ~Valid(exact) /\ Cardinality(others) > 1 -> Abandon(p)
    [] OTHER -> Missing(p)

Compare(p) ==
  LET me == procs[p] IN
  /\ me.at = "compare"
  /\ CASE me.compare = "none" -> Against(p, NoDir)
       [] me.compare = "dir" ->
            \E d \in Dirs :
              IF disk[d].report \in {NoReport, Torn} THEN Abandon(p) ELSE Against(p, d)
       [] OTHER -> FromCache(p, BaselineCommit(me))
  /\ UNCHANGED <<history, work, disk, output, flights>>

(***************************************************************************)
(* write_batch_output_dir: links to the cached bundles, then the report.     *)
(***************************************************************************)
LinkRuns(p) ==
  /\ procs[p].at = "output"
  /\ output' = [output EXCEPT !.links = procs[p].report]
  /\ procs' = [procs EXCEPT ![p].at = "report"]
  /\ UNCHANGED <<history, work, disk, flights>>

WriteOutput(p) ==
  /\ procs[p].at = "report"
  /\ output' = [output EXCEPT !.report = procs[p].report]
  /\ procs' = [procs EXCEPT ![p].at = "compare_json"]
  /\ UNCHANGED <<history, work, disk, flights>>

\* compare.json is written, or the old one removed.
WriteCompare(p) ==
  /\ procs[p].at = "compare_json"
  /\ output' = [output EXCEPT !.compare = procs[p].baseline]
  /\ procs' = [procs EXCEPT ![p] = Returned(@)]
  /\ UNCHANGED <<history, work, disk, flights>>

(***************************************************************************)
(* promote_pack_cache                                                       *)
(***************************************************************************)
\* find_latest_dirty_workspace_key: by the time in meta.json.
DirtyDirs(commit, digest) ==
  {d \in Dirs : d.commit = commit /\ d.status # Clean /\ d.digest = digest /\ disk[d].meta # NoMeta}
Latest(dirs) == {d \in dirs : \A e \in dirs : disk[e].meta <= disk[d].meta}

PromotionSources(target) ==
  LET explicit == {d \in Dirs : d.digest = target.digest /\ Exists(d)}
      here == HereDir IN
  explicit \cup IF Status # Clean /\ Exists(here) THEN {here}
                ELSE Latest(DirtyDirs(target.commit, target.digest))

Parts == {"report", "meta", "page"} \cup Runs

BeginPromotion(p) ==
  /\ Promotes /\ procs[p].at \in {"idle", "done"}
  /\ LET target == Dir(LastCommit, Clean, Digest[work]) IN
     \E source \in PromotionSources(target) :
       /\ source # target /\ Valid(source)
       /\ LET report == disk[source].report IN
          procs' = [procs EXCEPT ![p] =
            [Idle EXCEPT !.at = "clear", !.dir = target, !.source = source,
                         !.left = Parts,
                         !.report = [report EXCEPT !.home = IF @ = source THEN target ELSE @]]]
  /\ UNCHANGED <<history, work, disk, output, flights>>

\* One part of a directory, copied from another.
WithPart(content, part, from) ==
  CASE part = "report" -> [content EXCEPT !.report = from.report]
    [] part = "meta" -> [content EXCEPT !.meta = from.meta]
    [] part = "page" -> [content EXCEPT !.page = from.page]
    [] OTHER -> [content EXCEPT !.bundles[part] = from.bundles[part]]

\* remove_dir_all, then copy_dir_recursive, entry by entry in any order.
ClearPart(p) ==
  /\ procs[p].at = "clear"
  /\ \E part \in procs[p].left :
       /\ disk' = [disk EXCEPT ![procs[p].dir] = WithPart(@, part, Empty)]
       /\ procs' = [procs EXCEPT
            ![p].left = IF @ = {part} THEN Parts ELSE @ \ {part},
            ![p].at = IF procs[p].left = {part} THEN "copy" ELSE @]
  /\ UNCHANGED <<history, work, output, flights>>

CopyPart(p) ==
  /\ procs[p].at = "copy"
  /\ \E part \in procs[p].left :
       /\ disk' = [disk EXCEPT ![procs[p].dir] = WithPart(@, part, disk[procs[p].source])]
       /\ procs' = [procs EXCEPT
            ![p].left = @ \ {part},
            ![p].at = IF procs[p].left = {part} THEN "summary" ELSE @]
  /\ UNCHANGED <<history, work, output, flights>>

(***************************************************************************)
(* A process is killed, possibly in the middle of a write.                   *)
(***************************************************************************)
Tear(content, at) ==
  {content} \cup CASE at = "summary" -> {[content EXCEPT !.report = Torn]}
                   [] at = "meta" -> {[content EXCEPT !.meta = NoMeta]}
                   [] at = "page" -> {[content EXCEPT !.page = TRUE]}
                   [] OTHER -> {}

Crash(p) ==
  LET me == procs[p] IN
  /\ me.at \notin {"idle", "done"}
  /\ (IF me.source = NoDir THEN "run-pack" ELSE "promote-cache") \in Crashes
  /\ IF me.at = "fly"
     THEN \E all \in SUBSET me.doing :
            disk' = [disk EXCEPT ![me.dir].bundles =
              [r \in Runs |-> IF r \notin me.doing THEN @[r]
                              ELSE [exists |-> @[r].exists \/ r \in all, by |-> Nobody]]]
     ELSE IF me.dir \in Dirs
     THEN \E torn \in Tear(disk[me.dir], me.at) : disk' = [disk EXCEPT ![me.dir] = torn]
     ELSE UNCHANGED disk
  /\ procs' = [procs EXCEPT ![p] = Idle]
  /\ UNCHANGED <<history, work, output, flights>>

RunPack(p) ==
  \/ Begin(p) \/ Reuse(p) \/ Execute(p) \/ StartBundle(p) \/ FinishBundle(p) \/ FailRun(p)
  \/ Gather(p) \/ WriteSummary(p) \/ WriteMeta(p) \/ WritePage(p) \/ Compare(p)
  \/ LinkRuns(p) \/ WriteOutput(p) \/ WriteCompare(p)
Promote(p) == BeginPromotion(p) \/ ClearPart(p) \/ CopyPart(p)

Next ==
  \/ Edit
  \/ Commit
  \/ \E p \in Procs : RunPack(p) \/ Promote(p) \/ Crash(p)

Spec == Init /\ [][Next]_vars

(***************************************************************************)
(* Properties.                                                              *)
(***************************************************************************)
\* The executions of the same resolved runs, in whatever directory.
Executions(digest) == {g \in 1..Len(flights) : Digest[flights[g].code] = digest}

(* No batch is published in part: whatever processes ran, failed, were       *)
(* killed or promoted, a directory that validates holds the report of an      *)
(* execution every run of which succeeded, under the digest of its stem       *)
(* (execute_resolved_runs, write_batch_cache_dir, promote_pack_cache).       *)
(* Nobody locks a directory, so the bundles its records name may be another    *)
(* execution's, or a mixture: but only of executions of the same resolved     *)
(* runs, and as long as there has been one of these they are all its own.     *)
FlownInFull ==
  \A d \in Dirs : Valid(d) =>
    LET report == disk[d].report
        own == [exists |-> TRUE, by |-> report.flight] IN
    /\ flights[report.flight].flown = Runs /\ report.flight \in Executions(d.digest)
    /\ \A r \in Runs : LET bundle == disk[report.home].bundles[r] IN
         /\ bundle.by \in {Nobody} \cup Executions(d.digest)
         /\ Executions(d.digest) = {report.flight} => bundle = own

(* Where one process at a time runs and never refuses to reuse, a directory   *)
(* that validates is whole: the bundles its records name were all written by  *)
(* the execution its summary reports, even after a crash anywhere            *)
(* (validate_cached_batch_dir_compatible looks for the page, written last).  *)
ReusedIsWhole ==
  \A d \in Dirs : Valid(d) =>
    LET report == disk[d].report IN
    \A r \in Runs : disk[report.home].bundles[r] = [exists |-> TRUE, by |-> report.flight]

(* There, what a finished run-pack leaves the next one can reuse, and the     *)
(* stable output agrees with it: links, summary and compare.json are of that  *)
(* batch and of the baseline it was compared with                           *)
(* (write_batch_cache_dir, write_batch_output_dir).                          *)
FinishedIsReusable ==
  \A p \in Procs : LET me == procs[p] IN
    me.at = "done" /\ me.source = NoDir =>
      /\ Valid(me.dir) /\ disk[me.dir].report = me.report
      /\ WithOutput => output = [links |-> me.report, report |-> me.report, compare |-> me.baseline]

(* Together: reuse never serves less than a whole batch.                     *)
ReuseIsWhole == ReusedIsWhole /\ FinishedIsReusable

(* docs/evaluation.md:720: run-pack reuses a COMPLETE candidate cache.        *)
CompleteIsReused ==
  \A p \in Procs : LET me == procs[p] IN
    me.at = "compare" /\ me.flight = Nobody =>
      \A r \in Runs : disk[me.report.home].bundles[r].by = me.report.flight

(* docs/evaluation.md:723-724: on a clean workspace the automatic baseline is *)
(* the previous clean commit's cache, never the candidate itself.            *)
AutoIsPrevious ==
  \A p \in Procs : LET me == procs[p] IN
    me.at = "output" /\ me.compare = "auto" => me.baseline # me.dir

(* docs/evaluation.md:730-731: a dirty run that has become the new checkpoint  *)
(* is promoted into the clean commit key: where the run was keyed by the status *)
(* that the commit's own contents had on the commit before, and its batch was  *)
(* promoted to that commit, it is those contents that flew it.               *)
PromotedIsTheCommit ==
  (\A p \in Procs : procs[p].at \in {"idle", "done"}) =>
  \A c \in 2..LastCommit, digest \in Digests :
    LET dirty == disk[Dir(c - 1, Touched[history[c]], digest)].report.flight
        promoted == Dir(c, Clean, digest) IN
    Valid(promoted) /\ disk[promoted].report.flight = dirty => flights[dirty].code = history[c]
=============================================================================

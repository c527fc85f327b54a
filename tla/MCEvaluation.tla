---------------------------- MODULE MCEvaluation ----------------------------
(***************************************************************************)
(* What an evaluation keeps on disk: the attempts of a campaign, the batch  *)
(* caches of a pack, the selection of a collection.  Five small settings,   *)
(* one at a time; the variables of the others are unused.                   *)
(***************************************************************************)
EXTENDS Campaign, TLC

VARIABLES
  setting,
  history, work, disk, output, flights, procs,           \* BatchCache
  population, proposals, matching, place, schedule, receipts, selection, manifest   \* Selection

cacheVars == <<history, work, disk, output, flights, procs>>
selectionVars == <<population, proposals, matching, place, schedule, receipts, selection, manifest>>
allVars == <<setting, vars, cacheVars, selectionVars>>

\* Two runs on one collection; either may be the retry of the other.
CONSTANTS m1, m2
TwoMissions == {m1, m2}
OneOfTwo == <<m1>>

\* One run with both missions in turn, all failures and more drift.
CONSTANT ScheduledScenario
MCScheduledScenario ==
  [runs |-> {"r"}, outputs |-> {"o"}, attempts |-> <<m1, m2>>,
   refusals |-> {"Unsupported", "ExecutionFailed"}, drift |-> 2]
Scheduled == INSTANCE Campaign WITH
  Runs <- ScheduledScenario.runs, Outputs <- ScheduledScenario.outputs,
  Schedule <- ScheduledScenario.attempts, Refusals <- ScheduledScenario.refusals,
  MaxDrift <- ScheduledScenario.drift

\* Three contents of the workspace: two give the pack the same runs, and git
\* status lists the same names for all of them.
DigestOf == [c \in {1, 2, 3} |-> IF c = 3 THEN "b" ELSE "a"]
TouchedIn == [c \in {1, 2, 3} |-> "s"]

\* Several processes on one cache, with promotions; they are the campaigns', which
\* keeps them interchangeable.
CONSTANT SharedScenario
MCSharedScenario ==
  [runs |-> {"run"}, codes |-> {1, 2}, initial |-> 1, digest |-> DigestOf, touched |-> TouchedIn,
   commits |-> 1, attempts |-> 2, reuses |-> {TRUE}, compares |-> {"none"}, output |-> FALSE,
   parallels |-> {FALSE}, promotes |-> TRUE, crashes |-> {"run-pack"}]
Shared == INSTANCE BatchCache WITH
  Procs <- Runs, Runs <- SharedScenario.runs, Codes <- SharedScenario.codes,
  Initial <- SharedScenario.initial, Digest <- SharedScenario.digest,
  Touched <- SharedScenario.touched, MaxCommits <- SharedScenario.commits,
  MaxAttempts <- SharedScenario.attempts, Reuses <- SharedScenario.reuses,
  Compares <- SharedScenario.compares, WithOutput <- SharedScenario.output,
  Parallels <- SharedScenario.parallels, Promotes <- SharedScenario.promotes,
  Crashes <- SharedScenario.crashes

\* One process at a time that never refuses to reuse and never promotes, with workers, output
\* and baselines.
CONSTANT AloneScenario
MCAloneScenario ==
  [runs |-> {"b1", "b2"}, codes |-> {1, 3}, initial |-> 1, digest |-> DigestOf,
   touched |-> TouchedIn, commits |-> 2, attempts |-> 2,
   compares |-> {"none", "auto", "HEAD", "dir"}, output |-> TRUE, parallels |-> {TRUE}]
Alone == INSTANCE BatchCache WITH
  Procs <- {"p"}, Runs <- AloneScenario.runs, Codes <- AloneScenario.codes,
  Initial <- AloneScenario.initial, Digest <- AloneScenario.digest,
  Touched <- AloneScenario.touched, MaxCommits <- AloneScenario.commits,
  MaxAttempts <- AloneScenario.attempts, Reuses <- {TRUE}, Compares <- AloneScenario.compares,
  WithOutput <- AloneScenario.output, Parallels <- AloneScenario.parallels,
  Promotes <- FALSE, Crashes <- {"run-pack"}

\* Three indices, three identities, two panels of different quotas.
CONSTANT CollectionScenario
MCCollectionScenario ==
  [indices |-> {0, 1, 2}, identities |-> {5, 6, 7}, panels |-> {"narrow", "wide"},
   quota |-> [p \in {"narrow", "wide"} |-> IF p = "narrow" THEN 1 ELSE 2]]
Collected == INSTANCE Selection WITH
  Indices <- CollectionScenario.indices, Identities <- CollectionScenario.identities,
  Panels <- CollectionScenario.panels, Quota <- CollectionScenario.quota

ASSUME ScheduledAssumption == Scheduled!CampaignAssumption
ASSUME SharedAssumption == Shared!BatchCacheAssumption
ASSUME AloneAssumption == Alone!BatchCacheAssumption
ASSUME CollectedAssumption == Collected!SelectionAssumption

Symmetry == Permutations(Runs) \cup Permutations(Outputs)

NoCampaign == inputs = "unused" /\ owner = "unused" /\ files = "unused" /\ runs = "unused"
NoCache ==
  /\ history = "unused" /\ work = "unused" /\ disk = "unused"
  /\ output = "unused" /\ flights = "unused" /\ procs = "unused"
NoSelection ==
  /\ population = "unused" /\ proposals = "unused" /\ matching = "unused" /\ place = "unused"
  /\ schedule = "unused" /\ receipts = "unused" /\ selection = "unused" /\ manifest = "unused"

EvaluationInit ==
  \/ setting = "campaigns" /\ Init /\ NoCache /\ NoSelection
  \/ setting = "schedule" /\ Scheduled!Init /\ NoCache /\ NoSelection
  \/ setting = "shared" /\ Shared!Init /\ NoCampaign /\ NoSelection
  \/ setting = "alone" /\ Alone!Init /\ NoCampaign /\ NoSelection
  \/ setting = "collection" /\ Collected!Init /\ NoCampaign /\ NoCache

EvaluationNext ==
  /\ UNCHANGED setting
  /\ \/ setting = "campaigns" /\ Next /\ UNCHANGED <<cacheVars, selectionVars>>
     \/ setting = "schedule" /\ Scheduled!Next /\ UNCHANGED <<cacheVars, selectionVars>>
     \/ setting = "shared" /\ Shared!Next /\ UNCHANGED <<vars, selectionVars>>
     \/ setting = "alone" /\ Alone!Next /\ UNCHANGED <<vars, selectionVars>>
     \/ setting = "collection" /\ Collected!Next /\ UNCHANGED <<vars, cacheVars>>

EvaluationSpec == EvaluationInit /\ [][EvaluationNext]_allVars

----------------------------------------------------------------------------
(* The promises of Campaign, BatchCache and Selection, each in its setting.  *)

\* A mission is exposed only under a receipt that says so, written before, and a complete receipt
\* stays as it is, also when its output is removed and tried again (pd-missions collection.rs).
ExposuresOnRecord ==
  /\ [](setting = "campaigns" => ExposureRecorded)
  /\ [][setting = "campaigns" => ReceiptsAppendOnly]_allVars

\* Campaigns keep to one owner per output, record their attempts in order and publish one
\* summary, over all of them (CampaignLedger; run_campaign in pd-eval).
CampaignsKeepLedger ==
  /\ setting = "campaigns" => Ledger!Init
  /\ [][setting = "campaigns" => [Ledger!Next]_(Ledger!ledgerVars)]_allVars

\* What is on disk after any crash or drift is the truth about the attempts made, and a summary
\* that claims integrity speaks of one set of inputs.
DiskTellsAttemptsMade == setting = "schedule" => Scheduled!DiskTellsAttempts

\* No batch is published in part, whatever processes ran, failed, were killed or promoted; and
\* bundles are of another execution than the one reported only once there are two of these runs.
CachedIsFlownInFull == setting = "shared" => Shared!FlownInFull

\* Where one process at a time runs, reuse never serves less than a whole batch, also after a
\* crash anywhere, and what a finished run-pack leaves is reusable and agrees with its output.
CacheReuseIsWhole == setting = "alone" => Alone!ReuseIsWhole

\* One manifest for one request, whoever writes it, in whatever order, and whoever reads it.
CollectionIsCanonical == setting = "collection" => Collected!ManifestIsCanonical

=============================================================================

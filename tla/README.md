# Powered Descent Lab: TLA+ models and proofs

Powered Descent Lab is a Rust workspace that flies a simulated lander under a
deterministic, fixed-step simulation, records what was flown, and judges the
record by replaying it. This directory holds a verification development of its
core logic: TLA+ modules translated from the code, TLC configurations that check
them on small instances, and TLAPS proofs of the results that matter most.

The tool invocations are `tlc -config X.cfg MCModule` and `tlapm Module.tla`.

## 1. The system

| Component | Code | State | Operations | What makes it correct |
|---|---|---|---|---|
| Physics transition and mission | `pd-core/src/sim.rs`, `eval.rs`, `model.rs` | `SimulationState`: step, held command, verdicts, waypoint progress, capture window | `step_with_contact_report`, `apply_*` | contact before progress before the time limit; handoffs judged once, in order, on the control clock |
| Bounded run | `pd-core/src/sim.rs` (`run_simulation_bounded`), `bounded_run.rs` | action log, event log, trace, contact, stop cause, failure | controller update, guard before/after, transition, finish | the artifact is the truthful prefix of the flight whatever stopped it |
| Bounded replay | `pd-core/src/sim.rs` (`replay_simulation_bounded`) | position in the saved log, a second run | admit the next action, settle | an intact log gives the same artifact; a damaged one is never accepted |
| Ordinary run and replay | `pd-core/src/sim.rs` (`run_simulation`, `replay_simulation`) | as above, no guard | the same loop without limits | same order of reasons to stop |
| Episode and agent loop | `pd-run/src/episode.rs`, `agent.rs` | the same records, kept between two calls of the caller | `step_frame`, `decision_failed`, `reset_failed`, `finish`, `run_agent_*` | the same flight as the bounded run, call by call; a completed episode is final |
| Prepared programs | `pd-run/src/prepared.rs` | position in a command list | validate, play back through the loop | a valid program is flown as written |
| Planning rules | `pd-plan/src/*` | none (pure) | clock boundaries, ballistics, clearing templates | entries on the clock, between origin and conflict; commands owned once; schedules that validate |
| Clearing search | `pd-planner/src/waypoint_v2.rs` (`search_local_clearing`), `local_clearing.rs` | entries tried, the winner and its alternative, the record of the pending cycle | primary clocks, fallback clocks, a row per template, the choice | the choice does not depend on the order of the grid; exhausted means exhausted |
| Waypoint session | `pd-planner/src/waypoint_v2.rs`, `waypoint_v2/*` | the live flight, cycles, segments, queued nominal, terminal stop | `start`, `advance_piece`, `finish` | the ledger covers the flight; a checked early exit is honoured; the verdict is proved by a replay |
| Ballistic candidate | `pd-planner/src/ballistic_feedback.rs` (`execute`) | the live flight, the goal with its revision, the correction and the clocks made for it | one control pair per turn: recovery, handoff, coast, replan, correction, landing | a plan is for the goal it was made for; the loop ends |
| Proposal search, forecasts | `pd-planner/src/planner_flight.rs`, `local_clearing.rs`, `ballistic_feedback/*` | none beyond a call | numeric search | numeric |
| Guidance | `pd-control/src/transfer/*`, `terminal/mod.rs`, `maneuver/*` | plan, phase, leg records, brake, countdown, the landing under way | one update per control boundary | what is kept about a leg is about that leg; plans and brakes end in order; one landing on its own clock |
| Evaluation, captures, campaigns | `pd-eval/src/*` | evidence, capture directory with a seal, campaign directory | verify, save, load, run campaign | only sealed and replayed evidence counts; create-only files; a summary tells what its records tell |
| Missions | `pd-missions/src/*` | collections with their selection ledger, usage receipts | generate, select, publish, read back, record usage | a manifest is what the writer would write again; every exposure is on record |
| Packs and their cache | `pd-eval-cli/src/runtime.rs`, `execution.rs`, `lib.rs` | cache directories, the output directory, the workspace's commits | run-pack, promote-cache | a directory that validates holds one whole batch |
| Recorded planning session | `pd-cli/src/planner_v2.rs`, `pd-eval-cli/src/waypoint_v2_bundle.rs`, `waypoint_v2_output.rs` | the trace of a session, its directory | drive, conclude, write, replay | the trace agrees with the verdict; the receipt is last |
| Reports, bindings, benchmarks, examples, studies | `pd-report`, `pd-eval-cli` (pages), `pd-python`, `pd-benchmark`, `examples`, `experiments`, `studies` | none of their own | layout; clients of the above | - |

How they interact: everything that flies calls the same `SimulationState`. The
drivers that own a flight are the bounded run (one call, with callbacks into a
controller and a guard), the ordinary run (the same without limits and guard), the
episode (one call per control interval, the caller keeps the agent), the planner's
session (one call per piece) and its ballistic candidate (one loop). The first three
return an action log and an artifact; a replay is a run whose controller reads the
log. The evaluator accepts a capture only after such a replay, a campaign is
a directory of captures, a batch a directory of bundles, and a recorded session a
directory with a trace and a receipt.

What is hard here. There is next to no concurrency inside a flight; campaigns on one collection and packs
in one cache are independent processes that share files, and any process that writes a
directory may die in the middle. Otherwise the difficulty is in *order* and *agreement*: several reasons to stop that fall on
one step, two clocks (physics steps and control intervals) with limits on each,
failures between two updates of a record that must leave the record truthful,
several drivers that all claim to fly the same flight, controllers that keep dozens of
fields about one leg or one goal and must drop them together, and replays that must
notice any damage. `PROJECT.json` lists the hazards with their lines.

## 2. The modules

`Plant` is the vocabulary: it has no variables, only the mission state as a record
and the transition as operators on it. `BoundedRun`, `OrdinaryRun` and `Episode` extend
it; `Replay` is two instances of `BoundedRun`, `GuardedAgent` extends it with its host,
`PreparedProgram` extends `Episode` with its agent. `Episode` and `OrdinaryRun` are shown
to implement `BoundedRun`, and `BoundedRun` to implement `ControlClock`. `RouteFlight`
composes `TransferGuidance` with the judge of `Plant`, `WaypointBundle` composes
`WaypointSession` with the process that records it, `ClearingSearch` extends `EntryClock`. `Campaign` is shown to implement
`CampaignLedger`. The others stand on their own.

Small components share a run: `MCBoundedRun`, `MCCallers`, `MCEvaluation`,
`MCGuidance` and `MCWaypointSession` hold several settings, a behaviour being one of them from its first state
to its last. A variable that a setting has no use for is `"unused"` throughout (during a search, the
session stands still in its first state), and each
property of such a module names the setting it is about. An instance in them carries its
own constants, so two settings may be one module at two sizes.

| Module | Models | State and actions |
|---|---|---|
| `Plant` | `SimulationState::step_with_contact_report` and what it calls in `eval.rs` | `StepSim(goal, s, o)` is one transition of state `s` with outcome `o`; `StepEvents` is what it reports. |
| `BoundedRun` | `run_simulation_bounded` | `phase` is the place in the function: before the first guard, at a control boundary, inside an interval, returned. `InitialGuard`, `IssueUpdate`, `RefuseUpdate`, `RejectTransition`, `LoseTransition` (nonfinite numbers, rollback), `Transition`. |
| `ControlClock` | the promise of every driver about time | `Select`, `Hold`, `Stop` with a countdown; the abstract specification. |
| `Replay` | `replay_simulation_bounded` after a recorded run | a record (`BoundedRun`), the log handed over intact, truncated, extended or altered (`Present`), a second `BoundedRun` whose controller reads it, `Settle` for entries left over. |
| `Episode` | `Episode` and `run_agent_with_capture_mode` | `place` is where the caller is; `StepFrame` starts the counted loop, `Advance` and `LoseStep` are its iterations, `RefuseFrame`, `ResetFailed`, `Finish`. |
| `WaypointSession` | `WaypointV2Session` and `FlightLoop` | `stage` is the place inside `advance_piece`; one action per helper, `Fail` for its error arm, `Finish` for `finish` with `validate_records`. |
| `EntryClock` | the clock rules of `pd-plan` | no state: where a correction may be entered (`LaterTicks`, `FallbackTicks`, `InitialTicks`), what a segment owns (`CommandCount`), what a valid schedule is. |
| `ClearingSearch` | `search_local_clearing` and `local_rank` | `place` is the place in its loops: `Ask`, `TryEntry`, `AcceptRow` / `RejectRow`, `FallBack`, `FindNothing` or `Choose` and `Accept`; `Break` is an error at any of them. `kept` is what the pending cycle would show. |
| `CampaignLedger` | the promise about an output path | `Claim`, `Record`, `Publish`, `Abandon`: one owner at a time, attempts one by one, one summary over all of them; the abstract specification. |
| `Campaign` | `evaluate_collection_with_executor`, `evaluate_agent`, `save_evaluation`, the usage receipts | `runs[r].at` is the place of run `r` in the call; `files` is the disk. `Reserve`, `WriteRequest`, `CreateReceipt`, `FillReceipt`, `CheckUsage`, `ListReceipts`, `SnapshotBefore`; per attempt `LoadMission`, `RefuseAttempt`, `TakeOff`, `Touchdown`, `SaveCapture` / `LoseCapture`, `RecordAttempt`; `SnapshotAfter`, `Summarise`; and from outside `Stop` (error or crash), `Drift` (an input is edited), `Discard` (a stopped run's directory is removed). |
| `Selection` | `write_collection_v2`, `SelectionState`, `read_collection_manifest_v2` | `Reserve` sorts the schedule, `Select` takes the next index, `Publish` writes the manifest, `Alter` is somebody's edit; `Reads` is the reader. |
| `OrdinaryRun` | `run_simulation`, `replay_simulation` | `Enter`, `Update`, `Step` fly the record; `Present` hands over a log, intact or damaged; `ConsumeAction` and `ReplayStep` are the replay, which returns an artifact or fails. |
| `GuardedAgent` | `run_agent_guarded` | the bounded run with the host's two sides of it: `Admit` and `Refuse` are its guard, `Decide` its callback, which keeps the agent's record before the core admits the command. |
| `PreparedProgram` | `PreparedProgramV1::validate`, `run_prepared_program` | `PreparedInit` validates, `Play` answers the next entry. |
| `Maneuver` | `maneuver/contract.rs`, `maneuver/landing.rs` and the harness of `examples/maneuver-policy` | `Submit` is any client, `Frame`, `Fly`, `FailDecision` the harness, `NativeEnd` the close. |
| `TransferGuidance` | `TransferPdgController` | one action per kind of update: `Track` and `HandOff` on a route (the plan is kept, replaced or searched: `Current`, `Recheck`, `FinalSearch`, `ReachSearch`), `Direct` for the phases; `Reset`. |
| `RouteFlight` | the controller above before `evaluate_waypoint_sequence_progress` | `Takeoff`, `Fly`, `Touch`: one control boundary, the core first. Each of the two has a sighting of its own (`CoreSightings`): of the same waypoint they differ for a craft at rest only. `apart` is the history of what may part them. |
| `TerminalGuidance` | `TerminalPdgController` | `Update` under one of three plan policies, `Skip` for time spent elsewhere, `Reset`. |
| `BallisticFlight` | `execute` of the ballistic candidate | `place` is the place in the loop's body; one action per branch, from `StopAtTop` to `Command`. |
| `WaypointBundle` | the recorded session: `flight` of pd-cli, the writer and the validator of its directory | `Drive` and `Conclude` call the session, `WriteNext` writes the next file, `Die` ends the process; `ReplayAccepts` is the reader. |
| `BatchCache` | `run_pack_cached_with_options`, `promote_pack_cache` | `procs[p]` is a process, `RunPack` and `Promote` its steps, `Crash`; `Edit` and `Commit` change the workspace under it. |
| `MC...` | values of the constants for TLC, and the settings of a shared run | |
| `Plant_proofs` | lemmas about one transition of `Plant` and about the control clock, for the modules below | |
| `BoundedRun_proofs` | the bounded run: types, log, clock, stop; then its records, its mission and its host | |
| `Replay_proofs` | record and replay | |
| `Callers_proofs` | the episode, prepared programs, the ordinary run and replay, the landing, the ballistic candidate | |
| `Planner_proofs` | the planning session, its recording process and directory, the planner's clocks, the search of a clearing | |
| `Guidance_proofs` | the controllers, and the transfer controller under the core | |
| `Campaign_proofs` | campaigns: the disk, exposures, the ledger | |
| `Evaluation_proofs` | the same in the shared run's settings; the batch cache; collections | |

A shared run extends one of its components and instantiates the others, and the scenario of each
instance is a constant of the `MC` module with a named assumption: `ProgramScenario`,
`OrdinaryScenario`, `LandingScenario` and `CandidateScenario` in `MCCallers`, `SearchScenario` in
`MCWaypointSession`, `AskedScenario` and `TerminalScenario` in `MCGuidance`, `ScheduledScenario`,
`SharedScenario`, `AloneScenario` and `CollectionScenario` in `MCEvaluation`. The `.cfg` gives
each the small value that the `MC` module defines (`MCProgramScenario`, ...); the proofs are about
every value that satisfies the assumption.

**Abstractions.** Time is counted in physics steps. The rigid body is reduced to the
`Outcome` the mission can see after an integration step: the class of contact,
whether the craft is inside the capture radius, past the waypoint plane, in the
lateral envelope, in the kinematic envelope. Every combination the code can
produce is possible at every step. Commands are members of a small set; finite and
canonical commands are told apart from the rest, nothing more. `f64` arithmetic
appears where it decides a branch in `Plant`: `max_time_s * hz` and `k / hz >= max_time_s` round
separately, so the horizon in steps and the first late step are two constants one
apart at most (`PlantAssumption`). Texts, messages, metrics and manifests are
left out. In `WaypointSession` a search, an audit or a replay proof is an
answer, chosen freely except where the code forces it: a proof can succeed only on
a ledger that reaches the live state (`Provable`), a clearing is one `search_row`
can accept (`Clearings`; how one is found and chosen is `ClearingSearch`, which chooses only what a
row's flight answers: its first eligible handoff, its fuel, its braking room), the queued nominal is the one that was checked.
The controllers and the ballistic candidate are treated the same way: what one update asks
of its predictions is a record of free answers (`Looks`, `Sightings`, `Views`), or a choice
between the branches, constrained only where the code derives one answer from another.
On a route the core and the controller compute what they assess apart. Of one waypoint both get
the same numbers, but for the heading of a craft at rest (speed at most 1e-9): the core's error
is `acos(0)`, a right angle (`eval.rs:277-284`), the controller's a straight one
(`transfer/waypoint.rs:216-220`). A waypoint whose heading limit lies between the two, and which asks
for no speed and no progress, is `Lenient`: there `rest` lets the core see the envelope
that the controller does not. Of different waypoints they see anything.
The clocks of `BallisticFlight` that only pace probes and evidence are left out; what
they would allow may happen at any turn. Its `Experiments` are sets of abilities; the ones
checked are among those of `WaypointExperiment`.

In `Campaign` a file is whole or torn, and its content is what the properties ask of
it; a digest is equality of contents. Only the usage receipts are read by another
process while they are written, so only theirs is a write of two steps; every other
write ends whole, or leaves a torn or no file. An input is the declared one or an edited
one: edits are not undone, because the code cannot see an edit that is undone between
two of its snapshots, and promises nothing about it. The order of receipts and the
names of files are left out; the request's attempts are distinct positions of `Schedule`.
In `Selection` the generator is a function chosen once (index to resolved mission or
none, mission to its identity, identity to the panels its geometry matches).

**Faults.** Operators introduced by a comment `Fault:` are plausible bugs of the
definition that follows them (a dropped guard, an off-by-one, a reset too few).
Nothing uses them; replacing the definition's body by its fault makes the property
listed beside it in `PROJECT.json` fail, which shows that the property depends on
that code.

## 3. The runs

| Run | Instance | What it shows |
|---|---|---|
| `bounded_run` | interval 2, time limit at step 6, two waypoints, coverage over {0, 4, 8}, hard end over {0, 3, 4, 6}, four goals, two commands, samples every third step; called by anyone or by the host of an agent | the artifact of a bounded run is the truthful prefix of one flight on the control clock, and the host's own record is the core's log |
| `replay` | interval 2, time limit at step 5, a one-waypoint sequence, two limits | an intact log replays to the same artifact; a truncated, extended or altered one is never accepted |
| `callers` | an episode (interval 3, limit at step 5, off the control clock, commands to be clamped and one that cannot be) and a wider one; prepared programs on and off the clock; the ordinary run with horizon and limit apart; a landing with two request identities; the ballistic candidate under four experiments, deadline 6, cap 2 | `EpisodeIsBoundedRun`, `OrdinaryIsBoundedRun`: two further drivers fly the bounded run; programs are flown as written; one landing, closed once; the candidate plans for its goal; every loop ends |
| `waypoint_session` | deadlines 0 and 16, two corrections, powered phase and continuation of one command; the recording process may die at any point | the session's records agree with each other and with its verdict, its directory replays, its receipt is last, and the session ends; beside it, searches of a clearing over up to eight entries, and over two templates: they choose by their rule and leave themselves on record |
| `evaluation` | two campaigns on one collection with two output paths; one campaign over two missions with every refusal and two edits; two processes in one cache with promotions, where a run-pack may be killed; one process with workers, output and baselines; three indices, three identities and two panels | crashes anywhere, retries, edits and concurrent runs keep exposures on record, outputs apart, caches whole; a manifest is what the writer would write again |
| `guidance` | the transfer controller without a route, on a direct one, on two waypoints, and on three with a last leg of no direction; a route of three waypoints, two of them lenient, before the core, from any start; the terminal controller under its three policies | records of a leg are about that leg, also past a leg without a direction; plans are replaced patiently, phases are legal, brake and plans end in order; controller and core part over the route in two named events only, and after rest in one direction only |
| `bounded_run_events`, `waypoint_deadline`, `campaign_exposure`, `batch_cache_complete`, `batch_cache_auto`, `batch_cache_promoted` | as above, one statement each | the code breaks a statement of the repository: see Findings |

**What the properties say.** Each is stated in natural language where it is defined; the
ones hardest to hold are these. `ActionLogIsFlight`, `ClockAndLimits`, `StopTruth`: what
the log says was flown, when a command is asked for, and why a run stopped. `RecordsAgree`
(events, samples, contact and state tell one story) and `MissionTruth` (waypoints in order,
handoffs on the control clock, a touchdown is not yet a mission). `FaithfulReplay` and
`AcceptedLogIsFlown`: both directions of a replay. `ClaimsEarned`: a landing or an early
exit that a session claims was checked and flown to. `NeverStranded`: a correction leaves
guarded time before the deadline. `RecordedFlightReplays`: the trace, collected before
`finish` may overturn the stop, agrees with the result that a validator in another crate
compares it with; a receipt is refused in one case only, which the property names: an error
struck the piece for which a checked landing was queued before that landing was its nominal.
There `validate_records` fails on a result that already says `ImplementationError`, so the flight,
its summary and its trace stay on disk without a receipt. `CandidatePlansInOrder`: the
goal of the ballistic candidate is replaced at five places, and no correction or coast
clock survives it. `ClearingIsTheBest`: the winner, its entry state and its alternative are three variables, and the
choice over them is compared with the rule over all accepted rows at once.
`CandidateStops`: a coast-through that is chosen without flying a pair
and declined in the next turn is not chosen again at that state. `CachedIsFlownInFull`: processes
without a lock write bundles of one directory over each other and leave their reports in any order;
what holds is that a whole report is of an execution that flew every run, that no bundle is of an
execution under another digest, and that a report of the only execution under its digest has
that execution's bundles and no other's.

**Bounds, and why they are enough.** The mission state forgets everything but the
waypoint index, the latch and the step, and all guards are comparisons of the step
with the interval, the two limits, the time limit, the checkpoint and the sample
interval. Six steps at interval two (five at three) put each of these on and off the
control clock, equal to, before and after each other; two waypoints are needed
for a latch to outlive its waypoint and for a sequence to be half passed; two
commands are needed to notice a wrong one. `replay` uses one waypoint and one goal,
the sequence, because the record and its replay are two flights of the same plant
and the goal enters both the same way; outcomes the mission cannot tell apart are
merged there (`Distinct`). In `waypoint_session` a deadline of 16 is the first that
leaves room for one correction more than the policy allows, with and without
early exits; 0 is the deadline of a time limit below one step.
The searches have one template at up to four primary and four fallback entries (some beyond the
conflict, some twice at one tick, some before the launch, none at all), or two templates at two
entries: a winner needs to be displaced, and an alternative to be displaced by another, within one
entry and across entries. `ClocksOfTheTests` evaluates the clocks at the program's own sizes. The program's own values
are larger (powered phase 60, continuation 240, six corrections), in the same order.
The ballistic candidate's clocks (refresh 24, recovery 600, cap 6 or 24, four proposals)
are 2, 2, 2 and 2 control pairs and counts, so that a refresh, a recovery and the cap are
each reached, met and passed before deadline 6.
Two campaigns, or two processes, are enough for each to find the other's file, whole or
torn, and to be the other's retry; a second attempt matters to the agreement of summary and
records, not to the concurrency, so it has a setting of its own. Two processes promote without
being killed half way (one that stands still there is as good as killed, for the other); the proof
has no such bound. One edit of an input falls
before, between or after any two reads of one campaign; two tell the sources from a mission.
Three indices are the fewest where a duplicate follows an excluded mission, and two
quotas where a panel is full and another is not. Two looks in a row are the controllers'
hysteresis; the terminal candidates have a short and a long burn, and six periods let a
countdown run out, be interrupted and be overtaken. No run uses a state constraint: counters
are bounded by the limits themselves, and the bounds that are not the code's are constants
named as such (`MaxDrift`, `MaxCommits`, `MaxAttempts`, `MaxReplans`, `MaxSteps`, `MaxTime`).

Settings in which controller and core, or a leg and its records, do not simply agree are part of
`guidance`, and the properties say what is left of the agreement there. With a leg whose two points
coincide (`Degenerate`) the handoff to it stops half way: the waypoint counter has advanced and the
marker is not written. `ActiveLegKept` demands exactly that one marker less, and that nothing of the leg
before survives. A craft that starts inside a capture radius or past a plane is judged by its
controller at step 0, of which the core is never asked; and a craft at rest at a lenient waypoint is
passed by the core and not by the controller. `RouteAgreesWithCore` holds the two to the same waypoint and the
same window until one of these happens, and after rest alone it lets the controller fall behind the core, never
ahead. Four boundaries after the start (`MaxSteps`) pass all three waypoints and one more; waypoints 0 and 1
are lenient, so that a craft may rest at one and go on to another that is, or to one that is not.

**Fairness.** Every liveness property is about one thread whose calls return: a search, a
replay, an agent's answer and a turn of a loop are finite, so as long as the caller can take
a step it takes one (weak fairness of the whole next-state relation of the episode, the
session or the candidate; for a landing, of the frame, the flight and the native end, and of
nothing a client may submit). Which step is never assumed: a flight that never lands, an agent
that always refuses, a planner that always errs and a geometry that always declines are all
fair. A recording process need not die; where it does, `SessionEndsOrDies` asks for nothing.

**Deadlock** is checked in every run but `guidance`: the returned states stutter explicitly
(`Returned`, `AskAgain`, `Rest`, `Ended`, `Over`). A flight of `guidance` ends at the named
bounds `MaxSteps` and `MaxTime`, where a controller is simply not asked again.

**Findings.**
- `HandoffsLogged` (run `bounded_run_events`): on the step that reaches `max_time_s`
  the events of the progress evaluation are dropped (`sim.rs:194-203`), so a waypoint
  passed on that very step is counted in the state and missing from the event log,
  which `docs/architecture.md:878-887` and the event test in `eval.rs` lead one to
  expect.
- `DeadlineStands` (run `waypoint_deadline`): a session whose deadline is step 0
  stops with `Deadline`, and `finish` then fails to prove the empty flight, because
  the bounded run ranks the hard end above the coverage; the stop becomes an
  implementation error although nothing disagreed
  (`docs/waypoint_v2_practical_plan.md:179` lists `Deadline` as a stop of its own).
- `ExposureIsNoMutation` (run `campaign_exposure`): a receipt is created and then written,
  and the evaluator hashes every receipt it finds. One that another campaign has created
  and not yet written is bound with its unfinished bytes; when it is complete, the second
  snapshot differs and the summary's integrity fails although no input changed.
  `pd-eval/src/collection.rs:168` says that a later receipt is not a mutation.
- `CompleteIsReused` (run `batch_cache_complete`): a directory is valid when the files its
  records name exist; when a run without reuse is killed over a finished batch, the old
  summary and page stay over bundles of two executions, and the next run reuses them.
- `AutoIsPrevious` (run `batch_cache_auto`): the workspace is identified before the batch is
  flown and `HEAD^` is read after it; a commit in between makes the candidate its own baseline.
- `PromotedIsTheCommit` (run `batch_cache_promoted`): the key of a dirty workspace digests
  the status lines of its changed files, the names, and not their contents. An edit is flown in the
  dirty workspace; the same files are edited again, which leaves the key as it is, and committed; then the dirty
  directory is promoted to the commit (`--source-workspace` names it). The cache of the clean commit now
  holds a batch flown by contents that were never in it. `docs/evaluation.md:730` offers promotion for
  a dirty run that has become the checkpoint commit; the code cannot tell this one from such a run.

Two observations that no statement of the repository contradicts: a receipt torn by a
crash stops every later campaign on its collection, because each one parses all of them
(`pd-missions/src/collection.rs:279`); and a manifest replaced after its digest was
compared and before the first snapshot is bound as the requested one
(`pd-eval/src/collection.rs:131`).

## 4. The proofs

TLAPS checks every theorem below for all values of the constants that satisfy the named
assumptions; the runs check the same formulas on small instances. "Any scenario" means
any interval, time limit, horizon within one step of it, number of waypoints, commands and
sample interval (`PlantAssumption`, `RunAssumption`).

### The bounded run (`BoundedRun_proofs`)

| Theorem | Statement |
|---|---|
| `TypeCorrect` | `Spec => []TypeOK` |
| `LogIsFlight` | `Spec => []ActionLogIsFlight` |
| `PhaseKeepsClock`, `LimitsHold`, `ClockAndLimitsHold` | `Spec => []PhaseClock`, `Spec => []WithinLimits`, and both as the checked `ClockAndLimits` |
| `StopIsTrue` | `Spec => []StopTruth` |
| `RunImplementsClock` | `Spec => Clock!Spec`: the modulus test implements the countdown |
| `EvidenceIsOneStory` | `Spec => []RecordsAgree`: events, samples, contact and state tell one story |
| `MissionIsTrue` | `Spec => MissionTruth`: waypoints in order, handoffs on the control clock, one verdict |
| `HostedRunIsBoundedRun` | `RunSpec => Spec`: the host of a guarded agent adds no behaviour, so all of the above holds under it |
| `HostKeepsTheActionLog` | `RunSpec => []HostRecordIsActionLog` |

The argument for the first five is one inductive invariant, `IInv == TypeOK /\ PhaseClock /\
ActionLogIsFlight /\ WithinLimits /\ StopTruth`. None of the parts is inductive by
itself. `ActionLogIsFlight` says that the next entry is due at `updates * Interval`;
that a command is asked for exactly then is what `PhaseClock` says, and `PhaseClock`
in turn needs the type of `sim` and that no reason to stop is pending.
`WithinLimits` needs from `PhaseClock` that no step is flown and no command asked for
once a limit is reached; `StopTruth` needs `WithinLimits` to turn "reached" into
"equal". The arithmetic is isolated in a few lemmas on multiples
(`MultiplesOrdered`, `BoundaryIsMultiple`, `BoundaryEndsInterval`), so that the
step proofs are linear; the transition of the plant enters through
`StepSimKeepsType` only. The refinement uses the same invariant, with the mapping
`left <- updates * Interval - sim.step`.

The records rest on a second invariant, `RecordInv`. Its first two parts say more of the
verdict than any record: how each end of a flight was judged (`Ended`), and how an open
window, a failed waypoint and a route passed to its end go with it (`Passed`). With them the
three others are inductive: the contact kept is the one that ended the flight, the event
log closes there and nowhere else, and the trace is the sample clock and the end. A
rolled-back step keeps all five because it keeps `sim`.

### Record and replay (`Replay_proofs`)

| Theorem | Statement |
|---|---|
| `LogsAreFlown` | `Spec => []AcceptedLogIsFlown`, under every guard and limit |
| `ReplayIsFaithful` | `Spec => []FaithfulReplay` |

`LogInv` is the invariant of the first: the types of both runs, where the replay stands on the
clock, and that the entries used are the entries flown. It says nothing of what is
recorded, which is why a damaged log is no exception.

A faithful replay is a statement about the whole flight: two runs given the same
commands in the same world end alike. Induction over the length of the log is out of the
prover's reach, so the induction is the one over behaviours. A *trail* is a sequence of
moments of a run, each following from the one before by the next logged command or
the next outcome of the world. `TrailInv` says that there is a trail that ends where
the record stands (each step of the recording extends it by a moment), and
`FollowInv` that the replay of an intact log stands on that trail (each of its
steps is the same function of the moment, the entry and the outcome, so it goes
one moment on). A replay that ends does so at the trail's end, because only there
a moment has no successor. `FaithInv` is the three together.
`Record!` and `Rerun!` bring operators of the plant of their own, though their constants
are the same: `SameRecordPlant`, `SameReading` and their like say that they are `Plant`'s.

`ReplayAssumption` says of the module's own constants what `RunAssumption` says of the bounded
run's: the sample interval is a number, goals and limits are goals and limits.

### The callers (`Callers_proofs`)

| Theorem | Statement |
|---|---|
| `EpisodeImplementsBoundedRun` | `CallersSpec => EpisodeIsBoundedRun`, if episodes capture their records (`Modes = {"Captured"}`) |
| `HorizonEndsTheMission` | `CallersSpec => []EpisodeHorizonEndsMission` |
| `OrdinaryImplementsBoundedRun` | `CallersSpec => OrdinaryIsBoundedRun`, if the time limit is not beyond the horizon |
| `OrdinaryReplaysAreTheLog` | `CallersSpec => []OrdinaryReplayIsTheLog` |
| `ProgramsAreFlown` | `CallersSpec => []PreparedProgramIsFlown` |
| `OneLandingIsFlown` | `CallersSpec => []LandingIsOne` |
| `CandidatesPlanInOrder` | `CallersSpec => []CandidatePlansInOrder` |

Both hypotheses are the code's. An episode in summary mode keeps no event log and so cannot be
the run that keeps one; the run `callers` checks the refinement of capturing episodes too. And where
rounding puts the horizon a step below the first late step, `run_simulation` goes on
to its time limit while the bounded run stops: the two are then different programs.

Each caller has its own invariant, which the other callers' steps leave alone.
`EpisodeInv` ties the counted loop to the clock (`sim.step + left = updates * Interval`
inside a call) and the stop of the episode to the flight's own reason (`Cause`); the refinement
mapping is then the identity on the records, and the place in the calls gives the phase.
`OrdinaryInv` is the same without limits, in the air and in time until the loop returns.
`ProgramInv` is where validation and playback meet: a valid program that may go on
has an entry left and it is for this boundary. The horizon in `HorizonEndsTheMission`
is a ceiling to the control clock, whose division is a lemma of its own.
`OrdinaryReplayInv` is the trail argument again, with clamping: a replay clamps the commands of
a record that are clamped already, so `OrdinaryAssumption` says that clamping twice is clamping
once (`Command::clamped`, `model.rs:739`).
`CandidateInv` says which of recovery, pending coast and landing own the flight at each place of the
loop (`Owned`), whose goal the plan is for (`Planned`), and that goals are numbered in order
(`Advances`); it is the second that the five replacements of a goal could break.

### The planning session (`Planner_proofs`)

| Theorem | Statement |
|---|---|
| `Invariance` | `Spec => []IInv`, the inductive invariant |
| `RecordsAreTold` | `Spec => []RecordsTellFlight` |
| `ClaimsAreEarned` | `Spec => []ClaimsEarned` |
| `NoHandoffStrands` | `Spec => []NeverStranded` |
| `TheEndIsTheEnd` | `Spec => FinishOnlyOverturns`, an action property |
| `BundleInvariance` | `BundleSpec => []BundleInv`, the invariant of the recording |
| `ReceiptSeals` | `BundleSpec => []ReceiptSealsTheBundle` |
| `RecordedFlightsReplay` | `BundleSpec => []RecordedFlightReplays` |

The session's properties speak of returns; what makes them inductive is what is known in the
middle of a piece. `PieceUnderway` says it stage by stage (a selected proposal is in order and
guarded before the deadline, a leaving piece is at its handoff), `CyclesChain` that each cycle was entered
where the last one handed over, `TimeAfterHandoff` that a session which has handed over
coasts with time left, so that it cannot stop for `Deadline` or `Unsupported`. `ExitsCommitted`
follows one early exit across two pieces: it is committed in the last cycle, its landing is
queued, becomes the nominal of the next piece and passes its audit, or the flight ends in an error.
`VerdictFounded` says what each stop rests on, and that the segments cover the flight unless an error broke it.

The recording adds that corrections, corrected segments and trace entries are counted
alike (`RankIn`, `Ledgered`, `TraceTold`), that files are written in their order up to one place
(`WrittenUpTo`), and that a whole receipt means everything it names is whole
(`Sealed`), wherever the process dies. The case `RecordedFlightReplays` excepts comes out
of `LandingTaken`: it is the one in which a committed exit has no next cycle that flew it.
Both hold for every policy and every deadline; `SessionAssumption` asks only that the powered
phase and the continuation are positive and whole control intervals.

### The planner's clocks (`Planner_proofs`)

For every origin, conflict, handoff and horizon:

| Theorem | Statement |
|---|---|
| `LaterEntriesAhead` | later entries are on the clock, from the live origin, which is one of them, to before the conflict |
| `FallbackEntriesBounded` | the same of the fallback, which tests no tick again and stays within a horizon and one step of the conflict |
| `InitialEntriesOnTheWay` | initial entries are on the clock, between the launch hold and the nominal's handoff, latest first |
| `CommandsOwnedOnce` | segments split on the clock own every command exactly once |
| `RowScheduleIsValid` | every schedule a row may propose is one its validator admits |

They rest on two lemmas on the quarters: dividing before multiplying loses nothing
(`EighthsRoundDown`), so a quarter is never beyond three quarters of the way (`QuarterAhead`)
and no intermediate is larger than the clocks it is computed from. `QuartersGrow` justifies that
`ClearingSearch` reads the loop's "not the last tick again" as a set in order.

### The search of a clearing (`Planner_proofs`)

For every set of queries, each with its powered phases, coasts and continuation:

| Theorem | Statement |
|---|---|
| `EveryClearingIsTheBest` | `PlannerSpec => []ClearingIsTheBest` |
| `EveryClearingSearchIsOnRecord` | `PlannerSpec => []ClearingSearchIsOnRecord` |

The rule speaks of all accepted rows at once, the loop of the best so far. `BestSoFar` says that
the winner, its entry state and the alternative are those of the rows accepted up to here, and
is inductive because the rank is a total order that tells any two rows apart
(`RanksAreAnOrder`, `BestIsUnique`); for that, a row must be accepted once only, so no entry may be
tried twice. That is `EntriesHold`: the entries ahead, the entries tried and those of the fallback
have ticks and names of their own, which the lemmas on the clocks provide (`PrimaryPass`,
`FallbackPass`). `RowsAreCounted` multiplies templates by entries for the record. A sorted set of ticks is a
`CHOOSE`, and `FiniteSetsAreOrdered` shows that there is one to choose, without induction: the
place of a tick is the number of ticks up to it.

### The controllers (`Guidance_proofs`)

| Theorem | Statement |
|---|---|
| `TerminalIsHeldToTheEnd` | `GuidanceSpec => TerminalHeldToTheEnd`, for every hysteresis and set of burn times |
| `LegRecordsAreTheLegs` | `GuidanceSpec => [](setting = "transfer" => Asked!LegRecords)`: what is kept of a leg and of a plan is the active one's, for every route |
| `ActiveLegIsKept` | `GuidanceSpec => []ActiveLegKept`, for every route, with or without legs of no direction |
| `PlansAreReplacedPatiently` | `GuidanceSpec => PlanReplacedPatiently` |
| `TransferPhaseIsLegal` | `GuidanceSpec => TransferPhaseLegal` |
| `RouteAgreesWithTheCore` | `GuidanceSpec => []RouteAgreesWithCore`, from every start and for every set of lenient waypoints |

`LegInv` is the invariant of the transfer controller. Its part `Kept` is about the guide, the
dozen fields kept for one plan: a guide without a plan is a new one but for its count of replans,
a guide with a plan is in use for the active leg, its revision counts the replans, its snapshot is not of a
revision to come, and a count of failures means the update before had failed. One update
runs through up to four operators on the guide (`Current`, `Recheck`, `FinalSearch`,
`ReachSearch`); `Follows` says what each may do to it, and each has one lemma.
The terminal controller's `TerminalInv` relates the code's release counter to the calm actually seen,
and says who may own a plan. On the route the invariant (`RouteInv`) is the property in two parts: `Agreed`,
controller and core hold the same waypoint under the same window, until `apart` says otherwise; and
`NotAhead`, which is what rest leaves of it. Both are inductive only while the flight runs, because a contact ends
it in the core first. `NotAhead` survives a handoff of the controller because at the core's own waypoint it
hands off on a window and a sighting that let the core pass too, and behind the core it can at most
catch up, with no window open.

### Campaigns (`Campaign_proofs`, `Evaluation_proofs`)

| Theorem | Statement |
|---|---|
| `DiskTellsTheTruth` | `Spec => []DiskTellsAttempts` |
| `ExposuresAreRecorded`, `ReceiptsOnlyAppend` | `Spec => []ExposureRecorded`, `Spec => [][ReceiptsAppendOnly]_vars` |
| `CampaignsImplementLedger` | `Spec => Ledger!Spec` |
| `DiskTellsInEverySchedule`, `EveryExposureIsOnRecord`, `EveryCampaignKeepsLedger` | the same as the properties that the run `evaluation` checks |

They hold for any number of runs and outputs, any schedule (a mission may come twice), and any number
of edits. What a file tells depends on who wrote it last and how far it came, so the invariant
`CampaignInv` relates the disk to the place of every run: `OwnedInv` (one owner per output,
and all in an output is its owner's), `RunInv` of each run and `OutputInv` of each output. In
`RunInv`, `Receipted` is the state of the run's receipt, `Shaped` what it has in memory,
`Recorded` that its attempts are the records on disk one by one, and `Scoped` that what it has seen
of its inputs, before, during and after each attempt, is in order: inputs only move away from
what was declared, so an unchanged end means an unchanged whole. `OutputInv` is what a
summary must be true to. A step of a run changes its own memory and its own output only
(`Advances`); that is shown once, and each action then only for its own run.

The refinement maps owner, records and summaries of the disk to the ledger's. The campaign of the
setting `schedule` is an instance, which `Evaluation_proofs` shows to be
the campaign of `Campaign_proofs` at its constants (`SameInit`, `SameNext`, `SameDisk`).

### The batch cache (`Evaluation_proofs`)

| Theorem | Statement |
|---|---|
| `EveryCachedBatchIsFlownInFull` | `EvaluationSpec => []CachedIsFlownInFull`, for every number of processes, runs, contents, commits and executions |
| `ReuseIsAlwaysWhole` | `EvaluationSpec => []CacheReuseIsWhole`, for every number of runs, contents, commits and executions |

`SharedInv`: every report on disk is torn or of an execution that flew all runs under the digest
in the directory's name (`InFull`), and each process carries into its next step what makes that so (`Honest`).
`BundlesInv` is about the bundles, which processes overwrite under each other without a lock. Of each one on
disk it says that it is of an execution under its directory's digest, and that where there has been one such
execution only, and it has flown the run, the bundle is its own (`Told`); of an execution in hand, that where
it is the only one, nobody else has anything of the runs it has yet to fly (`InHand`). A promotion copies
bundles between directories of one digest and keeps both; a second execution makes the last part
vacuous, and then a whole report may name another's bundles: `CompleteIsReused` is violated
there, and these two invariants are what remains true.
`AloneInv` is the stronger one of one process that never refuses to reuse: the page is the last file, so where
it is everything is, from one execution (`Sealed`), wherever a kill came.

### Collections (`Evaluation_proofs`)

| Theorem | Statement |
|---|---|
| `EveryCollectionIsCanonical` | `EvaluationSpec => []CollectionIsCanonical`, for every request, generator, panels and quotas, and order of the indices supplied |

The running state of the writer is compared with a reference without one: `StateOf(D)` gives each
identity to the first qualifying index of `D` and fills each panel with its winners, up to the
quota. `DecisionIsCanonical` and `RememberedIsCanonical` are the step from the indices before `i` to
those up to `i`, and `CollectionInv` says that writer and receipts are at the reference. The reader
is a recursive function over the receipts of whatever manifest it is given. The reference itself satisfies
the recursion, so there is such a function; that there is no other follows from the first place at which
two could differ (`LeastMember`, from the library's well-foundedness of the naturals, which has
no operator for a parameter). So the reader accepts the reference's receipts and nothing else
(`OnlyTheReferenceIsRead`).

### Model-checked only

Every invariant, action property and refinement of the passing runs is proved, those
of the shared modules in the form in which the run states them. What stays with TLC:

- Liveness under fairness (`CalledEpisodeEnds`, `LandingClosesOnce`, `CandidateStops`,
  `SessionEndsOrDies`): it needs `ENABLED`, which the installed provers do not have.

Two theorems have a hypothesis beyond the assumptions of their module, each named and explained
above: capturing episodes, and a time limit within the horizon.

## 5. What is not modelled

`PROJECT.json` lists every component with its reason. Most of the repository's lines are
of three kinds that a state machine has nothing to say about, and they are left out on
purpose. (1) Numerics: the rigid body, the terrain, the proposal searches, the forecasts
and the mechanics of the guidance laws are `f64` computations without memory; their
control flow is visible here only through their answers. (2) Presentation: reports,
reviews, comparisons and pages (`pd-report`, most of `pd-eval-cli`) are functions of records
already written. (3) Clients: bindings, benchmarks, studies, experiments and scripts
call the operations modelled here and add no protocol.

Of modelled parts, these details are left out: the retained diagnostics of
`WaypointSession` (search rows, timings, `initial_nominal_terrain_blocked`) and
`start_configured`; the evidence records and probe clocks of `BallisticFlight`, and the
neutral diagnostic's prefix; the command replay inside `verify_execution`, which is the
`Replay` module and only a verdict in `Campaign`; an ancestor scope of a campaign; the seeded
generator and the V1 collection, a ledger without selection; telemetry, boost selection and
the mechanics of candidates in the controllers; the `latest` link, pack resolution and
metrics of packs.

## 6. Plan

Done: the drivers of a flight and their refinements, records and replays, the planning
session with its recording, the search of its corrections and their clocks, the ballistic candidate, the controllers' state machines, the
maneuver facade, campaigns, collections and the batch cache; the proofs of section 4.

Left: what section 5 lists. The largest protocols among it are `start_configured` and the
retained search diagnostics of the session, and the V1 collection.

The modules that are proved about use no `RECURSIVE` operator.

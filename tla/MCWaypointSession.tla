-------------------------- MODULE MCWaypointSession --------------------------
(***************************************************************************)
(* The planner in two small settings, one at a time: the planning session    *)
(* on a short flight, driven and recorded by the command line; and the        *)
(* search its corrections come from, with many entries or with several        *)
(* templates.  During a search the session stands still.                      *)
(***************************************************************************)
EXTENDS WaypointBundle

VARIABLES
  setting,
  query, place, round, queue, tried, rowCount, selected, selectedEntry, roomy, accepted, kept,
  failedRow, outcome        \* ClearingSearch

searchVars == <<query, place, round, queue, tried, rowCount, selected, selectedEntry, roomy,
                accepted, kept, failedRow, outcome>>
allVars == <<setting, bundleVars, searchVars>>

\* One template and as many entries as there can be: initial entries partly beyond the conflict,
\* initial and fallback entries apart, a bridge of one pair, live entries, and empty clocks.
ManyEntries ==
  {[current |-> c[1], source |-> c[2], conflict |-> c[3], deadline |-> c[4], powered |-> <<2>>,
    maxCoast |-> 6, continuation |-> 2, launchHold |-> 2, fuels |-> {0}] :
      c \in {<<0, 18, 13, 20>>, <<0, 18, 30, 30>>, <<0, 4, 5, 8>>, <<0, 2, 5, 8>>,
             <<2, -1, 10, 16>>, <<2, -1, 2, 16>>}}
\* Two templates at one and at two entries.
ManyRows ==
  {[current |-> 2, source |-> -1, conflict |-> c, deadline |-> 20, powered |-> <<2, 4>>,
    maxCoast |-> 4, continuation |-> 2, launchHold |-> 2, fuels |-> {0, 1}] : c \in {3, 6}}

CONSTANT SearchScenario
MCSearchScenario == ManyEntries \cup ManyRows
Search == INSTANCE ClearingSearch WITH entries <- tried, Queries <- SearchScenario

ASSUME SearchesAssumption == Search!SearchAssumption

\* The clocks the tests of pd-plan name, at the program's own sizes.
Clock == INSTANCE EntryClock
ASSUME ClocksOfTheTests ==
  /\ Clock!LaterTicks(2820, 3120) = {2820, 2894, 2970, 3044}
  /\ Clock!LaterTicks(120, 121) = {120} /\ Clock!LaterTicks(120, 123) = {120, 122}
  /\ Clock!LaterRefused(0, 100) /\ Clock!LaterRefused(121, 200) /\ Clock!LaterRefused(120, 120)
  /\ Clock!FallbackTicks(0, 1861, 1680, {}) = {180, 600, 1020, 1440}
  /\ Clock!FallbackTicks(0, 1861, 1680, {180, 1020}) = {600, 1440}
  /\ Clock!FallbackTicks(2820, 3120, 1680, Clock!LaterTicks(2820, 3120)) = {}
  /\ Clock!InitialTicks(72, 1992) = <<1512, 1272, 1032, 792>> /\ Clock!InitialRefused(72, 72)
  /\ Clock!CommandCount(120, 120) = 0 /\ Clock!CommandCount(120, 123) = 2

NoSearch ==
  /\ query = "unused" /\ place = "unused" /\ round = "unused" /\ queue = "unused"
  /\ tried = "unused" /\ rowCount = "unused" /\ selected = "unused" /\ selectedEntry = "unused"
  /\ roomy = "unused" /\ accepted = "unused" /\ kept = "unused" /\ failedRow = "unused"
  /\ outcome = "unused"
StandsStill == BundleInit /\ flying /\ deadline = 0

PlannerInit ==
  \/ setting = "session" /\ BundleInit /\ NoSearch
  \/ setting = "search" /\ Search!SearchInit /\ StandsStill

PlannerNext ==
  /\ UNCHANGED setting
  /\ \/ setting = "session" /\ BundleNext /\ UNCHANGED searchVars
     \/ setting = "search" /\ Search!SearchNext /\ UNCHANGED bundleVars

\* The recording process runs; nothing makes it die.
RecorderStep ==
  /\ setting = "session" /\ UNCHANGED <<setting, searchVars>>
  /\ Drive \/ Conclude \/ WriteNext

PlannerSpec == PlannerInit /\ [][PlannerNext]_allVars /\ WF_allVars(RecorderStep)

----------------------------------------------------------------------------
\* However often the thread is answered with an error, a refusal or another correction, it comes
\* to its end.  The recorder stops where it dies; a session it drives to the end is finalized.
SessionEndsOrDies == setting = "session" => <>(finalized \/ recorder = "dead")

\* The choice made row by row is the rule over all rows: the first clocks that accept any, the
\* best by rank, and one short of braking room yields to the best that has it
\* (search_local_clearing, local_rank).
ClearingIsTheBest == setting = "search" => Search!SelectionIsTheBest

\* "Exhausted" means that every row of both clocks was tried, none of the fallback twice; and an
\* error leaves the search on record as far as it went (checkpoint_local_search).
ClearingSearchIsOnRecord == setting = "search" => Search!SearchIsOnRecord
=============================================================================

---------------------------- MODULE WaypointBundle ----------------------------
(***************************************************************************)
(* A planning session recorded by the command line (pd-cli, planner_v2.rs):  *)
(* a fresh directory is reserved, the session is driven to its end, and the   *)
(* flight, its summary and the trace of its pieces are written create-only,   *)
(* the receipt last (pd-eval-cli, waypoint_v2_bundle.rs).  The process may    *)
(* die at any point, in the middle of a file too.  What a replay of the       *)
(* directory makes of it is a predicate: replaying only reads.                *)
(*                                                                         *)
(* A file is absent, torn or whole; its digest is its being whole.            *)
(***************************************************************************)
EXTENDS WaypointSession

VARIABLES
  entries,    \* the trace: what each advance_piece returned
  recorder,   \* the process: "driving", "writing", "done", "refused", "dead"
  disk        \* the reserved directory: each file "absent", "torn" or "whole"

bundleVars == <<vars, entries, recorder, disk>>

RequiredArtifacts == {"scenario.json", "flight.json", "summary.json", "progress.json"}
Files == RequiredArtifacts \cup {"report.html", "bundle.json"}

\* waypoint_v2_rich_report_eligible: a replayed manifest, and no failed integrity.
ReportEligible == replayed /\ ~(stop = "ImplementationError" /\ ~integrity)
ExpectedArtifacts ==
  IF ReportEligible THEN RequiredArtifacts \cup {"report.html"} ELSE RequiredArtifacts

\* Fault: the receipt is written before the trace it names.
ReceiptBeforeTrace ==
  <<"scenario.json", "flight.json">> \o (IF ReportEligible THEN <<"report.html">> ELSE << >>)
    \o <<"summary.json", "bundle.json", "progress.json">>

\* The order of writing.
WritingOrder ==
  <<"scenario.json", "flight.json">> \o (IF ReportEligible THEN <<"report.html">> ELSE << >>)
    \o <<"summary.json", "progress.json", "bundle.json">>

TraceEnded == entries # << >> /\ Last(entries).kind = "Terminal"

----------------------------------------------------------------------------
(* What the trace and the result must agree on.                             *)

\* The segments that are corrections, and the i-th of them.
Corrections == {j \in 1..Len(segments) : segments[j].kind = "LocalCorrection"}
Corrected(i) ==
  segments[CHOOSE j \in Corrections : Cardinality({k \in Corrections : k <= j}) = i]

\* validate_progress, of the i-th entry: a handoff is the next piece's, from the handoff before it
\* to the end of the piece's own correction ...
ValidHandoff(i) ==
  LET e == entries[i]
      previousHandoff == IF i = 1 THEN 0 ELSE entries[i - 1].step
  IN  /\ e.piece = i - 1 /\ e.corrections = i
      /\ e.entry = previousHandoff /\ e.step >= e.entry
      /\ i <= Len(cycles) /\ i <= Cardinality(Corrections)
      /\ cycles[i].index = e.piece /\ cycles[i].entry = e.entry
      /\ cycles[i].decision = "LocalCleared"
      /\ Corrected(i).from = cycles[i].proposal.E
      /\ e.entry <= Corrected(i).from /\ Corrected(i).from < e.step /\ Corrected(i).to = e.step

\* ... and the terminal entry is the result's, of the piece it ended in.
ValidTerminal(i) ==
  LET e == entries[i]
      previousHandoff == IF i = 1 THEN 0 ELSE entries[i - 1].step
  IN  /\ i = Len(entries) /\ e.stop = stop /\ e.corrections = corrections
      /\ IF ~flying THEN e.piece = NoStep /\ e.entry = NoStep /\ e.step = NoStep
         ELSE /\ e.step = live.step
              /\ IF e.piece = NoStep THEN e.entry = e.step
                 ELSE /\ e.piece < Len(cycles)
                      /\ cycles[e.piece + 1].index = e.piece
                      /\ cycles[e.piece + 1].entry = previousHandoff /\ e.entry = previousHandoff

ValidProgress ==
  /\ flying => ValidRecords(stop, integrity)
  /\ TraceEnded
  /\ \A i \in DOMAIN entries :
       IF entries[i].kind = "Handoff" THEN ValidHandoff(i) ELSE ValidTerminal(i)
  /\ Len(entries) - 1 = corrections

\* validate_supported_saved_result: the ledgers count the same corrections, and the stop is one
\* that the endpoint allows.
Running == live.craft \in {"Pad", "Flying", "Coasting"}
ValidSupportedResult ==
  /\ Cardinality(Corrections) = corrections
  /\ Cardinality({i \in 1..Len(cycles) : cycles[i].decision = "LocalCleared"}) = corrections
  /\ stop = "Landed" => live.craft = "Landed" /\ integrity /\ replayed
  /\ stop \in {"NoNominal", "NominalRejected", "NoClearing", "CorrectionLimit", "Deadline"} =>
       Running
  /\ stop = "Deadline" => live.step >= deadline
  /\ stop \notin PreflightStops

\* replay_waypoint_v2_cli_bundle: the receipt names the artifacts of this flight and all of them
\* are as they were; the flight is the one the request gives, or was refused before it began.
ReplayAccepts ==
  /\ disk["bundle.json"] = "whole"
  /\ \A f \in ExpectedArtifacts : disk[f] = "whole"
  /\ ValidProgress
  /\ IF flying THEN ValidSupportedResult /\ Provable
     ELSE stop \in PreflightStops /\ ~replayed

----------------------------------------------------------------------------
\* The directory is reserved before the session is started.
BundleInit ==
  /\ Init
  /\ entries = << >> /\ recorder = "driving" /\ disk = [f \in Files |-> "absent"]

\* One call of advance_piece takes several steps; its answer is added to the trace.  A session
\* that preflight refused answers at once with the progress it holds.
Drive ==
  /\ recorder = "driving" /\ ~TraceEnded
  /\ \/ Advance /\ progress' # progress /\ entries' = Append(entries, progress')
     \/ Advance /\ progress' = progress /\ entries' = entries
     \/ AskAgain /\ entries' = Append(entries, progress)
  /\ UNCHANGED <<recorder, disk>>

\* Fault: the trace keeps the stop it was told.
ConcludeKeepsTrace ==
  /\ recorder = "driving" /\ TraceEnded
  /\ \E proof \in BOOLEAN : Finish(proof)
  /\ recorder' = "writing"
  /\ UNCHANGED <<entries, disk>>

\* finish may overturn the stop: the last entry of the trace, like the progress the session
\* retained, is given the final one.
Conclude ==
  /\ recorder = "driving" /\ TraceEnded
  /\ \E proof \in BOOLEAN : Finish(proof)
  /\ entries' = [entries EXCEPT ![Len(entries)].stop = stop']
  /\ recorder' = "writing"
  /\ UNCHANGED disk

\* The first file of the order that is not on disk; the receipt only once the trace is validated.
NextFile ==
  LET absent == {i \in DOMAIN WritingOrder : disk[WritingOrder[i]] = "absent"}
  IN  WritingOrder[CHOOSE i \in absent : \A j \in absent : i <= j]

WriteNext ==
  /\ recorder = "writing"
  /\ IF NextFile = "bundle.json" /\ ~ValidProgress
     THEN recorder' = "refused" /\ UNCHANGED disk
     ELSE /\ disk' = [disk EXCEPT ![NextFile] = "whole"]
          /\ recorder' = IF NextFile = "bundle.json" THEN "done" ELSE "writing"
  /\ UNCHANGED <<vars, entries>>

\* The process dies, between two files or in one; a directory is never used again.
Die ==
  /\ recorder \in {"driving", "writing"}
  /\ recorder' = "dead"
  /\ \/ UNCHANGED disk
     \/ recorder = "writing" /\ disk' = [disk EXCEPT ![NextFile] = "torn"]
  /\ UNCHANGED <<vars, entries>>

Rest == recorder \in {"done", "refused", "dead"} /\ UNCHANGED bundleVars

BundleNext == Drive \/ Conclude \/ WriteNext \/ Die \/ Rest

BundleSpec == BundleInit /\ [][BundleNext]_bundleVars

----------------------------------------------------------------------------
\* Two accounts of a flight are kept by one crate and compared by another, and they agree however
\* the session ended: its directory replays where it did not end in an implementation error, and
\* its receipt is refused only where that error struck the piece a checked landing was queued for,
\* before the landing was its nominal (validate_progress, validate_records and
\* validate_supported_saved_result against WaypointV2Session::advance_piece and finish).
StruckQueuedLanding ==
  /\ stop = "ImplementationError" /\ Len(cycles) > 1
  /\ cycles[Len(cycles) - 1].exit = "Committed" /\ Last(cycles).nominal = NoStep
RecordedFlightReplays ==
  /\ recorder = "refused" => StruckQueuedLanding
  /\ recorder = "done" /\ stop # "ImplementationError" => ReplayAccepts

\* "The receipt remains the final create-only artifact": where it is whole, so is everything it
\* names, the session is finished, and its trace agrees with it.
ReceiptSealsTheBundle ==
  disk["bundle.json"] = "whole" =>
    /\ finalized /\ ValidProgress
    /\ \A f \in Files \ {"bundle.json"} :
         disk[f] = IF f \in ExpectedArtifacts THEN "whole" ELSE "absent"
===============================================================================

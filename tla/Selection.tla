----------------------------- MODULE Selection -----------------------------
(***************************************************************************)
(* The selection ledger of a V2 mission collection (write_collection_v2 and *)
(* read_collection_manifest_v2, pd-missions): every scheduled index is      *)
(* resolved by the generator, kept in a receipt, and admitted, excluded or   *)
(* called a duplicate by a running selection state.  A stress population     *)
(* fills the quotas of its panels.  The manifest is written last.            *)
(*                                                                         *)
(* What the generator resolves is chosen once: it is a pure function of the  *)
(* recipe, the seed and the index.                                          *)
(***************************************************************************)
EXTENDS Integers, Sequences, FiniteSets, SequencesExt

CONSTANTS
  Indices,      \* request.indices
  Identities,   \* physical identities of missions
  Panels,       \* stress panels
  Quota         \* panel -> quota

SelectionAssumption ==
  /\ Indices \subseteq Nat /\ IsFiniteSet(Indices) /\ Indices # {}
  /\ IsFiniteSet(Panels) /\ Quota \in [Panels -> Nat \ {0}]

VARIABLES
  population,   \* "broad" or "stress"
  proposals,    \* what the generator resolves for each index
  matching,     \* panels matched by the geometry of a physical mission
  place,        \* "called", "writing", "published", "altered" or "stopped"
  schedule,     \* request.indices
  receipts,     \* one per index so far
  selection,    \* SelectionState: [physical, panels]
  manifest      \* what manifest.json holds, or NoManifest

given == <<population, proposals, matching>>
vars == <<given, place, schedule, receipts, selection, manifest>>

NoIndex == -1
NoManifest == [receipts |-> <<>>, entries |-> <<>>]
EmptySelection == [physical |-> [k \in {} |-> NoIndex], panels |-> [p \in Panels |-> 0]]

Exhausted == [resolved |-> FALSE, identity |-> NoIndex, qualifies |-> FALSE]
Resolved == [resolved : {TRUE}, identity : Identities, qualifies : BOOLEAN]
Matching(i) == matching[proposals[i].identity]

Init ==
  /\ population \in {"broad", "stress"}
  /\ proposals \in [Indices -> Resolved \cup {Exhausted}]
  /\ matching \in [Identities -> IF population = "stress" THEN SUBSET Panels ELSE {{}}]
  /\ place = "called"
  /\ schedule \in SetToSeqs(Indices)
  /\ receipts = <<>>
  /\ selection = EmptySelection
  /\ manifest = NoManifest

\* Fault: the schedule is taken as it was supplied.
ReserveUnsorted ==
  /\ place = "called"
  /\ place' = "writing"
  /\ UNCHANGED <<given, schedule, receipts, selection, manifest>>

\* The ascending orders of a set of indices: there is one.
Ascending(indices) == {s \in SetToSeqs(indices) : \A m, n \in DOMAIN s : m < n => s[m] < s[n]}

\* The schedule is sorted before the directory is reserved.
Reserve ==
  /\ place = "called"
  /\ place' = "writing"
  /\ schedule' \in Ascending(ToSet(schedule))
  /\ UNCHANGED <<given, receipts, selection, manifest>>

Disposed(kind, panels, first) == [kind |-> kind, panels |-> panels, first |-> first]

\* The matching panels of an index that still have room.
Room(state, i) == {p \in Matching(i) : state.panels[p] < Quota[p]}

Seen(state, i) == proposals[i].identity \in DOMAIN state.physical
Qualifies(i) == proposals[i].resolved /\ proposals[i].qualifies

\* SelectionState::decide: its answer ...
Decision(state, i) ==
  CASE ~proposals[i].resolved -> Disposed("StructuralExhaustion", {}, NoIndex)
    [] proposals[i].resolved /\ ~Qualifies(i) -> Disposed("InsufficientChallenge", {}, NoIndex)
    [] Qualifies(i) /\ Seen(state, i) ->
         Disposed("PhysicalDuplicate", {}, state.physical[proposals[i].identity])
    [] Qualifies(i) /\ ~Seen(state, i) /\ population = "stress" /\ Room(state, i) = {} ->
         Disposed("StressExcluded", {}, NoIndex)
    [] OTHER -> Disposed("Accepted", Room(state, i), NoIndex)

\* ... and what it remembers.  The identity is taken before the quotas are looked at.
Remember(state, i) ==
  IF ~Qualifies(i) \/ Seen(state, i) THEN state
  ELSE [physical |-> [k \in DOMAIN state.physical \cup {proposals[i].identity} |->
                        IF k = proposals[i].identity THEN i ELSE state.physical[k]],
        panels |-> [p \in Panels |-> state.panels[p] + IF p \in Room(state, i) THEN 1 ELSE 0]]

Receipt(state, i) == [index |-> i, disposition |-> Decision(state, i)]

Select ==
  LET i == schedule[Len(receipts) + 1]
  IN /\ place = "writing" /\ Len(receipts) < Len(schedule)
     /\ receipts' = Append(receipts, Receipt(selection, i))
     /\ selection' = Remember(selection, i)
     /\ UNCHANGED <<given, place, schedule, manifest>>

\* entries: the admitted proposals, in the order of their receipts.
Admitted(rs) ==
  LET accepted == SelectSeq(rs, LAMBDA r : r.disposition.kind = "Accepted")
  IN [n \in DOMAIN accepted |-> accepted[n].index]

Publish ==
  /\ place = "writing" /\ Len(receipts) = Len(schedule)
  /\ place' = "published"
  /\ manifest' = [receipts |-> receipts, entries |-> Admitted(receipts)]
  /\ UNCHANGED <<given, schedule, receipts, selection>>

\* An error of the generator, of a write, or a crash: the directory has no manifest.
Stop ==
  /\ place = "writing"
  /\ place' = "stopped"
  /\ UNCHANGED <<given, schedule, receipts, selection, manifest>>

\* What somebody may make of a disposition in a published manifest.
Forged ==
  {Disposed(kind, {}, NoIndex) :
     kind \in {"StructuralExhaustion", "InsufficientChallenge", "StressExcluded"}}
  \cup {Disposed("PhysicalDuplicate", {}, i) : i \in Indices}
  \cup {Disposed("Accepted", ps, NoIndex) : ps \in SUBSET Panels}

\* One disposition rewritten, the entries with it or not; or the last receipt lost.
Alter ==
  /\ place = "published"
  /\ place' = "altered"
  /\ \/ \E n \in DOMAIN receipts, disposition \in Forged :
          LET rs == [receipts EXCEPT ![n].disposition = disposition]
          IN \E es \in {Admitted(rs), Admitted(receipts)} :
               manifest' = [receipts |-> rs, entries |-> es]
     \/ manifest' = [receipts |-> Front(receipts), entries |-> Admitted(Front(receipts))]
  /\ UNCHANGED <<given, schedule, receipts, selection>>

Ended == place \in {"altered", "stopped"} /\ UNCHANGED vars

Next == Reserve \/ Select \/ Publish \/ Stop \/ Alter \/ Ended

Spec == Init /\ [][Next]_vars
-----------------------------------------------------------------------------
(* The reader. *)

\* The selection states of a manifest, decided anew: after its first n receipts.
StatesOf(rs) ==
  LET state[n \in 0..Len(rs)] ==
        IF n = 0 THEN EmptySelection ELSE Remember(state[n - 1], rs[n].index)
  IN state

SameReceipt(rs, n) == rs[n] = Receipt(StatesOf(rs)[n - 1], rs[n].index)

\* read_collection_manifest_v2 on a request it finds unchanged.
Reads(m) ==
  /\ Len(m.receipts) = Len(schedule)
  /\ \A n \in DOMAIN m.receipts : m.receipts[n].index = schedule[n] /\ SameReceipt(m.receipts, n)
  /\ m.entries = Admitted(m.receipts)
-----------------------------------------------------------------------------
(* Properties. *)

\* The reference, without a running state: the first qualifying index of an identity wins it;
\* a winner fills every matching panel that fewer than Quota earlier winners match.
Wins(i) ==
  Qualifies(i) /\ \A j \in Indices :
    j < i /\ Qualifies(j) => proposals[j].identity # proposals[i].identity
Winner(i) ==
  CHOOSE j \in Indices : Wins(j) /\ proposals[j].identity = proposals[i].identity
Fills(i) ==
  {p \in Matching(i) :
     Cardinality({j \in Indices : j < i /\ Wins(j) /\ p \in Matching(j)}) < Quota[p]}
Canonical(i) ==
  CASE ~proposals[i].resolved -> Disposed("StructuralExhaustion", {}, NoIndex)
    [] proposals[i].resolved /\ ~Qualifies(i) -> Disposed("InsufficientChallenge", {}, NoIndex)
    [] Qualifies(i) /\ ~Wins(i) -> Disposed("PhysicalDuplicate", {}, Winner(i))
    [] Wins(i) /\ population = "stress" /\ Fills(i) = {} ->
         Disposed("StressExcluded", {}, NoIndex)
    [] OTHER -> Disposed("Accepted", Fills(i), NoIndex)

\* Who wins a duplicate and who fills a quota depends on the indices alone, not on the order in
\* which they were supplied nor on what was excluded on the way, and no panel is overfilled
\* (collection_v2.rs:28-29, 144-178).
SelectionIsCanonical ==
  \A n \in DOMAIN receipts : receipts[n].disposition = Canonical(receipts[n].index)

\* A manifest the reader accepts is the one the writer would write: no rewritten disposition and
\* no lost receipt passes (collection_v2.rs:268-355); and the writer's own always passes.
ReadableIsCanonical ==
  /\ place = "published" => Reads(manifest)
  /\ place = "altered" /\ Reads(manifest) =>
       manifest = [receipts |-> receipts, entries |-> Admitted(receipts)]

\* Together: one manifest for one request, whoever writes it and whoever reads it.
ManifestIsCanonical == SelectionIsCanonical /\ ReadableIsCanonical
=============================================================================

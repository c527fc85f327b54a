--------------------------- MODULE CampaignLedger ---------------------------
(***************************************************************************)
(* What a collection campaign promises of an output path, whoever evaluates *)
(* and whatever crashes: one owner at a time, attempts recorded one by one  *)
(* under that owner, and a summary only over the whole schedule, after      *)
(* which nothing changes.                                                   *)
(***************************************************************************)
EXTENDS Naturals

CONSTANTS Runs, Outputs, Attempts, NoRun

VARIABLES
  owner,      \* the run that reserved the output, or NoRun
  recorded,   \* attempts recorded under it
  published   \* its summary is complete

ledgerVars == <<owner, recorded, published>>

Init ==
  /\ owner = [d \in Outputs |-> NoRun]
  /\ recorded = [d \in Outputs |-> 0]
  /\ published = [d \in Outputs |-> FALSE]

Claim(d, r) ==
  /\ owner[d] = NoRun
  /\ \A e \in Outputs : owner[e] # r
  /\ owner' = [owner EXCEPT ![d] = r]
  /\ UNCHANGED <<recorded, published>>

Record(d) ==
  /\ owner[d] # NoRun /\ ~published[d] /\ recorded[d] < Attempts
  /\ recorded' = [recorded EXCEPT ![d] = @ + 1]
  /\ UNCHANGED <<owner, published>>

Publish(d) ==
  /\ owner[d] # NoRun /\ ~published[d] /\ recorded[d] = Attempts
  /\ published' = [published EXCEPT ![d] = TRUE]
  /\ UNCHANGED <<owner, recorded>>

Abandon(d) ==
  /\ owner[d] # NoRun /\ ~published[d]
  /\ owner' = [owner EXCEPT ![d] = NoRun]
  /\ recorded' = [recorded EXCEPT ![d] = 0]
  /\ UNCHANGED published

Next == \E d \in Outputs : Record(d) \/ Publish(d) \/ Abandon(d) \/ \E r \in Runs : Claim(d, r)

Spec == Init /\ [][Next]_ledgerVars
=============================================================================

------------------------------- MODULE Replay -------------------------------
(***************************************************************************)
(* Record and replay: a bounded run, then replay_simulation_bounded         *)
(* (pd-core/src/sim.rs) over the log it saved, or over that log truncated,  *)
(* extended or altered on the way, under limits and a guard of the          *)
(* replayer's own.                                                          *)
(*                                                                         *)
(* Both runs are the same function of the same plant, so they are two      *)
(* instances of BoundedRun.  The plant is deterministic: as long as the     *)
(* replay has issued the commands of the record, it sees the record's       *)
(* outcomes; from the first difference on it may see anything.              *)
(***************************************************************************)
EXTENDS Plant

CONSTANTS SampleInterval, GoalChoices, LimitChoices

\* What the two runs ask of their constants.
ASSUME ReplayAssumption ==
  /\ SampleInterval \in Nat
  /\ GoalChoices \subseteq Goals
  /\ LimitChoices \subseteq [coverage : Nat, hardEnd : Nat]

VARIABLES
  goal,
  \* the recorded run, as in BoundedRun
  limits, phase, sim, updates, actions, events, samples, contact, stop, failure,
  world,     \* what each flown step of the record exposed, in order
  \* the log handed to the replay, NoLog before that: entries of the action log
  \* with "sound", false when the time or the command is not bit for bit usable
  log,
  guarded,   \* whether the replay runs under a guard that may veto
  used,      \* next_action_index
  \* the replayed run
  rlimits, rphase, rsim, rupdates, ractions, revents, rsamples, rcontact, rstop, rfailure,
  settled    \* replay_simulation_bounded has returned

recordVars == <<limits, phase, sim, updates, actions, events, samples, contact, stop, failure>>
replayVars == <<rlimits, rphase, rsim, rupdates, ractions, revents, rsamples, rcontact, rstop,
                rfailure>>
vars == <<goal, recordVars, world, log, guarded, used, replayVars, settled>>

Record == INSTANCE BoundedRun
Rerun == INSTANCE BoundedRun WITH
  limits <- rlimits, phase <- rphase, sim <- rsim, updates <- rupdates,
  actions <- ractions, events <- revents, samples <- rsamples,
  contact <- rcontact, stop <- rstop, failure <- rfailure

NoLog == << <<>> >>
Lost == [contact |-> "Lost", capture |-> FALSE, deadline |-> FALSE,
         spatial |-> FALSE, envelope |-> FALSE]

----------------------------------------------------------------------------
(* The log on its way from the record to the replay.                        *)

Sound(entry) == [step |-> entry.step, index |-> entry.index,
                 command |-> entry.command, sound |-> TRUE]
SavedLog == [i \in 1..Len(actions) |-> Sound(actions[i])]

Extra(l) == [step |-> Len(l) * Interval, index |-> Len(l), command |-> Idle, sound |-> TRUE]

Altered(l, i) ==
  {[l EXCEPT ![i].command = c] : c \in Commands}
  \cup {[l EXCEPT ![i].step = @ + 1], [l EXCEPT ![i].index = @ + 1], [l EXCEPT ![i].sound = FALSE]}

\* The saved log, a prefix of it, the log with one more entry, or with one
\* entry changed.
PresentedLogs ==
  {SubSeq(SavedLog, 1, n) : n \in 0..Len(SavedLog)}
  \cup {Append(SavedLog, Extra(SavedLog))}
  \cup UNION {Altered(SavedLog, i) : i \in 1..Len(SavedLog)}

----------------------------------------------------------------------------
(* The plant as the replay sees it.                                         *)

Effect(s, o) == <<StepSim(goal, s, o), StepEvents(goal, s, o), o.contact>>

\* One outcome for each thing that can happen to s: outcomes the mission cannot
\* tell apart are the same to the record and to its replay.
Distinct(s) ==
  {CHOOSE o \in Outcomes : Effect(s, o) = e : e \in {Effect(s, o) : o \in Outcomes}}

\* Outcomes the step from rsim may have.
ReplayOutcomes ==
  LET k == rsim.step + 1
      sameCommands == rupdates <= updates /\ ractions = SubSeq(actions, 1, rupdates)
  IN  IF sameCommands /\ k <= Len(world) THEN {world[k]} ELSE Distinct(rsim) \cup {Lost}

ReplayVerdicts == IF guarded THEN Record!Verdicts ELSE {"Ok"}

----------------------------------------------------------------------------
Init ==
  /\ Record!Init
  /\ world = <<>>
  /\ log = NoLog
  /\ guarded = FALSE
  /\ used = 0
  /\ rlimits = limits /\ rphase = "initial" /\ rsim = NewSim /\ rupdates = 0
  /\ ractions = <<>> /\ revents = <<>> /\ rsamples = samples
  /\ rcontact = contact /\ rstop = stop /\ rfailure = failure
  /\ settled = FALSE

Recording == UNCHANGED <<log, guarded, used, replayVars, settled>>

RecordStep ==
  /\ \/ /\ \/ \E v \in Record!Verdicts : Record!InitialGuard(v)
           \/ \E c \in Commands : Record!IssueUpdate(c)
           \/ Record!RefuseUpdate("CommandSelection")
           \/ \E v \in Record!Dispositions : Record!RejectTransition(v)
        /\ UNCHANGED world
     \/ Record!LoseTransition /\ world' = Append(world, Lost)
     \/ /\ phase = "transition"
        /\ \E o \in Distinct(sim), v \in Record!Verdicts :
             Record!Transition(o, v) /\ world' = Append(world, o)
  /\ Recording

\* The saved log reaches a replayer.
Present ==
  /\ phase = "done" /\ log = NoLog
  /\ log' \in PresentedLogs
  /\ guarded' \in BOOLEAN
  /\ rlimits' \in {l \in LimitChoices : Record!ValidLimits(l)}
  /\ UNCHANGED <<goal, recordVars, world, used, rphase, rsim, rupdates, ractions,
                 revents, rsamples, rcontact, rstop, rfailure, settled>>

Replaying == log # NoLog /\ UNCHANGED <<recordVars, world, log, guarded, settled>>

\* Fault: the entry's index is expected to count from one.
AdmissibleFromOne(i) ==
  i <= Len(log) /\ log[i].sound /\ log[i].step = rsim.step /\ log[i].index = i

\* validate_bounded_action, and the finiteness tests before it.
Admissible(i) ==
  /\ i <= Len(log)
  /\ log[i].sound
  /\ log[i].step = rsim.step
  /\ log[i].index = i - 1

\* The replay's controller: the next entry if it is the one due now, else the
\* command selection fails and the failure is relabelled as the input's.
ReplayCommand ==
  /\ Replaying
  /\ IF Admissible(used + 1)
     THEN Rerun!IssueUpdate(log[used + 1].command) /\ used' = used + 1
     ELSE Rerun!RefuseUpdate("ReplayInput") /\ UNCHANGED used

ReplayStep ==
  /\ Replaying /\ UNCHANGED used
  /\ \/ \E v \in ReplayVerdicts : Rerun!InitialGuard(v)
     \/ \E v \in ReplayVerdicts \ {"Ok"} : Rerun!RejectTransition(v)
     \/ /\ rphase = "transition"
        /\ \E o \in ReplayOutcomes :
             IF o = Lost THEN Rerun!LoseTransition
             ELSE \E v \in ReplayVerdicts : Rerun!Transition(o, v)

\* Fault: any failure of the replay excuses the entries left over.
SettleExcused ==
  /\ log # NoLog /\ rphase = "done" /\ ~settled
  /\ settled' = TRUE
  /\ IF used # Len(log) /\ rfailure.disposition = "Ok"
     THEN rstop' = "ExecutionInvalid"
          /\ rfailure' = [stage |-> "ReplayInput", disposition |-> "ExecutionInvalid",
                          step |-> rsim.step]
     ELSE UNCHANGED <<rstop, rfailure>>
  /\ UNCHANGED <<goal, recordVars, world, log, guarded, used, rlimits, rphase, rsim,
                 rupdates, ractions, revents, rsamples, rcontact>>

\* Entries left over make the replay invalid, unless it was already invalid for
\* a reason of its own; a mere safety rejection does not excuse them.
Settle ==
  /\ log # NoLog /\ rphase = "done" /\ ~settled
  /\ settled' = TRUE
  /\ IF used # Len(log) /\ rfailure.disposition # "ExecutionInvalid"
     THEN /\ rstop' = "ExecutionInvalid"
          /\ rfailure' = [stage |-> "ReplayInput", disposition |-> "ExecutionInvalid",
                          step |-> rsim.step]
     ELSE UNCHANGED <<rstop, rfailure>>
  /\ UNCHANGED <<goal, recordVars, world, log, guarded, used, rlimits, rphase, rsim,
                 rupdates, ractions, revents, rsamples, rcontact>>

Returned == settled /\ UNCHANGED vars

Next ==
  \/ RecordStep
  \/ Present
  \/ ReplayCommand
  \/ ReplayStep
  \/ Settle
  \/ Returned

Spec == Init /\ [][Next]_vars

----------------------------------------------------------------------------
(* What a replay promises.                                                  *)

Untouched == settled /\ log = SavedLog /\ rlimits = limits /\ ~guarded

\* A log handed over intact and flown again under the same limits gives the same artifact,
\* field by field.  If the run had failed numerically, or for want of a command, the replay is
\* the same valid prefix and is invalid again, at the same step.
FaithfulReplay ==
  /\ Untouched /\ failure = Record!NoFailure =>
       /\ rsim = sim /\ ractions = actions /\ revents = events /\ rsamples = samples
       /\ rcontact = contact /\ rstop = stop /\ rfailure = failure
  /\ Untouched /\ failure.stage \in {"PhysicsTransition", "CommandSelection"} =>
       /\ rsim = sim /\ ractions = actions /\ revents = events /\ rsamples = samples
       /\ rstop = stop /\ rfailure.step = failure.step
       /\ rfailure.stage = (IF failure.stage = "CommandSelection" THEN "ReplayInput"
                                                                  ELSE failure.stage)

\* The valid prefix survives a bad entry: whatever is wrong with the log, what
\* was flown is what its good prefix says, and is itself a replayable log.
GoodPrefixKept ==
  log # NoLog =>
    /\ used = rupdates /\ rupdates = Len(ractions)
    /\ Rerun!ActionLogIsFlight
    /\ \A i \in 1..used : log[i].command = ractions[i].command /\ log[i].step = ractions[i].step

\* A replay that comes back as anything but invalid has consumed the whole log:
\* nothing appended, dropped, shifted or corrupted in it goes unnoticed, not
\* even after a safety rejection; and an invalid one still flew the good prefix.
AcceptedLogIsFlown ==
  /\ GoodPrefixKept
  /\ settled /\ rstop # "ExecutionInvalid" =>
       /\ used = Len(log)
       /\ \A i \in 1..Len(log) :
            /\ log[i].sound
            /\ ractions[i] = [step |-> log[i].step, index |-> log[i].index,
                              command |-> log[i].command]
=============================================================================

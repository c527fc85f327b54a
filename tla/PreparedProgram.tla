-------------------------- MODULE PreparedProgram --------------------------
(***************************************************************************)
(* Prepared programs (pd-run/src/prepared.rs): a saved list of commands,    *)
(* validated against the mission once and then flown by an agent that       *)
(* plays it back, one entry per call, inside an ordinary episode.           *)
(***************************************************************************)
EXTENDS Episode

CONSTANT Programs   \* programs presented: [limits, updates], well-formed or not

VARIABLES
  program,   \* the program validated
  next       \* PreparedAgent.next, counted from 1

programVars == <<program, next>>

\* Fault: a program shorter than its coverage is let through.
ValidProgramShort(p) ==
  /\ p.limits.coverage % Interval = 0
  /\ Len(p.updates) <= p.limits.coverage \div Interval
  /\ \A i \in 1..Len(p.updates) :
       p.updates[i].step = (i - 1) * Interval /\ p.updates[i].command \in Commands

\* PreparedProgramV1::validate: one canonical command for each control boundary
\* of its coverage.
ValidProgram(p) ==
  /\ p.limits.coverage % Interval = 0
  /\ Len(p.updates) = p.limits.coverage \div Interval
  /\ \A i \in 1..Len(p.updates) :
       p.updates[i].step = (i - 1) * Interval /\ p.updates[i].command \in Commands

PreparedInit ==
  /\ program \in {p \in Programs : ValidProgram(p)}
  /\ next = 1
  /\ Init /\ limits = program.limits

\* PreparedAgent::update: the next entry when it is the one due now; otherwise
\* the program is exhausted or off its clock, and the decision fails.
Play ==
  LET due == next <= Len(program.updates) /\ program.updates[next].step = sim.step
  IN  /\ IF due THEN StepFrame(program.updates[next].command) /\ next' = next + 1
                ELSE RefuseFrame /\ UNCHANGED next
      /\ UNCHANGED program

\* The agent's reset does nothing, and an entry is never refused by the episode.
PreparedNext ==
  \/ Play
  \/ /\ ResetAccepted \/ LoseStep \/ Finish \/ Returned \/ \E o \in Outcomes : Advance(o)
     /\ UNCHANGED programVars

PreparedSpec == PreparedInit /\ [][PreparedNext]_<<vars, programVars>>

----------------------------------------------------------------------------
\* A program that passed the validation is flown as written: no command selection ever fails,
\* whatever the limits and the mission do; what was flown is its beginning, and all of it when
\* the coverage ran out.  Validation and playback keep two different clocks, an entry's index
\* and the step it names, and meet only here.
ProgramIsFlown ==
  /\ failure.stage # "CommandSelection"
  /\ Capturing =>
       actions = [i \in 1..updates |-> [step |-> program.updates[i].step, index |-> i - 1,
                                        command |-> program.updates[i].command]]
  /\ next = updates + 1
  /\ stop = "CoverageExhausted" => updates = Len(program.updates)
=============================================================================

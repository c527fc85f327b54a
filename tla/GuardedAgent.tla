---------------------------- MODULE GuardedAgent ----------------------------
(***************************************************************************)
(* run_agent_guarded (pd-run/src/agent.rs): an agent under a guard of the   *)
(* caller's.  The flight is the core's bounded run; the host wraps both     *)
(* sides of it.  Its controller callback validates the agent's answer and   *)
(* keeps the agent's record of it before the core has seen the command, and *)
(* its ResetGuard turns a failed reset into the initial veto.               *)
(***************************************************************************)
EXTENDS BoundedRun

\* An agent's answer, by what the two validations can tell apart.
Frames == [recordable : BOOLEAN,
           throttle : {"nonfinite", "outside", "inside"},
           attitude : {"nonfinite", "outside", "inside"}]

CONSTANT CommandOf   \* the command of a frame, once its throttle is clamped

ASSUME GuardedAssumption == CommandOf \in [Frames -> Commands]

VARIABLES
  resetFailure,   \* ResetGuard.reset_failure is Some
  agentUpdates    \* the agent's own record of its decisions

guardedVars == <<resetFailure, agentUpdates>>

\* Fault: the host leaves the attitude to the core.
HostAdmitsThrottleOnly(f) ==
  f.recordable /\ f.throttle # "nonfinite" /\ f.attitude # "nonfinite"

\* What the callback lets through: recordable, finite, and of a canonical attitude.
HostAdmits(f) ==
  f.recordable /\ f.throttle # "nonfinite" /\ f.attitude = "inside"

ClampedFrame(f) == [f EXCEPT !.throttle = IF @ = "outside" THEN "inside" ELSE @]

\* nonfinite_command_failure and invalid_bounded_command, in the core.
CoreAdmits(f) == f.throttle = "inside" /\ f.attitude = "inside"

----------------------------------------------------------------------------
GuardedInit ==
  /\ Init
  /\ resetFailure \in BOOLEAN   \* agent.reset was called before the run
  /\ agentUpdates = <<>>

\* ResetGuard::initial: a failed reset is the veto, taken once; the caller's
\* guard is not asked then.
Admit ==
  /\ IF resetFailure THEN InitialGuard("ExecutionInvalid")
                     ELSE \E v \in Verdicts : InitialGuard(v)
  /\ resetFailure' = FALSE
  /\ UNCHANGED agentUpdates

\* The agent errs, or its frame is refused by the callback: nothing is kept.
Refuse ==
  /\ RefuseUpdate("CommandSelection")
  /\ UNCHANGED guardedVars

\* The callback keeps the agent's record, under the boundary the core is at and
\* the record's own length, and the core then validates the command.
Decide(f) ==
  /\ phase = "command" /\ HostAdmits(f)
  /\ agentUpdates' = Append(agentUpdates,
       [step |-> sim.step, index |-> Len(agentUpdates), command |-> CommandOf[ClampedFrame(f)]])
  /\ IF CoreAdmits(ClampedFrame(f)) THEN IssueUpdate(CommandOf[ClampedFrame(f)])
                                    ELSE RefuseUpdate("CommandSelection")
  /\ UNCHANGED resetFailure

\* The caller's guard sees every transition, before and after.
Guarded ==
  /\ \/ \E v \in Dispositions : RejectTransition(v)
     \/ LoseTransition
     \/ \E o \in Outcomes, v \in Verdicts : Transition(o, v)
     \/ Returned
  /\ UNCHANGED guardedVars

GuardedNext == Admit \/ Refuse \/ (\E f \in Frames : Decide(f)) \/ Guarded

GuardedSpec == GuardedInit /\ [][GuardedNext]_<<vars, guardedVars>>

----------------------------------------------------------------------------
\* "Record only admitted finite decisions, including a truthful prefix": the agent's record,
\* kept before the core admits the command, is the action log the core keeps after it, whatever
\* is refused, lost or vetoed; and an agent whose reset failed is never asked for a decision.
AgentRecordIsActionLog ==
  /\ agentUpdates = actions
  /\ resetFailure => updates = 0 /\ phase = "initial"
=============================================================================

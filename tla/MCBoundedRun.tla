---------------------------- MODULE MCBoundedRun ----------------------------
(***************************************************************************)
(* The bounded run on a small scenario, called by anyone or by the host of  *)
(* an agent under a guard; the values of the constants.                     *)
(***************************************************************************)
EXTENDS GuardedAgent

VARIABLE hosted   \* is the caller run_agent_guarded?

MCLimits == [coverage : {0, 4, 8}, hardEnd : {0, 3, 4, 6}]
NoLegs == {}
MCCommandOf == [f \in Frames |-> IF f.throttle = "inside" THEN "burn" ELSE "idle"]

RunInit ==
  \/ hosted = FALSE /\ Init /\ resetFailure = FALSE /\ agentUpdates = <<>>
  \/ hosted = TRUE /\ GuardedInit
RunNext ==
  /\ \/ ~hosted /\ Next /\ UNCHANGED guardedVars
     \/ hosted /\ GuardedNext
  /\ UNCHANGED hosted
RunSpec == RunInit /\ [][RunNext]_<<vars, guardedVars, hosted>>

\* "Record only admitted finite decisions, including a truthful prefix" (agent.rs): the agent's
\* record, kept before the core admits the command, is the action log the core keeps after it,
\* whatever is refused, lost or vetoed; and an agent whose reset failed decides nothing.
HostRecordIsActionLog == hosted => AgentRecordIsActionLog
=============================================================================

---------------------------- MODULE MCAgentRuntime ----------------------------
(***************************************************************************)
(* A small instance of AgentRuntime.                                       *)
(***************************************************************************)
EXTENDS AgentRuntime, TLC

MCBound == "start" :> 2 @@ "call" :> 2 @@ "fault" :> 1
==============================================================================

-------------------------- MODULE MCAgentLifecycle --------------------------
(* Small instances of AgentLifecycle for TLC. *)
EXTENDS AgentLifecycle, TLC

CONSTANTS d1, p1

\* One dashboard on one agent.
PollOne == p1 :> d1
=============================================================================

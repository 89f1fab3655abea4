-------------------------- MODULE MCAgentBootstrap --------------------------
(***************************************************************************)
(* AgentBootstrap for TLC.                                                 *)
(***************************************************************************)
EXTENDS AgentBootstrap

=============================================================================

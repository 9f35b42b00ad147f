--------------------------- MODULE MCAgentStream ---------------------------
(* AgentStream for TLC. *)
EXTENDS AgentStream
=============================================================================

------------------------- MODULE MCAgentDeployments -------------------------
(* Instances of AgentDeployments for TLC. *)
EXTENDS AgentDeployments
=============================================================================

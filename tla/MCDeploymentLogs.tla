-------------------------- MODULE MCDeploymentLogs --------------------------
(* Instances of DeploymentLogs for TLC. *)
EXTENDS DeploymentLogs
=============================================================================

---------------------------- MODULE MCHttpRelay -----------------------------
(* Instances of HttpRelay for TLC. *)
EXTENDS HttpRelay
=============================================================================

---------------------------- MODULE MCEnrolment -----------------------------
(* Instances of Enrolment for TLC. *)
EXTENDS Enrolment
=============================================================================

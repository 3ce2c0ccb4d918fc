------------------------------ MODULE MCJobIO ------------------------------
(* Instances of JobIO for TLC. *)
EXTENDS JobIO
=============================================================================

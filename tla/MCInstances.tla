---------------------------- MODULE MCInstances -----------------------------
(* Model values for Instances. *)
EXTENDS Instances, TLC

CONSTANTS p1, p2
=============================================================================

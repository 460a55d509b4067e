------------------------------ MODULE MCPanel ------------------------------
(* Instances of Panel for TLC.                                             *)
EXTENDS Panel

CONSTANTS p1, p2
=============================================================================

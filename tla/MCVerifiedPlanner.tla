-------------------------- MODULE MCVerifiedPlanner --------------------------
(* Instances of VerifiedPlanner for TLC: two packages that may be removed   *)
(* and one of each other class; a build that may be installed, one that     *)
(* FluffNet has signed only, and one of somebody else.                      *)
EXTENDS VerifiedPlanner

CONSTANTS a1, a2, w1, p1, good, plain, foreign
=============================================================================

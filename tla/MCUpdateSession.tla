-------------------------- MODULE MCUpdateSession --------------------------
(* Instances of UpdateSession for TLC.                                     *)
EXTENDS UpdateSession, TLC

CONSTANTS h1, h2, k1, k2

\* Two helpers and two keys are interchangeable.
MCSymmetry == Permutations(Helpers) \cup Permutations(Keys)
=============================================================================

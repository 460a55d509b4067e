------------------------- MODULE MCNotifierWatched -------------------------
(* The instance of NotifierWatched for TLC: one window.                    *)
EXTENDS NotifierWatched

CONSTANT w1
=============================================================================

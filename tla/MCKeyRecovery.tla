--------------------------- MODULE MCKeyRecovery ---------------------------
(* Instances of KeyRecovery for TLC: the worker and the helper of a check, *)
(* and two generations of the certificate.                                 *)
EXTENDS KeyRecovery

CONSTANTS worker, check, g1, g2
=============================================================================

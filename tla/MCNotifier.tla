----------------------------- MODULE MCNotifier -----------------------------
(* Instances of Notifier for TLC: one window, which may come back while    *)
(* its last connection is still listed.                                    *)
EXTENDS Notifier

CONSTANT w1
=============================================================================

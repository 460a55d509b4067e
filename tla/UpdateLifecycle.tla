--------------------------- MODULE UpdateLifecycle ---------------------------
(***************************************************************************)
(* What STATE promises to those who read it (the panel, the notifier): the *)
(* phase and the operation_id of one update after the other, each going    *)
(* forward only, with "complete" reached from "installing" alone.          *)
(***************************************************************************)
EXTENDS Naturals

VARIABLES phase, op
lifeVars == <<phase, op>>

LivePhases == {"starting", "downloading", "installing"}
EndPhases  == {"complete", "failed", "cancelled"}

LifeInit == phase = "none" /\ op = 0

\* A helper writes a new operation, over whatever there is.
Begin == phase' = "starting" /\ op' = op + 1

Advance == /\ \/ phase = "starting" /\ phase' = "downloading"
              \/ phase = "downloading" /\ phase' = "installing"
           /\ op' = op

Complete == phase = "installing" /\ phase' = "complete" /\ op' = op

FailUpdate == phase \in LivePhases /\ phase' = "failed" /\ op' = op

\* A cancellation is asked for while downloading; by the time it is written
\* the operation may have gone on, and even ended.
Cancel == /\ phase \in {"downloading", "installing", "complete", "failed"}
          /\ phase' = "cancelled" /\ op' = op

LifeNext == Begin \/ Advance \/ Complete \/ FailUpdate \/ Cancel
LifeSpec == LifeInit /\ [][LifeNext]_lifeVars
=============================================================================

-------------------------- MODULE NotifierWatched --------------------------
(***************************************************************************)
(* Notifier with the history of what the user could see in a panel, to ask *)
(* whether every end of an update is shown by somebody.                    *)
(***************************************************************************)
EXTENDS Notifier

VARIABLE seen      \* a shown panel has seen the end of the operation

Watching == seen' = /\ phase' \in EndPhases
                    /\ seen \/ \E p \in Panels : panel'[p] = "shown"

WatchedSpec == Init /\ seen = FALSE /\ [][Next /\ Watching]_<<vars, seen>>

\* README.md:23-24: completion and errors are shown when the panel is closed or
\* another module selected.  If the notifier leaves the end of an update to a
\* panel, some panel shows it or has shown it.
EndReported == [][nt.pc = "read" /\ nt.vis /\ NotTold /\ nt'.finished = {op}
                   => Shown \/ seen]_<<vars, seen>>
=============================================================================

------------------------------ MODULE Notifier ------------------------------
(***************************************************************************)
(* The session's observer (flu-core/src/notifications.rs): panels announce *)
(* over D-Bus whether they are visible, and the notifier, which that call  *)
(* activates, reads STATE every half second, shows the progress of an      *)
(* update while no panel does, and its result once.  STATE is what         *)
(* UpdateLifecycle makes of it.                                            *)
(*                                                                         *)
(* A D-Bus call may fail, or have its effect and its reply lost; the bus   *)
(* itself stays, or the session is over.                                   *)
(***************************************************************************)
EXTENDS UpdateLifecycle

CONSTANTS Panels,     \* the panels of the session
          MaxOps,     \* bound: operations
          MaxFaults,  \* bound: D-Bus calls that fail or lose their reply
          MaxEnds     \* bound: restarts of the job server, ends of the notifier

ASSUME NotifierAssumption == MaxOps \in Nat /\ MaxFaults \in Nat /\ MaxEnds \in Nat

VARIABLES
  panel,     \* each panel: gone, hidden (another page) or shown
  late,      \* panels that have turned since the load of their SetVisible
  listed,    \* panels that Presence lists as visible
  dead,      \* panels it lists so by a connection that is closed
  nt,        \* the notifier: where it is in its loop, Lifecycle, pending_finish
  pres,      \* its Presentation: what it knows to be on the screen
  server,    \* the job server, by its unique name
  view,      \* the progress that the notifier asked for last is on the screen
  note,      \* so is the result of which it got the id
  stray,     \* what else is on the screen: nobody has kept its path or its id
  told,      \* history: how often the result of an operation was shown
  faults, ends
sessionVars == <<panel, late, listed, dead, nt, pres, server, view, note, stray>>
vars == <<phase, op, sessionVars, told, faults, ends>>

Ops == 1..MaxOps

\* An Option is a set of at most one element.  Operation 0 is no STATE at all.
Off == [pc |-> "off", vis |-> FALSE, op |-> 0,
        display |-> "hidden", observed |-> {}, finished |-> {}, last |-> {},
        pending |-> {}, old |-> {}]

\* The owner and the operation of a job matter as long as there is one.
Nothing == [job |-> FALSE, owner |-> {}, note |-> FALSE, op |-> {}]
NoStray == [view |-> 0, note |-> 0]

Init == /\ LifeInit
        /\ panel = [p \in Panels |-> "gone"] /\ late = {}
        /\ listed = {} /\ dead = {} /\ nt = Off /\ pres = Nothing
        /\ server = 0 /\ view = FALSE /\ note = FALSE /\ stray = NoStray
        /\ told = [o \in Ops |-> 0] /\ faults = 0 /\ ends = 0

\* What a call comes to: it has its effect or not, and the caller knows or not.
Outcomes == {"ok"} \cup (IF faults < MaxFaults THEN {"failed", "lost"} ELSE {})
Counted(outcome) == faults' = IF outcome = "ok" THEN faults ELSE faults + 1

Shown == \E p \in Panels : panel[p] = "shown"

-----------------------------------------------------------------------------
(* STATE and the panels.                                                   *)

StateChanges ==
  /\ \/ Begin /\ op < MaxOps /\ phase \notin LivePhases
     \/ Advance \/ Complete \/ FailUpdate \/ Cancel
  /\ UNCHANGED <<sessionVars, told, faults, ends>>

\* The page is opened, another one is selected, this one again.  watch_panel may
\* have loaded `visible` just before: its call is outdated, until a turn back.
PanelTurns(p) ==
  /\ panel' = [panel EXCEPT ![p] = IF @ = "shown" THEN "hidden" ELSE "shown"]
  /\ IF p \in late THEN late' = late \ {p}
     ELSE late' \in {late} \cup (IF panel[p] = "gone" THEN {} ELSE {late \cup {p}})
  /\ UNCHANGED <<phase, op, listed, dead, nt, pres, server, view, note, stray, told,
                 faults, ends>>

\* Mutant: the connection outlives the panel.
KeepsListing(p) ==
  /\ panel[p] # "gone" /\ panel' = [panel EXCEPT ![p] = "gone"]
  /\ UNCHANGED <<phase, op, late, listed, dead, nt, pres, server, view, note, stray,
                 told, faults, ends>>

\* Its connection goes with the panel, once its thread has seen the stop: a
\* window that closes during a call is hidden until the call has come back.
PanelCloses(p) ==
  /\ panel[p] # "gone" /\ p \notin late
  /\ panel' = [panel EXCEPT ![p] = "gone"]
  /\ dead' = dead \cup ({p} \cap listed) /\ listed' = listed \ {p}
  /\ UNCHANGED <<phase, op, late, nt, pres, server, view, note, stray, told,
                 faults, ends>>

\* What a call says: the load of `visible` and the delivery are one step unless
\* the panel turns between them.
Says(p) == IF panel[p] = "shown" <=> p \notin late THEN "shown" ELSE "hidden"

\* SetVisible, at a change and every two seconds.  The call starts the notifier;
\* after a failure the panel takes a new connection.
Announce(p) ==
  /\ panel[p] # "gone" /\ late' = late \ {p}
  /\ \E outcome \in Outcomes :
       /\ Counted(outcome)
       /\ nt' = IF nt.pc = "off" /\ outcome # "failed" THEN [Off EXCEPT !.pc = "tick"]
                ELSE nt
       /\ listed' = IF outcome = "ok" /\ Says(p) = "shown" THEN listed \cup {p}
                    ELSE listed \ {p}
       /\ dead' = CASE outcome = "ok"     -> dead
                    [] outcome = "failed" -> dead \cup ({p} \cap listed)
                    [] outcome = "lost"   -> IF Says(p) = "shown" THEN dead \cup {p}
                                             ELSE dead
  /\ UNCHANGED <<phase, op, panel, pres, server, view, note, stray, told, ends>>

-----------------------------------------------------------------------------
(* The loop of the notifier.                                               *)

\* Panels whose connection has gone are struck off, then the others counted; a
\* panel that the bus could not be asked about is struck off as well.
Tick ==
  /\ nt.pc = "tick"
  /\ \E unasked \in {{}} \cup (IF faults < MaxFaults THEN {{p} : p \in listed} ELSE {}) :
       /\ listed' = listed \ unasked /\ dead' = {}
       /\ faults' = IF unasked = {} THEN faults ELSE faults + 1
       /\ nt' = [nt EXCEPT !.pc = "read", !.vis = listed' # {}]
  /\ UNCHANGED <<phase, op, panel, late, pres, server, view, note, stray, told,
                 ends>>

\* Mutant: the first thing that is read counts as new.
FirstIsNew == nt.last # {op}

\* An operation between two ticks still warrants a result; history does not.
NewOperation == nt.last # {} /\ nt.last # {op}

\* Mutant: a result that was told is told again.
AlwaysNews == TRUE

NotTold == nt.finished # {op}

\* Lifecycle.display of the STATE just read.
Display ==
  LET live == phase \in LivePhases
      over == /\ phase \in EndPhases
              /\ nt.observed = {op} \/ NewOperation
              /\ NotTold
  IN  [nt EXCEPT
        !.last     = IF phase # "none" \/ @ = {} THEN {op} ELSE @,
        !.observed = IF live THEN {op} ELSE @,
        !.finished = IF live /\ nt.observed # {op} THEN {}
                     ELSE IF over THEN {op} ELSE @,
        !.display  = IF nt.vis THEN "hidden" ELSE IF live THEN "progress"
                     ELSE IF over THEN "finished" ELSE "hidden"]

\* pending_finish after the tick's display.
Pending(shown) == CASE shown.display = "finished" -> {op}
                    [] nt.vis                     -> {}
                    [] OTHER                      -> nt.pending

ReadState ==
  /\ nt.pc = "read"
  /\ LET shown == Display
     IN  nt' = [shown EXCEPT !.pc = "present", !.op = op,
                             !.pending = Pending(shown),
                             !.old = IF nt.last = {} /\ phase \in EndPhases THEN {op} ELSE @]
  /\ UNCHANGED <<phase, op, panel, late, listed, dead, pres, server, view, note, stray,
                 told, faults, ends>>

Slept(pending) == nt' = [nt EXCEPT !.pc = "tick", !.pending = pending, !.op = 0,
                                   !.display = "hidden"]
PresentStays   == UNCHANGED <<phase, op, panel, late, listed, dead, server, ends>>

\* terminate is sent without waiting for a reply: detach does not fail.
Detached == view' = (view /\ ~pres.job)

\* CloseNotification, when a result is known to be on the screen.
Closed(outcome) == note' = (note /\ (~pres.note \/ outcome = "failed"))

\* Mutant: the id of the notification is given up with the attempt.
NoteForgotten(outcome) == FALSE

\* The notification is remembered until its server has closed it.
NoteKept(outcome) == pres.note /\ outcome # "ok"

\* A panel is visible: whatever is on the screen goes.
PresentNothing ==
  /\ nt.pc = "present" /\ nt.vis
  /\ \E outcome \in IF pres.note THEN Outcomes ELSE {"ok"} :
       /\ Counted(outcome) /\ Detached /\ Closed(outcome)
       /\ pres' = [Nothing EXCEPT !.note = NoteKept(outcome)]
  /\ Slept(nt.pending) /\ UNCHANGED <<stray, told>> /\ PresentStays

\* Mutant: a job of a server that has gone is taken for one of the present one.
AnyServer == pres.owner # {}

\* The job belongs to the server that is asked now.
SameServer == pres.owner = {server}

\* progress: the last result goes, the server is looked up, a view is asked for
\* unless there is one of this operation.  Each call may be the last one; a view
\* whose path got lost is on the screen all the same.
PresentProgress ==
  /\ nt.pc = "present" /\ ~nt.vis /\ nt.display = "progress"
  /\ \E closing \in IF pres.note THEN Outcomes ELSE {"ok"}, looking \in Outcomes :
       LET keep == pres.job /\ SameServer /\ pres.op = {nt.op}
           left == [pres EXCEPT !.note = NoteKept(closing)]
       IN  /\ Closed(closing)
           /\ \/ closing # "ok" /\ Counted(closing)
                 /\ pres' = left /\ UNCHANGED <<view, stray>>
              \/ closing = "ok" /\ looking # "ok" /\ Counted(looking)
                 /\ pres' = left /\ UNCHANGED <<view, stray>>
              \/ closing = "ok" /\ looking = "ok"
                 /\ \E asking \in IF keep THEN {"ok"} ELSE Outcomes :
                      /\ Counted(asking)
                      /\ pres' = IF ~keep /\ asking # "ok" THEN Nothing
                                 ELSE [job |-> TRUE, owner |-> {server},
                                       note |-> FALSE, op |-> {nt.op}]
                      /\ view' = IF keep THEN view ELSE asking = "ok"
                      /\ stray' = IF asking = "lost" THEN [stray EXCEPT !.view = @ + 1]
                                  ELSE stray
  /\ Slept({}) /\ UNCHANGED told /\ PresentStays

\* Mutant: the result is given up when it could not be shown.
GivesUp(outcome) == {}

\* A result stays pending until the server of notifications has taken it.
StillPending(outcome) == IF outcome = "ok" THEN {} ELSE nt.pending

\* finished: Notify, in place of the last result if its id is known.  Without
\* it, a result whose id got lost stays on the screen for good.
PresentResult ==
  /\ nt.pc = "present" /\ ~nt.vis /\ nt.display # "progress" /\ nt.pending # {}
  /\ \E outcome \in Outcomes, o \in nt.pending :
       /\ Counted(outcome) /\ Detached
       /\ pres' = [Nothing EXCEPT !.note = pres.note \/ outcome = "ok"]
       /\ note' = (note \/ outcome = "ok" \/ (outcome = "lost" /\ pres.note))
       /\ stray' = IF outcome = "lost" /\ ~pres.note THEN [stray EXCEPT !.note = @ + 1]
                   ELSE stray
       /\ told' = [told EXCEPT ![o] = IF outcome = "failed" THEN @ ELSE @ + 1]
       /\ Slept(StillPending(outcome))
  /\ PresentStays

\* Nothing is under way and nothing to tell.
PresentIdle ==
  /\ nt.pc = "present" /\ ~nt.vis /\ nt.display # "progress" /\ nt.pending = {}
  /\ Detached /\ pres' = [Nothing EXCEPT !.note = pres.note] /\ Slept({})
  /\ UNCHANGED <<note, stray, told, faults>> /\ PresentStays

-----------------------------------------------------------------------------
(* The rest of the desktop.                                                *)

\* The user dismisses a result, or it expires.
Dismissed == /\ \/ note /\ note' = FALSE /\ UNCHANGED stray
                \/ /\ stray.note > 0 /\ stray' = [stray EXCEPT !.note = @ - 1]
                   /\ UNCHANGED note
             /\ UNCHANGED <<phase, op, panel, late, listed, dead, nt, pres, server,
                            view, told, faults, ends>>

\* The job server starts anew, without its views.
ServerRestarts == /\ ends < MaxEnds /\ ends' = ends + 1
                  /\ server' = server + 1 /\ view' = FALSE
                  /\ stray' = [stray EXCEPT !.view = 0]
                  /\ UNCHANGED <<phase, op, panel, late, listed, dead, nt, pres, note,
                                 told, faults>>

\* The notifier loses its name or is killed.  Its views go with its connection;
\* its result stays, and nobody knows the id any more.
NotifierEnds == /\ nt.pc # "off" /\ ends < MaxEnds /\ ends' = ends + 1
                /\ nt' = Off /\ pres' = Nothing /\ listed' = {} /\ dead' = {}
                /\ view' = FALSE /\ note' = FALSE
                /\ stray' = [view |-> 0, note |-> stray.note + IF note THEN 1 ELSE 0]
                /\ UNCHANGED <<phase, op, panel, late, server, told, faults>>

NotifierStep == \/ Tick \/ ReadState \/ PresentNothing \/ PresentProgress
                \/ PresentResult \/ PresentIdle
DesktopStep  == Dismissed \/ ServerRestarts \/ NotifierEnds
PanelStep    == \E p \in Panels : PanelTurns(p) \/ PanelCloses(p) \/ Announce(p)

Next == StateChanges \/ PanelStep \/ NotifierStep \/ DesktopStep
Spec == Init /\ [][Next]_vars

-----------------------------------------------------------------------------
(* Safety.                                                                 *)

\* Every variable has its type; a panel is listed by an open connection only.
TypeOK ==
  /\ phase \in LivePhases \cup EndPhases \cup {"none"} /\ op \in 0..MaxOps
  /\ panel \in [Panels -> {"gone", "hidden", "shown"}]
  /\ listed \subseteq Panels /\ dead \subseteq Panels /\ late \subseteq Panels
  /\ \A p \in listed \cup late : panel[p] # "gone"
  /\ nt.pc \in {"off", "tick", "read", "present"} /\ nt.vis \in BOOLEAN
  /\ nt.display \in {"hidden", "progress", "finished"}
  /\ pres.job \in BOOLEAN /\ pres.note \in BOOLEAN
  /\ \A option \in {nt.observed, nt.finished, nt.last, nt.pending, nt.old, pres.op} :
       option = {} \/ \E o \in 0..MaxOps : option = {o}
  /\ view \in BOOLEAN /\ note \in BOOLEAN /\ stray \in [view : Nat, note : Nat]
  /\ told \in [Ops -> Nat]

\* The result of an operation is shown once, through reopened panels, retried
\* notifications and restarts of the notifier; a lost reply may cost a second
\* one (notifications.rs:210-222, 458-468).
ToldOnce == \A o \in Ops : told[o] <= 1 + faults

\* A result that was there when the notifier first read STATE is never shown
\* (notifications.rs:192-194), whatever it retries later.
NotReplayed == [][\A o \in Ops : told'[o] > told[o] => nt.old # {o}]_vars

\* Once the notifier has seen a visible panel, the progress is off the screen,
\* and so is the result or it tries again (notifications.rs:458-461).  What stays
\* behind the panel is what it cannot know of: at most one view or result for
\* each reply that got lost and each notifier that ended (352-362, 394-412).
HiddenBehindPanel ==
  nt.pc = "tick" /\ nt.vis => /\ ~view /\ (note => pres.note)
                             /\ stray.view + stray.note <= faults + ends

-----------------------------------------------------------------------------
(* Liveness.  The notifier's loop runs and faults are bounded; updates,    *)
(* panels and users owe nothing.                                           *)

Fairness == WF_vars(NotifierStep)
FairSpec == Spec /\ Fairness

Running  == nt.pc # "off"
NoPanel  == /\ ~Shown /\ late = {}
            /\ listed \cup dead = {} /\ (nt.pc = "read" => ~nt.vis)

\* The end of an operation that the notifier watched, or that came and went
\* between two of its ticks, gets its result shown, if no panel is visible.
ResultShown ==
  \A o \in Ops :
    /\ Running /\ NoPanel /\ op = o /\ phase \in EndPhases /\ NotTold
    /\ nt.observed = {o} \/ NewOperation
    ~> told[o] > 0 \/ Shown \/ op # o \/ ~Running

\* While an update runs and no panel is visible its progress gets on the screen,
\* also after the job server has started anew (notifications.rs:339-343).
ProgressShown ==
  Running /\ NoPanel /\ phase \in LivePhases
    ~> view \/ Shown \/ phase \notin LivePhases \/ ~Running
=============================================================================

------------------------------- MODULE Panel -------------------------------
(***************************************************************************)
(* The panel's controller thread (flu-core/src/desktop.rs): the model it   *)
(* publishes, the channel of commands it works off, the helper calls it    *)
(* blocks in and the notifications about /etc/pacman.d.  STATE is what     *)
(* UpdateLifecycle makes of it: this panel's installations, other panels'  *)
(* and the worker drive it.                                                *)
(*                                                                         *)
(* A click acts on the model published last; the GUI shows it later still, *)
(* which is the same as the command waiting in the channel meanwhile.      *)
(***************************************************************************)
EXTENDS UpdateLifecycle, Sequences

CONSTANTS Pkgs,      \* packages a check may find in the way of an update
          Clicks,    \* the commands the user and the network timer send
          MaxQueue,  \* bound: clicks on their way to the controller
          MaxOps,    \* bound: installations written to STATE
          Others     \* may another panel install, cancel?

AllClicks == {"check", "clear", "install", "cancel", "retry", "allow", "deny",
              "online", "offline"}

ASSUME PanelAssumption ==
  /\ Clicks \subseteq AllClicks
  /\ MaxQueue \in Nat /\ MaxOps \in Nat
  /\ Others \in BOOLEAN
  /\ "none" \notin Pkgs

VARIABLES
  keyFault,  \* STATE's error is SIGNING_KEY_VERIFICATION_FAILED
  m,         \* the controller's model
  ignore,    \* ignore_terminal
  pc,        \* where the controller thread is; "closed" without a panel
  removal,   \* the package it asks the helper to remove
  queue,     \* the channel
  slips      \* history of this panel, "missed": STATE was written after it was
             \* read and before it was watched, and was not read since;
             \* "fast": an update ended before the helper that began it returned
panelVars == <<keyFault, m, ignore, pc, removal, queue, slips>>
vars == <<phase, op, panelVars>>

Cmd(c, p) == [cmd |-> c, pkg |-> p]
NoPkg     == "none"
InHelper  == {"checking", "asking", "begun", "started", "startFailed",
              "cancelling", "cancelled", "removing"}
PCs       == {"closed", "opening", "loop", "tail"} \cup InHelper

InitialModel ==
  [inst |-> "idle", checking |-> FALSE, complete |-> FALSE, avail |-> FALSE,
   cerr |-> FALSE, ierr |-> "none", key |-> FALSE, dialog |-> "none",
   pkg |-> NoPkg, action |-> "none", notices |-> {}, net |-> TRUE]
Models ==
  [inst : LivePhases \cup EndPhases \cup {"idle"}, checking : BOOLEAN,
   complete : BOOLEAN, avail : BOOLEAN, cerr : BOOLEAN,
   ierr : {"none", "start", "cancel", "update", "security"}, key : BOOLEAN,
   dialog : {"none", "warning", "protected"}, pkg : Pkgs \cup {NoPkg},
   action : {"none", "warning", "protected"},
   notices : SUBSET {"success", "cancelled"}, net : BOOLEAN]

PanelActive(mm) == mm.inst \in LivePhases

Init == /\ LifeInit /\ keyFault = FALSE
        /\ m = InitialModel /\ ignore = TRUE
        /\ pc = "closed" /\ removal = NoPkg /\ queue = <<>> /\ slips = {}

-----------------------------------------------------------------------------
(* STATE and the watcher.                                                  *)

Refresh == Cmd("refresh", NoPkg)

\* Mutant: the watcher does not report what it should.
NeverNotified == queue

\* A notification on top of another one reads nothing the first does not.
Notified == IF queue # <<>> /\ queue[Len(queue)] = Refresh THEN queue
            ELSE Append(queue, Refresh)

\* STATE was replaced: a watching panel gets a Refresh.
Watched == IF pc \in {"closed", "opening"}
           THEN queue' = queue
           ELSE queue' = Notified
\* What the panel will not have seen of it.
Slips(end) == slips' = slips \cup {s \in {"missed"} : pc = "opening"}
                             \cup {s \in {"fast"} : end /\ pc = "started"}

BeginFile == /\ op < MaxOps /\ phase \notin LivePhases
             /\ Begin /\ keyFault' = FALSE

OtherBegins  == /\ Others /\ pc # "begun" /\ BeginFile /\ Watched /\ Slips(FALSE)
                /\ UNCHANGED <<m, ignore, pc, removal>>
OtherCancels == /\ Others /\ phase = "downloading" /\ Cancel /\ Watched /\ Slips(TRUE)
                /\ UNCHANGED <<keyFault, m, ignore, pc, removal>>

\* The worker of the operation, once its unit runs.
WorkerRuns     == pc # "begun"
WorkerAdvances == /\ WorkerRuns /\ Advance /\ Watched /\ Slips(FALSE)
                  /\ UNCHANGED <<keyFault, m, ignore, pc, removal>>
WorkerEnds == /\ WorkerRuns
              /\ \/ Complete /\ UNCHANGED keyFault
                 \/ FailUpdate /\ keyFault' \in BOOLEAN
              /\ Watched /\ Slips(TRUE) /\ UNCHANGED <<m, ignore, pc, removal>>

\* Progress, the log, lastupdate.json: a Refresh that changes no phase.
OtherFileWritten == /\ pc \notin {"closed", "opening"} /\ queue # Notified
                    /\ queue' = Notified
                    /\ UNCHANGED <<phase, op, keyFault, m, ignore, pc, removal, slips>>

EnvStep == \/ OtherBegins \/ OtherCancels \/ WorkerAdvances \/ WorkerEnds
           \/ OtherFileWritten

-----------------------------------------------------------------------------
(* What the controller does to its model.                                  *)

\* Mutant: having seen an update run does not end the looking past results.
ApplyInstallKeepsIgnoring(mm, ig) ==
  IF phase = "none" \/ (ig /\ phase \notin LivePhases) THEN [m |-> mm, ig |-> ig]
  ELSE [ig |-> ig, m |-> [mm EXCEPT !.inst = phase]]

\* apply_install: the model and ignore_terminal after reading STATE.
ApplyInstall(mm, ig) ==
  LET live == phase \in LivePhases
      kept == mm.notices
  IN  IF phase = "none" \/ (ig /\ ~live) THEN [m |-> mm, ig |-> ig]
      ELSE [ig |-> ig /\ ~live,
            m  |-> [mm EXCEPT
              !.inst     = phase,
              !.complete = @ \/ phase # "failed",
              !.avail    = IF phase = "failed" THEN @ ELSE phase # "complete",
              !.key      = phase = "failed" /\ keyFault,
              !.ierr     = IF phase # "failed" THEN "none"
                           ELSE IF keyFault THEN "security" ELSE "update",
              !.notices  =
                IF phase = "complete" /\ PanelActive(mm) THEN kept \cup {"success"}
                ELSE IF phase = "cancelled" /\ mm.inst # phase
                     THEN kept \cup {"cancelled"}
                ELSE kept]]

ReadInstall(mm, ig) == LET r == ApplyInstall(mm, ig) IN m' = r.m /\ ignore' = r.ig

FileStays == UNCHANGED <<phase, op, keyFault>>
Goto(p)   == pc' = p

\* fail_check and finish_check.
FailedCheck(mm) == [mm EXCEPT !.cerr = TRUE, !.checking = FALSE, !.complete = TRUE]

\* Mutant: the last result may come back.
ForgetsResult == FALSE

\* A new check or installation looks past the result STATE still shows.
IgnoresResult == TRUE

\* check(): its own guard, the reset, the scan for pacman, the helper call.
Check(mm, restart) ==
  LET reset == [mm EXCEPT
        !.inst = "idle", !.notices = {}, !.key = FALSE, !.avail = FALSE,
        !.complete = FALSE, !.ierr = "none", !.cerr = FALSE,
        !.action = IF restart THEN @ ELSE "none"]
  IN  IF mm.checking \/ ~mm.net \/ PanelActive(mm)
      THEN m' = mm /\ UNCHANGED ignore /\ Goto("tail")
      ELSE /\ ignore' = (ignore \/ IgnoresResult)
           /\ \/ m' = FailedCheck(reset) /\ Goto("tail")   \* pacman is running
              \/ m' = [reset EXCEPT !.checking = TRUE] /\ Goto("checking")

InstallAllowed(mm) == ~PanelActive(mm) /\ mm.avail /\ ~mm.cerr /\ mm.net

\* The Install command up to the call of the helper.
Install(mm) ==
  IF InstallAllowed(mm)
  THEN /\ m' = [mm EXCEPT !.inst = "starting", !.notices = {}, !.ierr = "none",
                          !.key = FALSE]
       /\ ignore' = (ignore \/ IgnoresResult) /\ Goto("asking")
  ELSE m' = mm /\ UNCHANGED ignore /\ Goto("tail")

-----------------------------------------------------------------------------
(* The controller thread.                                                  *)

\* A new controller reads STATE before it watches the directory.
Open == /\ pc = "closed" /\ Goto("opening")
        /\ ReadInstall(InitialModel, TRUE)
        /\ queue' = <<>> /\ slips' = {}
        /\ FileStays /\ UNCHANGED removal

Watch == /\ pc = "opening" /\ Goto("loop")
         /\ FileStays /\ UNCHANGED <<m, ignore, removal, queue, slips>>

\* The panel goes, its helper call is given up.
Close == /\ pc # "closed" /\ Goto("closed")
         /\ m' = InitialModel /\ ignore' = TRUE
         /\ queue' = <<>> /\ removal' = NoPkg /\ slips' = {}
         /\ FileStays

\* What the QML page offers, by the published model; removal dialogs are modal.
Offered(c) ==
  CASE c = "check"   -> m.net /\ ~m.checking /\ ~PanelActive(m) /\ m.dialog = "none"
    [] c = "install" -> /\ m.net /\ ~PanelActive(m) /\ m.dialog = "none"
                        /\ \/ m.complete /\ ~m.checking /\ ~m.cerr /\ m.avail
                           \/ m.inst = "failed"
    [] c = "cancel"  -> m.inst = "downloading" /\ m.dialog = "none"
    [] c = "retry"   -> m.key
    [] c = "allow"   -> m.dialog = "warning"
    [] c = "deny"    -> m.dialog # "none"
    [] OTHER         -> TRUE

Clicked(c) == /\ pc # "closed" /\ Offered(c)
              /\ Len(SelectSeq(queue, LAMBDA e : e # Refresh)) < MaxQueue
              /\ queue' = Append(queue, Cmd(c, m.pkg))
              /\ FileStays /\ UNCHANGED <<m, ignore, pc, removal, slips>>

\* The head of the channel is taken; STATE stays as it is meanwhile.
Taken(c) == /\ pc = "loop" /\ queue # <<>> /\ Head(queue).cmd = c
            /\ queue' = Tail(queue) /\ FileStays

DoRefresh == /\ Taken("refresh") /\ ReadInstall(m, ignore) /\ Goto("tail")
             /\ slips' = slips \ {"missed"} /\ UNCHANGED removal

DoNetwork == \E up \in BOOLEAN :
               /\ Taken(IF up THEN "online" ELSE "offline")
               /\ m' = [m EXCEPT !.net = up] /\ Goto("tail")
               /\ UNCHANGED <<ignore, removal, slips>>

DoCheck == Taken("check") /\ Check(m, FALSE) /\ UNCHANGED <<removal, slips>>

DoClear == /\ Taken("clear") /\ Goto("tail")
           /\ m' = IF ~m.checking /\ ~PanelActive(m) /\ m.complete
                   THEN [m EXCEPT !.complete = FALSE, !.avail = FALSE,
                                  !.cerr = FALSE, !.action = "none"]
                   ELSE m
           /\ UNCHANGED <<ignore, removal, slips>>

DoInstall == Taken("install") /\ Install(m) /\ UNCHANGED <<removal, slips>>

DoCancel == /\ Taken("cancel")
            /\ Goto(IF m.inst = "downloading" THEN "cancelling" ELSE "tail")
            /\ UNCHANGED <<m, ignore, removal, slips>>

DoRetry == /\ Taken("retry")
           /\ CASE ~m.key -> m' = m /\ UNCHANGED ignore /\ Goto("tail")
                [] m.key /\ m.inst = "idle" -> Check([m EXCEPT !.key = FALSE], FALSE)
                [] m.key /\ m.inst # "idle" -> Install(m)
           /\ UNCHANGED <<removal, slips>>

\* Mutant: the removal is asked for while the dialog stays.
ResolveKeepsDialog(allow) ==
  /\ Taken(IF allow THEN "allow" ELSE "deny")
  /\ m' = [m EXCEPT !.pkg = NoPkg] /\ Goto("tail")
  /\ UNCHANGED <<ignore, removal, slips>>

\* Resolve: the dialog goes; only an allowed warning is acted upon.
DoResolve(allow) ==
  LET shut == [m EXCEPT !.dialog = "none", !.pkg = NoPkg]
  IN  /\ Taken(IF allow THEN "allow" ELSE "deny")
      /\ IF m.dialog = "warning" /\ allow
         THEN /\ m' = [shut EXCEPT !.action = "none", !.checking = TRUE]
              /\ removal' = m.pkg /\ Goto("removing")
         ELSE /\ m' = CASE m.dialog = "none"      -> shut
                        [] m.dialog = "protected" -> [shut EXCEPT !.action = "protected"]
                        [] m.dialog = "warning"   ->
                             [shut EXCEPT !.action = "warning", !.complete = FALSE,
                                          !.avail = FALSE, !.cerr = FALSE]
              /\ Goto("tail") /\ UNCHANGED removal
      /\ UNCHANGED <<ignore, slips>>

\* recv_timeout: every 750 ms without a command.
TimesOut == /\ pc = "loop" /\ queue = <<>> /\ Goto("tail")
            /\ FileStays /\ UNCHANGED <<m, ignore, removal, queue, slips>>

\* The rest of the loop's turn: an update under way is read again, notices
\* run out, the model is published.
LoopTail ==
  /\ pc = "tail" /\ Goto("loop")
  /\ \E expired \in SUBSET {"success", "cancelled"} :
       LET r == IF PanelActive(m) THEN ApplyInstall(m, ignore)
                ELSE [m |-> m, ig |-> ignore]
       IN  /\ m' = [r.m EXCEPT !.notices = @ \ expired]
           /\ ignore' = r.ig
  /\ FileStays /\ UNCHANGED <<removal, queue, slips>>

\* The helper's check, by what its output says.
CheckReturns ==
  /\ pc = "checking" /\ Goto("tail")
  /\ LET over == [m EXCEPT !.checking = FALSE, !.complete = TRUE]
     IN  \/ m' = [FailedCheck(m) EXCEPT !.key = TRUE, !.avail = FALSE]
         \/ m' = over                                       \* no updates
         \/ m' = [over EXCEPT !.avail = TRUE]
         \/ \E some \in BOOLEAN : m' = [FailedCheck(m) EXCEPT !.avail = some]
         \/ \E kind \in {"warning", "protected"}, p \in Pkgs, some \in BOOLEAN :
              m' = [m EXCEPT !.checking = FALSE, !.complete = FALSE, !.avail = some,
                             !.dialog = kind, !.action = kind, !.pkg = p]
  /\ FileStays /\ UNCHANGED <<ignore, removal, queue, slips>>

\* The helper's installation, from inside: STATE, then the unit.
HelperBegins == /\ pc = "asking" /\ BeginFile /\ Goto("begun") /\ Watched
                /\ UNCHANGED <<m, ignore, removal, slips>>
HelperStarts == /\ pc = "begun" /\ Goto("started")
                /\ FileStays /\ UNCHANGED <<m, ignore, removal, queue, slips>>
HelperFails  == /\ pc = "begun" /\ FailUpdate /\ keyFault' = FALSE
                /\ Goto("startFailed") /\ Watched
                /\ UNCHANGED <<m, ignore, removal, slips>>

\* Authorization, a running pacman, a failed start, or 300 s are over.
InstallRefused == /\ pc \in {"asking", "begun", "started", "startFailed"}
                  /\ m' = [m EXCEPT !.inst = "failed", !.ierr = "start"]
                  /\ Goto("tail")
                  /\ FileStays /\ UNCHANGED <<ignore, removal, queue, slips>>

InstallReturns == /\ pc = "started" /\ ReadInstall(m, ignore) /\ Goto("tail")
                  /\ FileStays /\ UNCHANGED <<removal, queue, slips>>

HelperCancels == /\ pc = "cancelling" /\ Cancel /\ Goto("cancelled") /\ Watched
                 /\ UNCHANGED <<keyFault, m, ignore, removal, slips>>

CancelReturns == /\ pc = "cancelled" /\ ReadInstall(m, ignore) /\ Goto("tail")
                 /\ FileStays /\ UNCHANGED <<removal, queue, slips>>

CancelFails == /\ pc \in {"cancelling", "cancelled"}
               /\ m' = [m EXCEPT !.ierr = "cancel"] /\ Goto("tail")
               /\ FileStays /\ UNCHANGED <<ignore, removal, queue, slips>>

\* remove_package has returned: check again, or give up.
RemovalReturns ==
  /\ pc = "removing" /\ removal' = NoPkg
  /\ LET mm == [m EXCEPT !.checking = FALSE]
     IN  \/ Check(mm, TRUE)
         \/ m' = FailedCheck([mm EXCEPT !.avail = FALSE]) /\ Goto("tail") /\ UNCHANGED ignore
  /\ FileStays /\ UNCHANGED <<queue, slips>>

ControllerStep ==
  \/ Watch \/ DoRefresh \/ DoNetwork \/ DoCheck \/ DoClear \/ DoInstall \/ DoCancel
  \/ DoRetry \/ (\E allow \in BOOLEAN : DoResolve(allow)) \/ TimesOut \/ LoopTail
  \/ CheckReturns \/ HelperBegins \/ HelperStarts \/ HelperFails
  \/ InstallRefused \/ InstallReturns \/ HelperCancels \/ CancelReturns
  \/ CancelFails \/ RemovalReturns

UserStep == Open \/ Close \/ \E c \in Clicks : Clicked(c)

Next == EnvStep \/ UserStep \/ ControllerStep
Spec == Init /\ [][Next]_vars

-----------------------------------------------------------------------------
(* Safety.                                                                 *)

\* Every variable has its type; a dialog always names the package it is about,
\* and a package is removed only while the helper is asked to.
TypeOK == /\ phase \in LivePhases \cup EndPhases \cup {"none"} /\ op \in Nat
          /\ keyFault \in BOOLEAN /\ m \in Models /\ ignore \in BOOLEAN
          /\ pc \in PCs /\ removal \in Pkgs \cup {NoPkg}
          /\ queue \in Seq([cmd : AllClicks \cup {"refresh"}, pkg : Pkgs \cup {NoPkg}])
          /\ slips \subseteq {"missed", "fast"}
          /\ m.dialog = "none" <=> m.pkg = NoPkg
          /\ pc = "removing" <=> removal # NoPkg

\* When the controller waits with no Refresh in its channel, an update that
\* is under way, whoever started it, is shown in its present phase, and one
\* that it shows and has seen in STATE is under way: no write of STATE gets
\* lost between the reads of a command, of the loop's tail and of the
\* notifications (desktop.rs:988-1003).
InSync == pc = "loop" /\ "missed" \notin slips /\ (\A i \in DOMAIN queue : queue[i] # Refresh)
          => /\ phase \in LivePhases => m.inst = phase
             /\ PanelActive(m) /\ ~ignore => m.inst = phase

\* The result of an earlier update, which STATE still holds, does not come back.
\* While the panel shows no update it does not appear: not at the opening, and
\* not when STATE is read again after a check (test
\* previous_terminal_state_is_not_restored, desktop.rs:1127).  Nor does it
\* replace the reason why an installation did not start, which stays until the
\* user asks for something, or an update runs (desktop.rs:678, 691-702).
OldResultHidden ==
  [][/\ m.inst = "idle" => m'.inst \notin EndPhases
     /\ m.ierr = "start" => \/ m'.ierr = "start" \/ pc' = "closed"
                            \/ PanelActive(m')
                            \/ pc = "removing"
                            \/ (pc = "loop" /\ Head(queue) # Refresh)]_vars

\* README.md: FLU asks before it removes a warning-class package.  The package
\* whose removal the user allowed is the one that is removed.
RemovalConsented == [][pc = "loop" /\ pc' = "removing" => removal' = Head(queue).pkg]_vars

-----------------------------------------------------------------------------
(* Liveness.  The controller runs, the helper returns and the worker of an *)
(* operation ends it (UpdateSession: Settles); users owe nothing.          *)

Fairness == WF_vars(ControllerStep) /\ WF_vars(WorkerAdvances \/ WorkerEnds)
FairSpec == Spec /\ Fairness

\* An update that has ended in STATE ends in the panel too, which takes no
\* installation and no check before (desktop.rs:502, 671), unless it ended
\* before the helper call that began it returned.
PanelSettles == PanelActive(m) ~> ~PanelActive(m) \/ "fast" \in slips

\* The comment at helper.rs:434-435: the result of an update is told from an
\* older one, however fast it came.
FastSettles == PanelActive(m) ~> ~PanelActive(m)
=============================================================================

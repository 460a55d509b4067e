---------------------------- MODULE PanelProofs ----------------------------
(***************************************************************************)
(* Proofs about Panel, for any packages, clicks, queues and operations.    *)
(***************************************************************************)
EXTENDS Panel, TLAPS

Cmds   == [cmd : AllClicks \cup {"refresh"}, pkg : Pkgs \cup {NoPkg}]
Phases == LivePhases \cup EndPhases \cup {"none"}
Fresh  == \A i \in DOMAIN queue : queue[i] # Refresh

-----------------------------------------------------------------------------
(* The channel.                                                            *)

\* A write of STATE leaves a Refresh on its way.
LEMMA NotifiedIs ==
  ASSUME queue \in Seq(Cmds)
  PROVE  Notified \in Seq(Cmds) /\ \E i \in DOMAIN Notified : Notified[i] = Refresh
<1>1. Refresh \in Cmds
  BY DEF Refresh, Cmd, Cmds
<1>2. CASE queue # <<>> /\ queue[Len(queue)] = Refresh
  <2>1. Notified = queue /\ Len(queue) \in DOMAIN queue
    BY <1>2 DEF Notified
  <2> QED
    BY <1>2, <2>1
<1>3. CASE ~(queue # <<>> /\ queue[Len(queue)] = Refresh)
  <2>1. Notified = Append(queue, Refresh)
    BY <1>3 DEF Notified
  <2>2. /\ Append(queue, Refresh) \in Seq(Cmds)
        /\ Len(queue) + 1 \in DOMAIN Append(queue, Refresh)
        /\ Append(queue, Refresh)[Len(queue) + 1] = Refresh
    BY <1>1
  <2> QED
    BY <2>1, <2>2
<1> QED
  BY <1>2, <1>3

\* The same of a panel that watches.
LEMMA WatchedIs ==
  ASSUME queue \in Seq(Cmds), Watched
  PROVE  /\ queue' \in Seq(Cmds)
         /\ pc \in {"closed", "opening"} => queue' = queue
         /\ pc \notin {"closed", "opening"} => ~Fresh'
  BY NotifiedIs DEF Watched, Fresh

\* A command that is taken is not a Refresh, and no Refresh goes with it.
LEMMA TakenIs ==
  ASSUME queue \in Seq(Cmds), NEW c, Taken(c)
  PROVE  /\ queue' \in Seq(Cmds) /\ pc = "loop" /\ FileStays
         /\ Head(queue) \in Cmds /\ Head(queue).cmd = c
         /\ c # "refresh" => Head(queue) # Refresh /\ (Fresh' => Fresh)
<1>1. /\ queue # <<>> /\ Head(queue).cmd = c /\ queue' = Tail(queue)
      /\ pc = "loop" /\ FileStays
  BY DEF Taken
<1>2. Head(queue) \in Cmds /\ Tail(queue) \in Seq(Cmds) /\ Head(queue) = queue[1]
  BY <1>1
<1>3. c # "refresh" => Head(queue) # Refresh
  BY <1>1 DEF Refresh, Cmd
<1>4. ASSUME c # "refresh", Fresh', NEW i \in DOMAIN queue PROVE queue[i] # Refresh
  <2>1. CASE i = 1
    BY <1>2, <1>3, <1>4, <2>1
  <2>2. CASE i # 1
    <3>1. i - 1 \in DOMAIN Tail(queue) /\ Tail(queue)[i - 1] = queue[i]
      BY <1>1, <1>4, <2>2
    <3> QED
      BY <1>1, <1>4, <3>1 DEF Fresh
  <2> QED
    BY <2>1, <2>2
<1> QED
  BY <1>1, <1>2, <1>3, <1>4 DEF Fresh

\* A click takes no Refresh out of the channel.
LEMMA ClickedIs ==
  ASSUME queue \in Seq(Cmds), NEW e \in Cmds, queue' = Append(queue, e)
  PROVE  queue' \in Seq(Cmds) /\ (Fresh' => Fresh)
<1>1. \A i \in DOMAIN queue : i \in DOMAIN queue' /\ queue'[i] = queue[i]
  OBVIOUS
<1> QED
  BY <1>1 DEF Fresh

-----------------------------------------------------------------------------
(* What the controller does to its model.                                  *)

\* A model that takes a phase over from STATE.
TakesOver(mm, i, c, a, k, e, ns) ==
  [mm EXCEPT !.inst = i, !.complete = c, !.avail = a, !.key = k, !.ierr = e,
             !.notices = ns]

\* It is a model still, and has the phase.
LEMMA ShownIs ==
  ASSUME NEW mm \in Models, NEW i \in LivePhases \cup EndPhases, NEW c \in BOOLEAN,
         NEW a \in BOOLEAN, NEW k \in BOOLEAN, NEW e \in {"none", "update", "security"},
         NEW ns \in SUBSET {"success", "cancelled"}
  PROVE  LET r == TakesOver(mm, i, c, a, k, e, ns)
         IN  /\ r \in Models /\ r.dialog = mm.dialog /\ r.pkg = mm.pkg /\ r.inst = i
             /\ r.ierr = e
<1>1. ASSUME NEW r \in Models
      PROVE  [r EXCEPT !.inst = i, !.complete = c, !.avail = a] \in Models
  BY DEF Models
<1>2. ASSUME NEW r \in Models PROVE [r EXCEPT !.key = k, !.ierr = e] \in Models
  BY DEF Models
<1>3. ASSUME NEW r \in Models PROVE [r EXCEPT !.notices = ns] \in Models
  BY DEF Models
<1> DEFINE r == TakesOver(mm, i, c, a, k, e, ns)
<1>4. r \in Models
  BY <1>1, <1>2, <1>3, Zenon DEF TakesOver
<1>5. r.dialog = mm.dialog /\ r.pkg = mm.pkg /\ r.inst = i /\ r.ierr = e
  BY DEF Models, TakesOver
<1> QED
  BY <1>4, <1>5

\* What a reading of STATE makes of a model and of ignore_terminal.
LooksPast(ig) == phase = "none" \/ (ig /\ ~(phase \in LivePhases))
Reading(rm, rig, mm, ig) ==
  /\ rm \in Models /\ rig \in BOOLEAN /\ rm.dialog = mm.dialog /\ rm.pkg = mm.pkg
  /\ LooksPast(ig) => rm.inst = mm.inst /\ rm.ierr = mm.ierr /\ rig = ig
  /\ ~LooksPast(ig) => /\ rm.inst = phase /\ rm.ierr # "start" /\ phase # "none"
                       /\ rig = (ig /\ ~(phase \in LivePhases))

\* apply_install does that.
LEMMA ApplyIs ==
  ASSUME phase \in Phases, keyFault \in BOOLEAN, NEW mm \in Models, NEW ig \in BOOLEAN
  PROVE  Reading(ApplyInstall(mm, ig).m, ApplyInstall(mm, ig).ig, mm, ig)
<1>1. CASE LooksPast(ig)
  <2>1. ApplyInstall(mm, ig) = [m |-> mm, ig |-> ig]
    BY <1>1, Zenon DEF ApplyInstall, LooksPast
  <2> QED
    BY <1>1, <2>1 DEF Reading
<1>2. CASE ~LooksPast(ig)
  <2> DEFINE kept == mm.notices
             notices == IF phase = "complete" /\ PanelActive(mm) THEN kept \cup {"success"}
                        ELSE IF phase = "cancelled" /\ mm.inst # phase
                             THEN kept \cup {"cancelled"}
                        ELSE kept
             ierr == IF phase # "failed" THEN "none"
                     ELSE IF keyFault THEN "security" ELSE "update"
             avail == IF phase = "failed" THEN mm.avail ELSE phase # "complete"
             complete == mm.complete \/ phase # "failed"
             key == phase = "failed" /\ keyFault
  <2> DEFINE shown == TakesOver(mm, phase, complete, avail, key, ierr, notices)
             past  == ig /\ ~(phase \in LivePhases)
  <2>0. ApplyInstall(mm, ig) = [ig |-> past, m |-> shown]
    BY <1>2, Zenon DEF ApplyInstall, TakesOver, LooksPast
  <2>3. complete \in BOOLEAN /\ key \in BOOLEAN
    OBVIOUS
  <2>4. avail \in BOOLEAN
    BY DEF Models
  <2>5. ierr \in {"none", "update", "security"}
    OBVIOUS
  <2>6. notices \in SUBSET {"success", "cancelled"}
    BY DEF Models
  <2>7. phase \in LivePhases \cup EndPhases
    BY <1>2 DEF Phases, LooksPast
  <2>8. past \in BOOLEAN
    OBVIOUS
  <2> HIDE DEF complete, avail, key, ierr, notices, shown, past
  <2>9. /\ shown \in Models /\ shown.dialog = mm.dialog /\ shown.pkg = mm.pkg
        /\ shown.inst = phase /\ shown.ierr = ierr
    BY <2>3, <2>4, <2>5, <2>6, <2>7, ShownIs DEF shown
  <2>10. ApplyInstall(mm, ig).m = shown /\ ApplyInstall(mm, ig).ig = past
    BY <2>0
  <2>11. Reading(shown, past, mm, ig)
    BY <1>2, <2>5, <2>8, <2>9 DEF Reading, past, LooksPast
  <2> QED
    BY <2>10, <2>11
<1> QED
  BY <1>1, <1>2

\* So does the controller when it reads STATE.
LEMMA ReadIs ==
  ASSUME phase \in Phases, keyFault \in BOOLEAN,
         NEW mm \in Models, NEW ig \in BOOLEAN, ReadInstall(mm, ig)
  PROVE  Reading(m', ignore', mm, ig)
  BY ApplyIs DEF ReadInstall

\* Checking for updates.
LEMMA CheckIs ==
  ASSUME NEW mm \in Models, ignore \in BOOLEAN, NEW restart \in BOOLEAN, Check(mm, restart)
  PROVE  /\ m' \in Models /\ ignore' \in BOOLEAN /\ pc' \in {"tail", "checking"}
         /\ m'.dialog = mm.dialog /\ m'.pkg = mm.pkg
         /\ \/ m' = mm /\ ignore' = ignore
            \/ ~PanelActive(mm) /\ m'.inst = "idle" /\ m'.ierr = "none" /\ ignore'
<1> DEFINE action == IF restart THEN mm.action ELSE "none"
           reset  == [mm EXCEPT
                        !.inst = "idle", !.notices = {}, !.key = FALSE, !.avail = FALSE,
                        !.complete = FALSE, !.ierr = "none", !.cerr = FALSE,
                        !.action = action]
<1>1. action \in {"none", "warning", "protected"}
  BY DEF Models
<1>2. \/ m' = mm /\ ignore' = ignore /\ pc' = "tail"
      \/ /\ ~PanelActive(mm) /\ ignore' = (ignore \/ IgnoresResult)
         /\ \/ m' = FailedCheck(reset) /\ pc' = "tail"
            \/ m' = [reset EXCEPT !.checking = TRUE] /\ pc' = "checking"
  BY DEF Check, Goto
<1> HIDE DEF action
<1>3. /\ reset \in Models /\ reset.dialog = mm.dialog /\ reset.pkg = mm.pkg
      /\ reset.inst = "idle" /\ reset.ierr = "none"
  BY <1>1 DEF Models
<1> HIDE DEF reset
<1>4. ASSUME m' = FailedCheck(reset) \/ m' = [reset EXCEPT !.checking = TRUE]
      PROVE  /\ m' \in Models /\ m'.dialog = mm.dialog /\ m'.pkg = mm.pkg
             /\ m'.inst = "idle" /\ m'.ierr = "none"
  BY <1>3, <1>4 DEF FailedCheck, Models
<1> QED
  BY <1>2, <1>3, <1>4 DEF IgnoresResult

\* Asking for an installation.
LEMMA InstallIs ==
  ASSUME NEW mm \in Models, ignore \in BOOLEAN, Install(mm)
  PROVE  /\ m' \in Models /\ ignore' \in BOOLEAN
         /\ m'.dialog = mm.dialog /\ m'.pkg = mm.pkg
         /\ \/ m' = mm /\ ignore' = ignore /\ pc' = "tail"
            \/ ~PanelActive(mm) /\ m'.inst = "starting" /\ m'.ierr = "none" /\ ignore'
               /\ pc' = "asking"
<1>1. CASE InstallAllowed(mm)
  <2>1. /\ m' = [mm EXCEPT !.inst = "starting", !.notices = {}, !.ierr = "none",
                           !.key = FALSE]
        /\ ignore' = TRUE /\ pc' = "asking"
    BY <1>1 DEF Install, Goto, IgnoresResult
  <2> QED
    BY <1>1, <2>1 DEF InstallAllowed, Models, LivePhases
<1>2. CASE ~InstallAllowed(mm)
  BY <1>2 DEF Install, Goto
<1> QED
  BY <1>1, <1>2

-----------------------------------------------------------------------------
(* Types.                                                                  *)

\* A panel that opens has a model, without a dialog.
LEMMA TypeInitial ==
  InitialModel \in Models /\ InitialModel.dialog = "none" /\ InitialModel.pkg = NoPkg
  BY DEF InitialModel, Models, NoPkg

\* Initially every variable has its type.
LEMMA TypeInit == Init => TypeOK
<1> SUFFICES ASSUME Init PROVE TypeOK
  OBVIOUS
<1>1. InitialModel \in Models /\ InitialModel.dialog = "none" /\ InitialModel.pkg = NoPkg
  BY TypeInitial
<1>2. queue = <<>> /\ queue \in Seq(Cmds)
  BY DEF Init
<1> QED
  BY <1>1, <1>2 DEF Init, LifeInit, TypeOK, PCs, Cmds

\* STATE and its watcher keep the types, and leave the controller alone.
LEMMA EnvIs ==
  ASSUME TypeOK, EnvStep
  PROVE  /\ phase' \in Phases /\ op' \in Nat /\ keyFault' \in BOOLEAN
         /\ UNCHANGED <<m, ignore, pc, removal>> /\ queue' \in Seq(Cmds)
         /\ slips' \subseteq {"missed", "fast"} /\ slips \subseteq slips'
         /\ phase # "none" => phase' # "none"
         /\ pc \notin {"closed", "opening"} => ~Fresh'
         /\ pc = "opening" => "missed" \in slips'
<1> USE DEF TypeOK, Phases, LivePhases, EndPhases
<1>0. queue \in Seq(Cmds)
  BY DEF Cmds
<1>1. ASSUME NEW end \in BOOLEAN, Slips(end)
      PROVE  /\ slips' \subseteq {"missed", "fast"} /\ slips \subseteq slips'
             /\ pc = "opening" => "missed" \in slips'
  BY <1>1 DEF Slips
<1>2. CASE OtherBegins
  <2>1. phase' = "starting" /\ op' \in Nat /\ keyFault' = FALSE
    BY <1>2 DEF OtherBegins, BeginFile, Begin
  <2>2. Watched /\ Slips(FALSE) /\ UNCHANGED <<m, ignore, pc, removal>>
    BY <1>2 DEF OtherBegins
  <2> QED
    BY <1>0, <1>1, <2>1, <2>2, WatchedIs
<1>3. CASE OtherCancels
  BY <1>0, <1>1, <1>3, WatchedIs DEF OtherCancels, Cancel
<1>4. CASE WorkerAdvances
  BY <1>0, <1>1, <1>4, WatchedIs DEF WorkerAdvances, Advance
<1>6. CASE WorkerEnds
  BY <1>0, <1>1, <1>6, WatchedIs DEF WorkerEnds, Complete, FailUpdate
<1>5. CASE OtherFileWritten
  BY <1>0, <1>5, NotifiedIs DEF OtherFileWritten, Fresh
<1> QED
  BY <1>2, <1>3, <1>4, <1>5, <1>6 DEF EnvStep

\* The user's steps keep the types.
LEMMA TypeUser ==
  ASSUME TypeOK, UserStep PROVE TypeOK'
<1>0. queue \in Seq(Cmds) /\ phase \in Phases /\ <<>> \in Seq(Cmds)
  BY DEF TypeOK, Cmds, Phases
<1>1. InitialModel \in Models /\ InitialModel.dialog = "none" /\ InitialModel.pkg = NoPkg
  BY TypeInitial
<1>2. CASE Open
  <2>1. m' \in Models /\ ignore' \in BOOLEAN /\ m'.dialog = "none" /\ m'.pkg = NoPkg
    BY <1>0, <1>1, <1>2, ReadIs DEF Open, TypeOK, Reading
  <2> QED
    BY <1>0, <1>2, <2>1 DEF Open, Goto, FileStays, TypeOK, PCs, Cmds
<1>3. CASE Close
  BY <1>0, <1>1, <1>3 DEF Close, Goto, FileStays, TypeOK, PCs, Cmds
<1>4. ASSUME NEW c \in Clicks, Clicked(c) PROVE TypeOK'
  <2>1. Cmd(c, m.pkg) \in Cmds
    BY PanelAssumption DEF Cmd, Cmds, TypeOK, Models
  <2>2. queue' \in Seq(Cmds)
    BY <1>0, <1>4, <2>1, ClickedIs DEF Clicked
  <2> QED
    BY <1>4, <2>2 DEF Clicked, FileStays, TypeOK, Cmds
<1> QED
  BY <1>2, <1>3, <1>4 DEF UserStep

\* A command is taken from the channel, not a Refresh.
LEMMA CommandTaken ==
  ASSUME queue \in Seq(Cmds),
         \/ DoNetwork \/ DoCheck \/ DoClear \/ DoInstall \/ DoCancel \/ DoRetry
         \/ \E allow \in BOOLEAN : DoResolve(allow)
  PROVE  /\ queue' \in Seq(Cmds) /\ FileStays /\ pc = "loop"
         /\ Head(queue) # Refresh /\ (Fresh' => Fresh)
<1>1. CASE DoNetwork
  <2>1. PICK up \in BOOLEAN : Taken(IF up THEN "online" ELSE "offline")
    BY <1>1 DEF DoNetwork
  <2>2. Taken("online") \/ Taken("offline")
    BY <2>1
  <2> QED
    BY <2>2, TakenIs
<1>2. ASSUME NEW allow \in BOOLEAN, DoResolve(allow)
      PROVE  Taken("allow") \/ Taken("deny")
  BY <1>2 DEF DoResolve
<1>3. CASE DoCheck \/ DoClear \/ DoInstall \/ DoCancel \/ DoRetry
  <2>1. \/ Taken("check") \/ Taken("clear") \/ Taken("install") \/ Taken("cancel")
        \/ Taken("retry")
    BY <1>3 DEF DoCheck, DoClear, DoInstall, DoCancel, DoRetry
  <2> QED
    BY <2>1, TakenIs
<1> QED
  BY <1>1, <1>2, <1>3, TakenIs

\* A command, and what it makes of the model.
LEMMA CommandIs ==
  ASSUME TypeOK,
         \/ DoNetwork \/ DoCheck \/ DoClear \/ DoInstall \/ DoCancel \/ DoRetry
         \/ \E allow \in BOOLEAN : DoResolve(allow)
  PROVE  /\ m' \in Models /\ ignore' \in BOOLEAN
         /\ m'.dialog = "none" <=> m'.pkg = NoPkg
         /\ pc' \in {"tail", "checking", "asking", "cancelling", "removing"}
         /\ pc' # "removing" => removal' = removal
         /\ pc' = "removing" => removal' \in Pkgs
         /\ slips' = slips
         /\ \/ /\ m'.inst = m.inst /\ m'.ierr = m.ierr /\ ignore' = ignore
               /\ pc' # "asking" /\ (pc' = "cancelling" => m.inst = "downloading")
            \/ ~PanelActive(m) /\ m'.inst = "idle" /\ m'.ierr = "none" /\ ignore'
               /\ pc' \notin {"asking", "cancelling"}
            \/ ~PanelActive(m) /\ m'.inst = "starting" /\ m'.ierr = "none" /\ ignore'
               /\ pc' = "asking"
<1>0. m \in Models /\ ignore \in BOOLEAN /\ (m.dialog = "none" <=> m.pkg = NoPkg)
  BY DEF TypeOK
<1>1. CASE DoNetwork
  BY <1>0, <1>1 DEF DoNetwork, Goto, Models
<1>2. CASE DoCheck
  BY <1>0, <1>2, CheckIs DEF DoCheck
<1>3. CASE DoClear
  BY <1>0, <1>3 DEF DoClear, Goto, Models
<1>4. CASE DoInstall
  BY <1>0, <1>4, InstallIs DEF DoInstall
<1>5. CASE DoCancel
  BY <1>0, <1>5 DEF DoCancel, Goto
<1>6. CASE DoRetry
  <2>1. CASE ~m.key
    BY <1>0, <1>6, <2>1 DEF DoRetry, Goto
  <2>2. CASE m.key /\ m.inst # "idle"
    BY <1>0, <1>6, <2>2, InstallIs DEF DoRetry
  <2>3. CASE m.key /\ m.inst = "idle"
    <3> DEFINE mm == [m EXCEPT !.key = FALSE]
    <3>1. /\ mm \in Models /\ mm.dialog = m.dialog /\ mm.pkg = m.pkg
          /\ mm.inst = m.inst /\ mm.ierr = m.ierr
      BY <1>0 DEF Models
    <3>2. Check(mm, FALSE) /\ UNCHANGED <<removal, slips>>
      BY <1>6, <2>3 DEF DoRetry
    <3> HIDE DEF mm
    <3> QED
      BY <1>0, <3>1, <3>2, CheckIs DEF PanelActive
  <2> QED
    BY <1>0, <2>1, <2>2, <2>3
<1>7. ASSUME NEW allow \in BOOLEAN, DoResolve(allow)
      PROVE  /\ m' \in Models /\ m'.inst = m.inst /\ m'.ierr = m.ierr /\ ignore' = ignore
             /\ m'.dialog = "none" /\ m'.pkg = NoPkg /\ slips' = slips
             /\ \/ pc' = "tail" /\ removal' = removal
                \/ pc' = "removing" /\ removal' \in Pkgs
  <2> DEFINE shut == [m EXCEPT !.dialog = "none", !.pkg = NoPkg]
  <2>1. /\ shut \in Models /\ shut.inst = m.inst /\ shut.ierr = m.ierr
        /\ shut.dialog = "none" /\ shut.pkg = NoPkg
    BY <1>0 DEF Models
  <2>2. ignore' = ignore /\ slips' = slips
    BY <1>7 DEF DoResolve
  <2>3. \/ /\ m.dialog = "warning" /\ m' = [shut EXCEPT !.action = "none", !.checking = TRUE]
           /\ removal' = m.pkg /\ pc' = "removing"
        \/ /\ pc' = "tail" /\ removal' = removal
           /\ \/ m' = shut
              \/ m' = [shut EXCEPT !.action = "protected"]
              \/ m' = [shut EXCEPT !.action = "warning", !.complete = FALSE,
                                   !.avail = FALSE, !.cerr = FALSE]
    BY <1>0, <1>7 DEF DoResolve, Goto, Models
  <2> HIDE DEF shut
  <2>4. m' \in Models /\ m'.inst = m.inst /\ m'.ierr = m.ierr
        /\ m'.dialog = "none" /\ m'.pkg = NoPkg
    BY <2>1, <2>3 DEF Models
  <2>5. m.dialog = "warning" => m.pkg \in Pkgs
    BY <1>0 DEF Models
  <2> QED
    BY <2>2, <2>3, <2>4, <2>5
<1> QED
  BY <1>0, <1>1, <1>2, <1>3, <1>4, <1>5, <1>6, <1>7

\* The steps that read STATE and nothing else.
LEMMA ReaderIs ==
  ASSUME TypeOK, DoRefresh \/ InstallReturns \/ CancelReturns
  PROVE  /\ Reading(m', ignore', m, ignore) /\ FileStays /\ removal' = removal
         /\ pc \in {"loop", "started", "cancelled"} /\ pc' = "tail"
         /\ queue' \in Seq(Cmds) /\ slips' \subseteq slips
<1>0. phase \in Phases /\ queue \in Seq(Cmds)
  BY DEF TypeOK, Phases, Cmds
<1>1. CASE DoRefresh
  BY <1>0, <1>1, ReadIs, TakenIs DEF DoRefresh, Goto, TypeOK
<1>2. CASE InstallReturns
  BY <1>0, <1>2, ReadIs DEF InstallReturns, Goto, TypeOK
<1>3. CASE CancelReturns
  BY <1>0, <1>3, ReadIs DEF CancelReturns, Goto, TypeOK
<1> QED
  BY <1>1, <1>2, <1>3

\* The tail of the loop reads STATE while an update is shown.
LEMMA TailIs ==
  ASSUME TypeOK, LoopTail
  PROVE  /\ m' \in Models /\ ignore' \in BOOLEAN
         /\ m'.dialog = m.dialog /\ m'.pkg = m.pkg
         /\ pc = "tail" /\ pc' = "loop" /\ FileStays /\ UNCHANGED <<removal, queue, slips>>
         /\ \/ PanelActive(m) /\ Reading(m', ignore', m, ignore)
            \/ ~PanelActive(m) /\ m'.inst = m.inst /\ m'.ierr = m.ierr /\ ignore' = ignore
<1> DEFINE r == IF PanelActive(m) THEN ApplyInstall(m, ignore)
                ELSE [m |-> m, ig |-> ignore]
<1>1. PICK expired \in SUBSET {"success", "cancelled"} :
        m' = [r.m EXCEPT !.notices = @ \ expired] /\ ignore' = r.ig
  BY DEF LoopTail
<1>2. PanelActive(m) => Reading(r.m, r.ig, m, ignore)
  BY ApplyIs DEF TypeOK, Phases
<1>3. ~PanelActive(m) => r.m = m /\ r.ig = ignore
  OBVIOUS
<1>4. r.m \in Models /\ r.ig \in BOOLEAN /\ r.m.dialog = m.dialog /\ r.m.pkg = m.pkg
  BY <1>2, <1>3 DEF Reading, TypeOK
<1>5. r.m.notices \ expired \in SUBSET {"success", "cancelled"}
  BY <1>4 DEF Models
<1> HIDE DEF r
<1>6. /\ m' \in Models /\ m'.dialog = r.m.dialog /\ m'.pkg = r.m.pkg
      /\ m'.inst = r.m.inst /\ m'.ierr = r.m.ierr
  <2>1. ASSUME NEW q \in Models, NEW left \in SUBSET {"success", "cancelled"}
        PROVE  /\ [q EXCEPT !.notices = left] \in Models
               /\ [q EXCEPT !.notices = left].dialog = q.dialog
               /\ [q EXCEPT !.notices = left].pkg = q.pkg
               /\ [q EXCEPT !.notices = left].inst = q.inst
               /\ [q EXCEPT !.notices = left].ierr = q.ierr
    BY DEF Models
  <2>2. m' = [r.m EXCEPT !.notices = r.m.notices \ expired]
    BY <1>1
  <2> QED
    BY <1>4, <1>5, <2>1, <2>2
<1>7. PanelActive(m) => Reading(m', ignore', m, ignore)
  BY <1>1, <1>2, <1>6 DEF Reading
<1> QED
  BY <1>1, <1>3, <1>4, <1>6, <1>7 DEF LoopTail, Goto

\* The end of a check says nothing of an installation.
LEMMA CheckEndIs ==
  ASSUME TypeOK, CheckReturns
  PROVE  /\ m' \in Models /\ m'.inst = m.inst /\ m'.ierr = m.ierr
         /\ m'.dialog = "none" <=> m'.pkg = NoPkg
         /\ pc = "checking" /\ pc' = "tail"
         /\ FileStays /\ UNCHANGED <<ignore, removal, queue, slips>>
<1> DEFINE over == [m EXCEPT !.checking = FALSE, !.complete = TRUE]
<1>0. m \in Models /\ (m.dialog = "none" <=> m.pkg = NoPkg)
  BY DEF TypeOK
<1>1. /\ over \in Models /\ over.inst = m.inst /\ over.ierr = m.ierr
      /\ over.dialog = m.dialog /\ over.pkg = m.pkg
  BY <1>0 DEF Models
<1>2. /\ FailedCheck(m) \in Models /\ FailedCheck(m).inst = m.inst
      /\ FailedCheck(m).ierr = m.ierr /\ FailedCheck(m).dialog = m.dialog
      /\ FailedCheck(m).pkg = m.pkg
  BY <1>0 DEF Models, FailedCheck
<1>3. ASSUME NEW q \in Models, NEW some \in BOOLEAN
      PROVE  /\ [q EXCEPT !.avail = some] \in Models
             /\ [q EXCEPT !.avail = some].inst = q.inst
             /\ [q EXCEPT !.avail = some].ierr = q.ierr
             /\ [q EXCEPT !.avail = some].dialog = q.dialog
             /\ [q EXCEPT !.avail = some].pkg = q.pkg
  BY DEF Models
<1>4. ASSUME NEW q \in Models
      PROVE  /\ [q EXCEPT !.key = TRUE, !.avail = FALSE] \in Models
             /\ [q EXCEPT !.key = TRUE, !.avail = FALSE].inst = q.inst
             /\ [q EXCEPT !.key = TRUE, !.avail = FALSE].ierr = q.ierr
             /\ [q EXCEPT !.key = TRUE, !.avail = FALSE].dialog = q.dialog
             /\ [q EXCEPT !.key = TRUE, !.avail = FALSE].pkg = q.pkg
  BY DEF Models
<1>5. ASSUME NEW kind \in {"warning", "protected"}, NEW p \in Pkgs, NEW some \in BOOLEAN,
             m' = [m EXCEPT !.checking = FALSE, !.complete = FALSE, !.avail = some,
                            !.dialog = kind, !.action = kind, !.pkg = p]
      PROVE  /\ m' \in Models /\ m'.inst = m.inst /\ m'.ierr = m.ierr
             /\ m'.dialog # "none" /\ m'.pkg # NoPkg
  <2>1. ASSUME NEW q \in Models
        PROVE  [q EXCEPT !.checking = FALSE, !.complete = FALSE, !.avail = some] \in Models
    BY DEF Models
  <2>2. ASSUME NEW q \in Models
        PROVE  [q EXCEPT !.dialog = kind, !.action = kind, !.pkg = p] \in Models
    BY DEF Models
  <2>3. m' \in Models
    BY <1>0, <1>5, <2>1, <2>2, Zenon
  <2>4. p # NoPkg /\ kind # "none"
    BY PanelAssumption DEF NoPkg
  <2>5. m'.inst = m.inst /\ m'.ierr = m.ierr /\ m'.dialog = kind /\ m'.pkg = p
    BY <1>0, <1>5 DEF Models
  <2> QED
    BY <2>3, <2>4, <2>5
<1>6. \/ m' = [FailedCheck(m) EXCEPT !.key = TRUE, !.avail = FALSE]
      \/ m' = over
      \/ m' = [over EXCEPT !.avail = TRUE]
      \/ \E some \in BOOLEAN : m' = [FailedCheck(m) EXCEPT !.avail = some]
      \/ \E kind \in {"warning", "protected"}, p \in Pkgs, some \in BOOLEAN :
           m' = [m EXCEPT !.checking = FALSE, !.complete = FALSE, !.avail = some,
                          !.dialog = kind, !.action = kind, !.pkg = p]
  BY DEF CheckReturns
<1> HIDE DEF over
<1>7. /\ m' \in Models /\ m'.inst = m.inst /\ m'.ierr = m.ierr
      /\ m'.dialog = "none" <=> m'.pkg = NoPkg
  <2> DEFINE failed == FailedCheck(m)
  <2>0. /\ failed \in Models /\ failed.inst = m.inst /\ failed.ierr = m.ierr
        /\ failed.dialog = m.dialog /\ failed.pkg = m.pkg
    BY <1>2
  <2>1. CASE m' = over
    BY <1>0, <1>1, <2>1
  <2>2. ASSUME NEW some \in BOOLEAN, m' = [over EXCEPT !.avail = some]
        PROVE  /\ m' \in Models /\ m'.inst = m.inst /\ m'.ierr = m.ierr
               /\ m'.dialog = "none" <=> m'.pkg = NoPkg
    BY <1>0, <1>1, <1>3, <2>2
  <2> HIDE DEF failed
  <2>3. ASSUME NEW some \in BOOLEAN, m' = [failed EXCEPT !.avail = some]
        PROVE  /\ m' \in Models /\ m'.inst = m.inst /\ m'.ierr = m.ierr
               /\ m'.dialog = "none" <=> m'.pkg = NoPkg
    BY <1>0, <1>3, <2>0, <2>3
  <2>4. CASE m' = [failed EXCEPT !.key = TRUE, !.avail = FALSE]
    BY <1>0, <1>4, <2>0, <2>4
  <2> QED
    BY <1>5, <1>6, <2>1, <2>2, <2>3, <2>4 DEF failed
<1> QED
  BY <1>7 DEF CheckReturns, Goto

\* What the helper does to STATE reaches the panel as a Refresh.
LEMMA HelperIs ==
  ASSUME TypeOK, HelperBegins \/ HelperFails \/ HelperCancels
  PROVE  /\ UNCHANGED <<m, ignore, removal>>
         /\ phase' \in Phases /\ phase' # "none" /\ op' \in Nat /\ keyFault' \in BOOLEAN
         /\ queue' \in Seq(Cmds) /\ ~Fresh' /\ slips' = slips
         /\ \/ pc = "asking" /\ pc' = "begun"
            \/ pc = "begun" /\ pc' = "startFailed"
            \/ pc = "cancelling" /\ pc' = "cancelled"
<1> USE DEF TypeOK, Phases, LivePhases, EndPhases, Goto
<1>0. queue \in Seq(Cmds)
  BY DEF Cmds
<1>1. CASE HelperBegins
  <2>1. phase' = "starting" /\ op' \in Nat /\ keyFault' = FALSE
    BY <1>1 DEF HelperBegins, BeginFile, Begin
  <2> QED
    BY <1>0, <1>1, <2>1, WatchedIs DEF HelperBegins
<1>2. CASE HelperFails
  BY <1>0, <1>2, WatchedIs DEF HelperFails, FailUpdate
<1>3. CASE HelperCancels
  BY <1>0, <1>3, WatchedIs DEF HelperCancels, Cancel
<1> QED
  BY <1>1, <1>2, <1>3

\* The steps of the thread that only go on.
LEMMA QuietIs ==
  ASSUME TypeOK, Watch \/ TimesOut \/ HelperStarts
  PROVE  /\ UNCHANGED <<m, ignore, removal, queue, slips>> /\ FileStays
         /\ \/ pc = "opening" /\ pc' = "loop"
            \/ pc = "loop" /\ pc' = "tail"
            \/ pc = "begun" /\ pc' = "started"
  BY DEF Watch, TimesOut, HelperStarts, Goto

\* Calls of the helper that fail, and the removal that returns.
LEMMA EndIs ==
  ASSUME TypeOK, InstallRefused \/ CancelFails \/ RemovalReturns
  PROVE  /\ m' \in Models /\ ignore' \in BOOLEAN /\ m'.dialog = m.dialog /\ m'.pkg = m.pkg
         /\ pc' \in {"tail", "checking"} /\ FileStays /\ UNCHANGED <<queue, slips>>
         /\ \/ /\ pc \in {"asking", "begun", "started", "startFailed"}
               /\ m'.inst = "failed" /\ m'.ierr = "start" /\ ignore' = ignore
               /\ removal' = removal
            \/ /\ pc \in {"cancelling", "cancelled"}
               /\ m'.inst = m.inst /\ m'.ierr = "cancel" /\ ignore' = ignore
               /\ removal' = removal
            \/ /\ pc = "removing" /\ removal' = NoPkg
               /\ \/ m'.inst = m.inst /\ m'.ierr = m.ierr /\ ignore' = ignore
                  \/ ~PanelActive(m) /\ m'.inst = "idle" /\ m'.ierr = "none" /\ ignore'
<1>0. m \in Models /\ ignore \in BOOLEAN
  BY DEF TypeOK
<1>1. CASE InstallRefused
  BY <1>0, <1>1 DEF InstallRefused, Goto, Models, EndPhases
<1>2. CASE CancelFails
  BY <1>0, <1>2 DEF CancelFails, Goto, Models
<1>3. CASE RemovalReturns
  <2> DEFINE mm == [m EXCEPT !.checking = FALSE]
             gone == [mm EXCEPT !.avail = FALSE]
  <2>1. /\ mm \in Models /\ mm.dialog = m.dialog /\ mm.pkg = m.pkg
        /\ mm.inst = m.inst /\ mm.ierr = m.ierr
    BY <1>0 DEF Models
  <2>2. \/ Check(mm, TRUE)
        \/ m' = FailedCheck(gone) /\ pc' = "tail" /\ UNCHANGED ignore
    BY <1>3 DEF RemovalReturns, Goto
  <2> HIDE DEF mm
  <2>3. /\ gone \in Models /\ gone.dialog = mm.dialog /\ gone.pkg = mm.pkg
        /\ gone.inst = mm.inst /\ gone.ierr = mm.ierr
    BY <2>1 DEF Models
  <2> HIDE DEF gone
  <2>4. CASE m' = FailedCheck(gone)
    <3>1. /\ m' \in Models /\ m'.dialog = gone.dialog /\ m'.pkg = gone.pkg
          /\ m'.inst = gone.inst /\ m'.ierr = gone.ierr
      BY <2>3, <2>4 DEF FailedCheck, Models
    <3> QED
      BY <1>0, <1>3, <2>1, <2>2, <2>3, <3>1, CheckIs DEF RemovalReturns, PanelActive
  <2>5. CASE Check(mm, TRUE)
    BY <1>0, <1>3, <2>1, <2>5, CheckIs DEF RemovalReturns, PanelActive
  <2> QED
    BY <2>2, <2>4, <2>5
<1> QED
  BY <1>1, <1>2, <1>3

\* No step takes a variable out of its type.
LEMMA TypeNext == TypeOK /\ [Next]_vars => TypeOK'
<1> SUFFICES ASSUME TypeOK, [Next]_vars PROVE TypeOK'
  OBVIOUS
<1>0. /\ phase \in Phases /\ op \in Nat /\ keyFault \in BOOLEAN /\ queue \in Seq(Cmds)
      /\ removal \in Pkgs \cup {NoPkg} /\ slips \subseteq {"missed", "fast"}
      /\ NoPkg \notin Pkgs
  BY PanelAssumption DEF TypeOK, Phases, Cmds, NoPkg
<1>1. CASE EnvStep
  BY <1>1, EnvIs DEF TypeOK, Phases, Cmds
<1>2. CASE UserStep
  BY <1>2, TypeUser
<1>3. CASE DoNetwork \/ DoCheck \/ DoClear \/ DoInstall \/ DoCancel \/ DoRetry
           \/ \E allow \in BOOLEAN : DoResolve(allow)
  <2>1. FileStays /\ queue' \in Seq(Cmds) /\ pc = "loop"
    BY <1>0, <1>3, CommandTaken
  <2>2. pc' \in PCs
    BY <1>3, CommandIs DEF PCs, InHelper
  <2>3. removal = NoPkg
    BY <2>1 DEF TypeOK
  <2>4. pc' = "removing" <=> removal' # NoPkg
    BY <1>0, <1>3, <2>3, CommandIs
  <2> QED
    BY <1>0, <1>3, <2>1, <2>2, <2>3, <2>4, CommandIs DEF FileStays, TypeOK, Phases, Cmds
<1>4. CASE DoRefresh \/ InstallReturns \/ CancelReturns
  BY <1>0, <1>4, ReaderIs DEF FileStays, TypeOK, Phases, Cmds, Reading, PCs
<1>5. CASE LoopTail
  BY <1>0, <1>5, TailIs DEF FileStays, TypeOK, Phases, Cmds, PCs
<1>6. CASE CheckReturns
  BY <1>0, <1>6, CheckEndIs DEF FileStays, TypeOK, Phases, Cmds, PCs
<1>7. CASE HelperBegins \/ HelperFails \/ HelperCancels
  BY <1>0, <1>7, HelperIs DEF TypeOK, Phases, Cmds, PCs, InHelper
<1>8. CASE Watch \/ TimesOut \/ HelperStarts
  BY <1>0, <1>8, QuietIs DEF FileStays, TypeOK, PCs, InHelper
<1>9. CASE InstallRefused \/ CancelFails \/ RemovalReturns
  BY <1>0, <1>9, EndIs DEF FileStays, TypeOK, Phases, Cmds, PCs, InHelper
<1>10. CASE UNCHANGED vars
  BY <1>10 DEF vars, panelVars, TypeOK
<1> QED
  BY <1>1, <1>2, <1>3, <1>4, <1>5, <1>6, <1>7, <1>8, <1>9, <1>10 DEF Next, ControllerStep

\* Every variable keeps its type, a dialog names its package and a package is
\* removed only while the helper is asked to.
THEOREM TypeCorrect == Spec => []TypeOK
  BY TypeInit, TypeNext, PTL DEF Spec

-----------------------------------------------------------------------------
(***************************************************************************)
(* What the panel owes to the past: while it shows no update, or why one   *)
(* did not start, it looks past the result that STATE holds, as it does    *)
(* while it asks for an installation.                                      *)
(***************************************************************************)
Installing == {"asking", "begun", "started", "startFailed"}
Past ==
  /\ pc = "closed" => m = InitialModel
  /\ m.inst = "idle" => ignore
  /\ m.ierr = "start" => ignore /\ m.inst = "failed"
  /\ pc \in Installing => ignore /\ m.inst = "starting"
  /\ pc \in {"cancelling", "cancelled"} => m.inst = "downloading"

\* No step brings an old result back within reach.
LEMMA PastNext == TypeOK /\ Past /\ [Next]_vars => Past'
<1> SUFFICES ASSUME TypeOK, Past, [Next]_vars PROVE Past'
  OBVIOUS
<1> USE DEF Installing, PanelActive, LivePhases, EndPhases
<1>1. CASE EnvStep
  BY <1>1, EnvIs DEF Past
<1>2. CASE Open
  <2>1. Reading(m', ignore', InitialModel, TRUE) /\ pc' = "opening"
    BY <1>2, ReadIs, TypeInitial DEF Open, Goto, TypeOK, Phases
  <2> QED
    BY <2>1 DEF Past, Reading, LooksPast, InitialModel, TypeOK
<1>3. CASE Close
  BY <1>3 DEF Close, Goto, Past, InitialModel
<1>4. CASE \E c \in Clicks : Clicked(c)
  BY <1>4 DEF Clicked, Past
<1>5. CASE DoNetwork \/ DoCheck \/ DoClear \/ DoInstall \/ DoCancel \/ DoRetry
           \/ \E allow \in BOOLEAN : DoResolve(allow)
  BY <1>5, CommandIs DEF Past
<1>0. ASSUME Reading(m', ignore', m, ignore), pc' \in {"tail", "loop"} PROVE Past'
  <2>1. CASE LooksPast(ignore)
    BY <1>0, <2>1 DEF Past, Reading
  <2>2. CASE ~LooksPast(ignore)
    <3>1. m'.inst = phase /\ phase \in LivePhases \cup EndPhases /\ m'.ierr # "start"
      BY <1>0, <2>2 DEF Reading, TypeOK
    <3> QED
      BY <1>0, <3>1 DEF Past
  <2> QED
    BY <2>1, <2>2
<1>6. CASE DoRefresh \/ InstallReturns \/ CancelReturns
  BY <1>0, <1>6, ReaderIs
<1>7. CASE LoopTail
  <2>1. CASE PanelActive(m) /\ Reading(m', ignore', m, ignore)
    BY <1>0, <1>7, <2>1, TailIs
  <2>2. CASE m'.inst = m.inst /\ m'.ierr = m.ierr /\ ignore' = ignore
    BY <1>7, <2>2, TailIs DEF Past
  <2> QED
    BY <1>7, <2>1, <2>2, TailIs
<1>8. CASE CheckReturns
  BY <1>8, CheckEndIs DEF Past
<1>9. CASE HelperBegins \/ HelperFails \/ HelperCancels
  BY <1>9, HelperIs DEF Past
<1>10. CASE Watch \/ TimesOut \/ HelperStarts
  BY <1>10, QuietIs DEF Past
<1>11. CASE InstallRefused \/ CancelFails \/ RemovalReturns
  BY <1>11, EndIs DEF Past
<1>12. CASE UNCHANGED vars
  BY <1>12 DEF vars, panelVars, Past
<1> QED
  BY <1>1, <1>2, <1>3, <1>4, <1>5, <1>6, <1>7, <1>8, <1>9, <1>10, <1>11, <1>12
     DEF Next, ControllerStep, UserStep

\* Initially the panel is closed.
LEMMA PastInit == Init => Past
  BY DEF Init, Past, InitialModel, Installing

\* An old result stays hidden, and the reason why an installation did not start
\* stays, for any clicks, checks, removals and updates of other panels.
THEOREM HidesOldResult == Spec => OldResultHidden
<1>1. TypeOK /\ Past /\ [Next]_vars
        => [/\ m.inst = "idle" => m'.inst \notin EndPhases
            /\ m.ierr = "start" => \/ m'.ierr = "start" \/ pc' = "closed"
                                   \/ PanelActive(m')
                                   \/ pc = "removing"
                                   \/ (pc = "loop" /\ Head(queue) # Refresh)]_vars
  <2> SUFFICES ASSUME TypeOK, Past, [Next]_vars
               PROVE  /\ m.inst = "idle" => m'.inst \notin EndPhases
                      /\ m.ierr = "start" => \/ m'.ierr = "start" \/ pc' = "closed"
                                             \/ PanelActive(m')
                                             \/ pc = "removing"
                                             \/ (pc = "loop" /\ Head(queue) # Refresh)
    OBVIOUS
  <2> DEFINE Kept == m'.inst = m.inst /\ m'.ierr = m.ierr
             Hidden == /\ m.inst = "idle" => m'.inst \notin EndPhases
                       /\ m.ierr = "start" => \/ m'.ierr = "start" \/ pc' = "closed"
                                              \/ PanelActive(m')
                                              \/ pc = "removing"
                                              \/ (pc = "loop" /\ Head(queue) # Refresh)
  <2> USE DEF Installing, LivePhases, EndPhases
  <2>0. ASSUME Kept PROVE Hidden
    BY <2>0
  <2>1. ASSUME Reading(m', ignore', m, ignore) PROVE Hidden
    <3>1. CASE LooksPast(ignore)
      BY <2>0, <2>1, <3>1 DEF Reading
    <3>2. CASE ~LooksPast(ignore)
      <4>1. m'.inst = phase
        BY <2>1, <3>2 DEF Reading
      <4>2. m.inst = "idle" \/ m.ierr = "start" => phase \in LivePhases
        BY <3>2 DEF Past, LooksPast
      <4> QED
        BY <4>1, <4>2 DEF PanelActive
    <3> QED
      BY <3>1, <3>2
  <2>2. CASE EnvStep
    BY <2>0, <2>2, EnvIs
  <2>3. CASE Open
    <3>1. Reading(m', ignore', InitialModel, TRUE) /\ m = InitialModel
      BY <2>3, ReadIs, TypeInitial DEF Open, TypeOK, Phases, Past
    <3> QED
      BY <3>1 DEF Reading, LooksPast, InitialModel
  <2>4. CASE Close
    BY <2>4 DEF Close, Goto, InitialModel
  <2>5. CASE \E c \in Clicks : Clicked(c)
    BY <2>0, <2>5 DEF Clicked
  <2>6. CASE DoNetwork \/ DoCheck \/ DoClear \/ DoInstall \/ DoCancel \/ DoRetry
             \/ \E allow \in BOOLEAN : DoResolve(allow)
    <3>1. queue \in Seq(Cmds)
      BY DEF TypeOK, Cmds
    <3>2. pc = "loop" /\ Head(queue) # Refresh
      BY <2>6, <3>1, CommandTaken
    <3>3. m.inst = "idle" => m'.inst \notin EndPhases
      BY <2>6, CommandIs
    <3> QED
      BY <3>2, <3>3
  <2>7. CASE DoRefresh \/ InstallReturns \/ CancelReturns
    BY <2>1, <2>7, ReaderIs
  <2>8. CASE LoopTail
    BY <2>0, <2>1, <2>8, TailIs
  <2>9. CASE CheckReturns
    BY <2>0, <2>9, CheckEndIs
  <2>10. CASE HelperBegins \/ HelperFails \/ HelperCancels
    BY <2>0, <2>10, HelperIs
  <2>11. CASE Watch \/ TimesOut \/ HelperStarts
    BY <2>0, <2>11, QuietIs
  <2>12. CASE InstallRefused \/ CancelFails \/ RemovalReturns
    BY <2>12, EndIs DEF Past
  <2>13. CASE UNCHANGED vars
    BY <2>0, <2>13 DEF vars, panelVars
  <2> QED
    BY <2>2, <2>3, <2>4, <2>5, <2>6, <2>7, <2>8, <2>9, <2>10, <2>11, <2>12, <2>13
       DEF Next, ControllerStep, UserStep
<1> QED
  BY <1>1, TypeInit, TypeNext, PastInit, PastNext, PTL DEF Spec, OldResultHidden

-----------------------------------------------------------------------------
(***************************************************************************)
(* Who has read what.  Unless a Refresh is on its way the panel shows what *)
(* STATE holds, at every place of its thread but within an installation,   *)
(* where nothing is under way before the helper has begun and a Refresh is *)
(* on its way from then on.                                                *)
(***************************************************************************)
Agrees == /\ phase \in LivePhases => m.inst = phase
          /\ PanelActive(m) /\ ~ignore => m.inst = phase
Sync ==
  /\ ~ignore => phase # "none"
  /\ pc # "closed" /\ "missed" \notin slips /\ Fresh => Agrees
  /\ pc = "asking" /\ Fresh => "missed" \in slips \/ phase \notin LivePhases
  /\ pc \in {"begun", "started", "startFailed"} => ~Fresh

\* Who reads STATE agrees with it.
LEMMA ReadAgrees ==
  ASSUME TypeOK, Sync, NEW mm \in Models, NEW ig \in BOOLEAN,
         Reading(m', ignore', mm, ig), phase' = phase, ~ig => phase # "none"
  PROVE  Agrees' /\ (~ignore' => phase' # "none")
<1>1. CASE LooksPast(ig)
  BY <1>1 DEF Reading, LooksPast, Agrees, LivePhases
<1>2. CASE ~LooksPast(ig)
  BY <1>2 DEF Reading, LooksPast, Agrees, LivePhases
<1> QED
  BY <1>1, <1>2

\* No step loses a write of STATE.
LEMMA SyncNext == TypeOK /\ Past /\ Sync /\ [Next]_vars => Sync'
<1> SUFFICES ASSUME TypeOK, Past, Sync, [Next]_vars PROVE Sync'
  OBVIOUS
<1>0. queue \in Seq(Cmds) /\ m \in Models /\ ignore \in BOOLEAN
  BY DEF TypeOK, Cmds
<1>1. CASE EnvStep
  <2>1. CASE pc \in {"closed", "opening"}
    BY <1>1, <2>1, EnvIs DEF Sync
  <2>2. CASE pc \notin {"closed", "opening"}
    BY <1>1, <2>2, EnvIs DEF Sync
  <2> QED
    BY <2>1, <2>2
<1>2. CASE Open
  <2>1. Reading(m', ignore', InitialModel, TRUE) /\ pc' = "opening" /\ phase' = phase
    BY <1>2, ReadIs, TypeInitial DEF Open, Goto, TypeOK, Phases, FileStays
  <2>2. Agrees' /\ (~ignore' => phase' # "none")
    BY <2>1, ReadAgrees, TypeInitial
  <2> QED
    BY <2>1, <2>2 DEF Sync
<1>3. CASE Close
  BY <1>3 DEF Close, Goto, Sync
<1>4. ASSUME NEW c \in Clicks, Clicked(c) PROVE Sync'
  <2>1. Cmd(c, m.pkg) \in Cmds
    BY PanelAssumption DEF Cmd, Cmds, TypeOK, Models
  <2>2. Fresh' => Fresh
    BY <1>0, <1>4, <2>1, ClickedIs DEF Clicked
  <2>3. UNCHANGED <<phase, m, ignore, pc, slips>>
    BY <1>4 DEF Clicked, FileStays
  <2>4. pc # "closed" /\ pc \in {"begun", "started", "startFailed"} => ~Fresh'
    BY <1>0, <1>4, <2>1, <2>2 DEF Sync
  <2> QED
    BY <2>2, <2>3, <2>4 DEF Sync, Agrees
<1>5. CASE DoNetwork \/ DoCheck \/ DoClear \/ DoInstall \/ DoCancel \/ DoRetry
           \/ \E allow \in BOOLEAN : DoResolve(allow)
  <2>1. FileStays /\ pc = "loop" /\ (Fresh' => Fresh)
    BY <1>0, <1>5, CommandTaken
  <2>2. pc' \notin {"begun", "started", "startFailed"} /\ slips' = slips
    BY <1>5, CommandIs
  <2>3. CASE m'.inst = m.inst /\ ignore' = ignore /\ pc' # "asking"
    BY <2>1, <2>2, <2>3 DEF Sync, Agrees, FileStays, PanelActive
  <2>4. CASE ~PanelActive(m) /\ ignore'
    <3>1. Fresh' /\ "missed" \notin slips' => phase' \notin LivePhases
      BY <2>1, <2>2, <2>4 DEF Sync, Agrees, FileStays, PanelActive
    <3> QED
      BY <2>1, <2>2, <2>4, <3>1 DEF Sync, Agrees
  <2> QED
    BY <1>5, <2>3, <2>4, CommandIs
<1>6. CASE DoRefresh \/ InstallReturns \/ CancelReturns
  <2>1. Agrees' /\ (~ignore' => phase' # "none")
    BY <1>0, <1>6, ReaderIs, ReadAgrees DEF FileStays, Sync
  <2> QED
    BY <1>6, <2>1, ReaderIs DEF Sync
<1>7. CASE LoopTail
  <2>1. CASE Reading(m', ignore', m, ignore)
    <3>1. Agrees' /\ (~ignore' => phase' # "none")
      BY <1>0, <1>7, <2>1, TailIs, ReadAgrees DEF FileStays, Sync
    <3> QED
      BY <1>7, <3>1, TailIs DEF Sync
  <2>2. CASE m'.inst = m.inst /\ ignore' = ignore
    BY <1>7, <2>2, TailIs DEF Sync, Agrees, FileStays, PanelActive, Fresh
  <2> QED
    BY <1>7, <2>1, <2>2, TailIs
<1>8. CASE CheckReturns
  BY <1>8, CheckEndIs DEF Sync, Agrees, FileStays, PanelActive, Fresh
<1>9. CASE HelperBegins \/ HelperFails \/ HelperCancels
  BY <1>9, HelperIs DEF Sync
<1>10. CASE Watch \/ TimesOut \/ HelperStarts
  BY <1>10, QuietIs DEF Sync, Agrees, FileStays, Fresh
<1>11. CASE InstallRefused \/ CancelFails \/ RemovalReturns
  <2>1. FileStays /\ UNCHANGED <<queue, slips>> /\ pc' \in {"tail", "checking"}
    BY <1>11, EndIs
  <2>2. Fresh' = Fresh
    BY <2>1 DEF Fresh
  <2>3. CASE m'.inst = m.inst /\ ignore' = ignore /\ pc # "closed"
    BY <2>1, <2>2, <2>3 DEF Sync, Agrees, FileStays, PanelActive
  <2>4. CASE ~PanelActive(m) /\ m'.inst = "idle" /\ ignore' /\ pc = "removing"
    BY <2>1, <2>2, <2>4 DEF Sync, Agrees, FileStays, PanelActive
  <2>5. CASE pc \in Installing /\ ignore' = ignore
    BY <2>1, <2>2, <2>5 DEF Sync, Past, Installing, Agrees, FileStays
  <2> QED
    BY <1>11, <2>3, <2>4, <2>5, EndIs DEF Installing
<1>12. CASE UNCHANGED vars
  BY <1>12 DEF vars, panelVars, Sync, Agrees, Fresh
<1> QED
  BY <1>1, <1>2, <1>3, <1>4, <1>5, <1>6, <1>7, <1>8, <1>9, <1>10, <1>11, <1>12
     DEF Next, ControllerStep, UserStep

\* No write of STATE gets lost between the reads of the controller: when it waits
\* with nothing to read it shows what STATE holds, for any clicks and panels.
THEOREM StaysInSync == Spec => []InSync
<1>1. Init => Sync
  BY DEF Init, Sync
<1>2. Sync => InSync
  BY DEF Sync, InSync, Agrees, Fresh
<1> QED
  BY <1>1, <1>2, TypeInit, TypeNext, PastInit, PastNext, SyncNext, PTL DEF Spec
=============================================================================

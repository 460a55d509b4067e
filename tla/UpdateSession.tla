---------------------------- MODULE UpdateSession ----------------------------
(***************************************************************************)
(* One system update: the privileged helper (flu-service/src/helper.rs),   *)
(* the systemd unit flufflinux-update.service, its worker                  *)
(* (flu-service/src/worker.rs), the pacman processes they spawn and the    *)
(* two files they share, the JSON state file STATE and pacman's db.lck     *)
(* LOCK.  Every helper call and the worker advance in the steps at which   *)
(* the code reads or writes something another process can see.             *)
(***************************************************************************)
EXTENDS Naturals, FiniteSets

CONSTANTS Helpers,            \* helper processes that may run at one time
          Kinds,              \* the helper commands in use
          Keys,               \* signing keys pacman may ask for, by fingerprint
          MaxFileRecoveries,  \* 25 in the code (worker.rs:446)
          MaxOps,             \* bound: installations written in a behaviour
          MaxCrashes,         \* bound: worker crashes and reboots
          Perils              \* which of AllPerils the environment shows

Unit == "unit"   \* owner of the pacman the worker runs
Ext  == "ext"    \* owner of a pacman nobody here started
Owners == Helpers \cup {Unit, Ext}

(***************************************************************************)
(* external : somebody else may run pacman at any time                     *)
(* timeout  : systemctl may do its job and still be given up by run()      *)
(* pidreuse : a dead worker's pid may belong to another process            *)
(* diskfull : STATE may fail to be written, LOCK to be removed             *)
(* haste    : a helper may run while a worker is between exec and its      *)
(*            first publish, or between its last publish and its exit      *)
(***************************************************************************)
AllPerils == {"external", "timeout", "pidreuse", "diskfull", "haste"}

ASSUME SessionAssumption ==
  /\ Unit \notin Helpers /\ Ext \notin Helpers
  /\ "free" \notin Helpers /\ "stale" \notin Helpers
  /\ Kinds \subseteq {"install", "cancel", "remove"}
  /\ Keys \cap {"none", "foreign", "invalid"} = {}
  /\ MaxFileRecoveries \in Nat /\ MaxOps \in Nat /\ MaxCrashes \in Nat
  /\ Perils \subseteq AllPerils

VARIABLES
  state,      \* the content of STATE
  lock,       \* "free", the owner of LOCK, or "stale" when its owner died
  pac,        \* the pacman process of each owner
  unit,       \* flufflinux-update.service, as systemd sees it
  worker,     \* the worker process
  helper,     \* the helper processes
  starts,     \* workers started so far; the pid of the latest
  ops,        \* installations written so far; the latest operation_id
  crashes,    \* crashes so far
  installed,  \* history: operations whose installing pacman succeeded
  tries       \* history: recoveries of each key by this worker, up to 2
vars == <<state, lock, pac, unit, worker, helper, starts, ops, crashes,
          installed, tries>>

ActivePhases == {"starting", "downloading", "installing"}
Terminal     == {"complete", "failed", "cancelled"}
Phases       == ActivePhases \cup Terminal \cup {"none"}
States       == [phase : Phases, op : Nat, pid : Nat]
EmptyState   == [phase |-> "none", op |-> 0, pid |-> 0]
Active(s)    == s.phase \in ActivePhases

Stages     == {"prepare", "download", "install"}
\* Mutant: installing is not announced.
StagePhaseForgotten == [s \in Stages |-> IF s = "prepare" THEN "starting"
                                         ELSE "downloading"]

StagePhase == [s \in Stages |-> CASE s = "prepare"  -> "starting"
                                  [] s = "download" -> "downloading"
                                  [] s = "install"  -> "installing"]
WorkerPCs == {"dead", "boot", "inhibit", "publish", "spawn", "wait",
              "recover", "conflict", "preserved", "unlock", "exit"}
NoWorker  == [pc |-> "dead", stage |-> "prepare", mem |-> EmptyState,
              attempted |-> {}, files |-> 0]
Alive     == worker.pc # "dead"

HelperPCs == {"idle", "install", "scan", "unlock", "write", "start",
              "startFailed", "cancel", "stop", "stopping", "cancelScan",
              "cancelUnlock", "cancelWrite", "remove", "removeUnlock",
              "removeSpawn", "removeWait"}
Removing   == {"removeUnlock", "removeSpawn", "removeWait"}
IdleHelper == [pc |-> "idle", snap |-> EmptyState]

Exited   == {"ok", "error", "busy"}
Absent   == [st |-> "absent", writes |-> FALSE]
Live(o)  == pac[o].st \in {"started", "holding"}
Holds(o) == pac[o].st = "holding"

\* Mutant: the scan of /proc finds nothing.
ScanMisses == FALSE

\* A finished pacman keeps its /proc entry until its parent reaps it.
PacmanRunning == \E o \in Owners : pac[o].st # "absent"

\* Mutants: the pid is not probed at all; a recorded pid is taken for a live one.
NeverAlive(pid)   == {FALSE}
AlwaysAlive(pid)  == {pid # 0}

\* What kill(pid, 0) may answer for a recorded pid; 0 stands for no pid.
AliveAnswers(pid) ==
  IF pid = 0 THEN {FALSE}
  ELSE IF Alive /\ pid = worker.mem.pid THEN {TRUE}
  ELSE IF "pidreuse" \in Perils THEN BOOLEAN ELSE {FALSE}

\* STATE becomes s; the worker never looks at the result of the write.
Written(s) == \/ state' = s
              \/ "diskfull" \in Perils /\ UNCHANGED state

\* LOCK goes when pacman o dies without unlinking it, or it stays behind.
LockAfterKill(o) ==
  IF lock = o /\ Holds(o) THEN lock' \in {"free", "stale"} ELSE UNCHANGED lock

Init == /\ state = EmptyState
        /\ lock = "free"
        /\ pac = [o \in Owners |-> Absent]
        /\ unit = "inactive"
        /\ worker = NoWorker
        /\ helper = [h \in Helpers |-> IdleHelper]
        /\ starts = 0 /\ ops = 0 /\ crashes = 0
        /\ installed = {}
        /\ tries = [k \in Keys |-> 0]

-----------------------------------------------------------------------------
(* Pacman.  It creates LOCK exclusively, gives up when LOCK exists, and    *)
(* unlinks LOCK by its path when it ends, whoever created it.              *)

PacmanLock(o) ==
  /\ pac[o].st = "started" /\ lock = "free"
  /\ pac' = [pac EXCEPT ![o].st = "holding"]
  /\ lock' = o
  /\ UNCHANGED <<state, unit, worker, helper, starts, ops, crashes, installed,
                 tries>>

PacmanBusy(o) ==
  /\ pac[o].st = "started" /\ lock # "free"
  /\ pac' = [pac EXCEPT ![o].st = "busy"]
  /\ UNCHANGED <<state, lock, unit, worker, helper, starts, ops, crashes,
                 installed, tries>>

PacmanExit(o) ==
  /\ Holds(o)
  /\ \E outcome \in {"ok", "error"} :
       /\ pac' = [pac EXCEPT ![o].st = outcome]
       /\ installed' = IF o = Unit /\ pac[o].writes /\ outcome = "ok"
                       THEN installed \cup {worker.mem.op} ELSE installed
  /\ lock' = "free"
  /\ UNCHANGED <<state, unit, worker, helper, starts, ops, crashes, tries>>

PacmanFinishes(o) == PacmanLock(o) \/ PacmanBusy(o) \/ PacmanExit(o)

ExternalStart ==
  /\ "external" \in Perils /\ pac[Ext] = Absent
  /\ pac' = [pac EXCEPT ![Ext] = [st |-> "started", writes |-> TRUE]]
  /\ UNCHANGED <<state, lock, unit, worker, helper, starts, ops, crashes,
                 installed, tries>>

ExternalReaped ==
  /\ pac[Ext].st \in Exited
  /\ pac' = [pac EXCEPT ![Ext] = Absent]
  /\ UNCHANGED <<state, lock, unit, worker, helper, starts, ops, crashes,
                 installed, tries>>

-----------------------------------------------------------------------------
(* The worker.                                                             *)

WorkerStays == UNCHANGED <<unit, helper, starts, ops, crashes, installed>>

\* Mutant: the failure is not published.
FailSilently == worker' = [worker EXCEPT !.pc = "exit"] /\ UNCHANGED state

\* fail(): publish the failed phase; main then drops the inhibitor and ends.
Fail == LET m == [worker.mem EXCEPT !.phase = "failed"]
        IN  /\ worker' = [worker EXCEPT !.mem = m, !.pc = "exit"]
            /\ Written(m)

\* Worker::new reads STATE once; everything it publishes is that copy.
WorkerNew ==
  /\ worker.pc = "boot"
  /\ worker' = [worker EXCEPT !.pc = "inhibit",
                              !.mem = [state EXCEPT !.pid = starts]]
  /\ UNCHANGED <<state, lock, pac, tries>> /\ WorkerStays

AcquireInhibitor ==
  /\ worker.pc = "inhibit"
  /\ \/ worker' = [worker EXCEPT !.pc = "publish"] /\ UNCHANGED state
     \/ Fail
  /\ UNCHANGED <<lock, pac, tries>> /\ WorkerStays

\* The head of each stage's loop: the stage's phase is published ...
PublishStage ==
  /\ worker.pc = "publish"
  /\ LET m == [worker.mem EXCEPT !.phase = StagePhase[worker.stage]]
     IN  /\ worker' = [worker EXCEPT !.mem = m, !.pc = "spawn"]
         /\ Written(m)
  /\ UNCHANGED <<lock, pac, tries>> /\ WorkerStays

\* ... and pacman is spawned.
SpawnPacman ==
  /\ worker.pc = "spawn"
  /\ \/ /\ worker' = [worker EXCEPT !.pc = "wait"]
        /\ pac' = [pac EXCEPT ![Unit] =
                     [st |-> "started", writes |-> worker.stage = "install"]]
        /\ UNCHANGED state
     \/ Fail /\ UNCHANGED pac
  /\ UNCHANGED <<lock, tries>> /\ WorkerStays

\* Progress: the in-memory state is written as a whole, again and again.
PublishProgress ==
  /\ worker.pc = "wait" /\ worker.stage # "prepare"
  /\ state # worker.mem
  /\ Written(worker.mem)
  /\ UNCHANGED <<lock, pac, worker, tries>> /\ WorkerStays

\* Mutant: any exit status will do.
AnyStatus == pac[Unit].st \in Exited

Succeeded == pac[Unit].st = "ok"

\* Exit status 0 and a usable database: the next stage, or the end.
StageSucceeds ==
  /\ worker.pc = "wait" /\ Succeeded
  /\ pac' = [pac EXCEPT ![Unit] = Absent]
  /\ CASE worker.stage = "prepare" ->
            /\ worker' = [worker EXCEPT !.stage = "download", !.pc = "publish"]
            /\ UNCHANGED state
       [] worker.stage = "download" ->
            /\ worker' = [worker EXCEPT !.stage = "install", !.pc = "publish"]
            /\ UNCHANGED state
       [] worker.stage = "install" ->
            LET m == [worker.mem EXCEPT !.phase = "complete"]
            IN  /\ worker' = [worker EXCEPT !.mem = m, !.pc = "exit"]
                /\ Written(m)
  /\ UNCHANGED <<lock, tries>> /\ WorkerStays

(***************************************************************************)
(* recover_signing_key on the output of a failed pacman: "none" is not a   *)
(* key error, "foreign" an unknown key of another or no repository,        *)
(* "invalid" an unusable fingerprint; a key is tried once per worker.      *)
(***************************************************************************)
Reports == {"none", "foreign", "invalid"} \cup Keys

\* Mutant: the attempt is not recorded.
RecoverKeyAgain(k) ==
  /\ k \in Keys \ worker.attempted
  /\ worker' = [worker EXCEPT !.pc = "recover"]
  /\ tries' = [tries EXCEPT ![k] = IF @ < 2 THEN @ + 1 ELSE @]
  /\ UNCHANGED state

RecoverKey(k) ==
  /\ k \in Keys \ worker.attempted
  /\ worker' = [worker EXCEPT !.pc = "recover",
                              !.attempted = worker.attempted \cup {k}]
  /\ tries' = [tries EXCEPT ![k] = IF @ < 2 THEN @ + 1 ELSE @]
  /\ UNCHANGED state

\* What follows a failed pacman, by stage and report.
Handle(report) ==
  \/ RecoverKey(report)
  \/ /\ report \in {"foreign", "invalid"} \cup worker.attempted
     /\ Fail /\ UNCHANGED tries
  \/ /\ report = "none"
     /\ \/ Fail
        \/ /\ worker.stage = "install"
           /\ worker' = [worker EXCEPT !.pc = "conflict"] /\ UNCHANGED state
     /\ UNCHANGED tries

StageFails ==
  /\ worker.pc = "wait"
  /\ \E report \in Reports :
       /\ \/ pac[Unit].st = "error"
          \/ pac[Unit].st = "ok"       \* exit 0, but the database is unusable
          \/ pac[Unit].st = "busy" /\ report = "none"
       /\ Handle(report)
  /\ pac' = [pac EXCEPT ![Unit] = Absent]
  /\ UNCHANGED lock /\ WorkerStays

\* 120 s over in prepare, or 5 s over for an answer in install: SIGKILL.
StagePacmanStopped ==
  /\ worker.pc = "wait" /\ Live(Unit)
  /\ \/ worker.stage = "prepare" /\ \E report \in Reports : Handle(report)
     \/ worker.stage = "install" /\ Fail /\ UNCHANGED tries
  /\ pac' = [pac EXCEPT ![Unit] = Absent]
  /\ LockAfterKill(Unit)
  /\ WorkerStays

KeyRecovered ==
  /\ worker.pc = "recover"
  /\ \/ worker' = [worker EXCEPT !.pc = "publish"] /\ Written(worker.mem)
     \/ Fail
  /\ UNCHANGED <<lock, pac, tries>> /\ WorkerStays

\* Mutant: one recovery too many.
OneMoreRecovery == worker.files <= MaxFileRecoveries

RecoveryLeft == worker.files < MaxFileRecoveries

(***************************************************************************)
(* file_conflict.  No guard but these decides which file is renamed: it    *)
(* must exist and pacman must own no package with it.                      *)
(***************************************************************************)
PreserveFile ==
  /\ worker.pc = "conflict"
  /\ \/ /\ RecoveryLeft /\ ~PacmanRunning
        /\ worker' = [worker EXCEPT !.pc = "preserved",
                                    !.files = worker.files + 1,
                                    !.mem.phase = "installing"]
        /\ UNCHANGED state
     \/ Fail      \* the limit, no such file, an owned file, a failed rename
  /\ UNCHANGED <<lock, pac, tries>> /\ WorkerStays

RescanAfterPreserve ==
  /\ worker.pc = "preserved"
  /\ IF PacmanRunning THEN Fail
     ELSE worker' = [worker EXCEPT !.pc = "unlock"] /\ UNCHANGED state
  /\ UNCHANGED <<lock, pac, tries>> /\ WorkerStays

UnlockAfterPreserve ==
  /\ worker.pc = "unlock"
  /\ lock' = "free"
  /\ worker' = [worker EXCEPT !.pc = "publish"]
  /\ Written(worker.mem)
  /\ UNCHANGED <<pac, tries>> /\ WorkerStays

WorkerExit ==
  /\ worker.pc = "exit"
  /\ worker' = NoWorker
  /\ unit' = "stopping"
  /\ UNCHANGED <<state, lock, pac, helper, starts, ops, crashes, installed,
                 tries>>

WorkerStep == \/ WorkerNew \/ AcquireInhibitor \/ PublishStage \/ SpawnPacman
              \/ StageSucceeds \/ StageFails \/ StagePacmanStopped
              \/ KeyRecovered \/ PreserveFile \/ RescanAfterPreserve
              \/ UnlockAfterPreserve \/ WorkerExit

-----------------------------------------------------------------------------
(* systemd: KillMode=control-group kills the worker and its pacman.        *)

KillWorker ==
  /\ unit = "stopping" /\ Alive
  /\ worker' = NoWorker
  /\ UNCHANGED <<state, lock, pac, unit, helper, starts, ops, crashes,
                 installed, tries>>

KillPacman ==
  /\ unit = "stopping" /\ pac[Unit].st # "absent"
  /\ pac' = [pac EXCEPT ![Unit] = Absent]
  /\ LockAfterKill(Unit)
  /\ UNCHANGED <<state, unit, worker, helper, starts, ops, crashes, installed,
                 tries>>

UnitStopped ==
  /\ unit = "stopping" /\ ~Alive /\ pac[Unit].st = "absent"
  /\ unit' = "inactive"
  /\ UNCHANGED <<state, lock, pac, worker, helper, starts, ops, crashes,
                 installed, tries>>

SystemdStep == KillWorker \/ KillPacman \/ UnitStopped

\* The worker panics or is killed; its pacman outlives it for a while.
WorkerCrash ==
  /\ crashes < MaxCrashes /\ Alive
  /\ crashes' = crashes + 1
  /\ worker' = NoWorker
  /\ unit' = "stopping"
  /\ UNCHANGED <<state, lock, pac, helper, starts, ops, installed, tries>>

\* The machine stops: the files are what is left.
Reboot ==
  /\ crashes < MaxCrashes
  /\ crashes' = crashes + 1
  /\ worker' = NoWorker
  /\ unit' = "inactive"
  /\ pac' = [o \in Owners |-> Absent]
  /\ lock' = IF lock = "free" THEN "free" ELSE "stale"
  /\ helper' = [h \in Helpers |-> IdleHelper]
  /\ UNCHANGED <<state, starts, ops, installed, tries>>

-----------------------------------------------------------------------------
(* The helper: one process per call, "idle" between calls.                 *)

Go(h, pc) == helper' = [helper EXCEPT ![h].pc = pc]
Done(h)   == helper' = [helper EXCEPT ![h] = IdleHelper]
HelperStays == UNCHANGED <<unit, worker, starts, ops, crashes, installed,
                           tries>>

\* STATE shows the worker there is, or there is none.
Steady == ~Alive \/ (Active(state) /\ state.pid = starts)

\* MaxOps bounds the installations asked for.
Asked == {h \in Helpers : helper[h].pc \in {"install", "scan", "unlock", "write"}}

Request(h, kind) ==
  /\ helper[h].pc = "idle" /\ kind \in Kinds
  /\ kind = "install" => ops + Cardinality(Asked) < MaxOps
  /\ Go(h, kind)
  /\ UNCHANGED <<state, lock, pac>> /\ HelperStays

\* start_installation: an operation of a live worker is left alone ...
InstallRead(h) ==
  /\ helper[h].pc = "install"
  /\ "haste" \in Perils \/ Steady
  /\ \E alive \in AliveAnswers(state.pid) :
       IF Active(state) /\ alive THEN Done(h) ELSE Go(h, "scan")
  /\ UNCHANGED <<state, lock, pac>> /\ HelperStays

\* ... and so is any other pacman.
InstallScan(h) ==
  /\ helper[h].pc = "scan"
  /\ IF PacmanRunning THEN Done(h) ELSE Go(h, "unlock")
  /\ UNCHANGED <<state, lock, pac>> /\ HelperStays

InstallUnlock(h) ==
  /\ helper[h].pc = "unlock"
  /\ lock' = "free"
  /\ Go(h, "write")
  /\ UNCHANGED <<state, pac>> /\ HelperStays

\* A new state with a new operation_id and no worker_pid.
InstallWrite(h) ==
  /\ helper[h].pc = "write"
  /\ ops' = ops + 1
  /\ LET new == [phase |-> "starting", op |-> ops + 1, pid |-> 0]
     IN  \/ /\ state' = new
            /\ helper' = [helper EXCEPT ![h] = [pc |-> "start", snap |-> new]]
         \/ "diskfull" \in Perils /\ UNCHANGED state /\ Done(h)
  /\ UNCHANGED <<lock, pac, unit, worker, starts, crashes, installed, tries>>

\* systemctl start: waits for a stop under way, does nothing when active.
StartUnit ==
  /\ unit = "inactive"
  /\ starts' = starts + 1
  /\ unit' = "active"
  /\ worker' = [NoWorker EXCEPT !.pc = "boot"]
  /\ tries' = [k \in Keys |-> 0]

InstallStart(h) ==
  /\ helper[h].pc = "start"
  /\ \/ StartUnit /\ Done(h)
     \/ /\ unit = "active" /\ Done(h)
        /\ UNCHANGED <<unit, worker, starts, tries>>
     \/ /\ Go(h, "startFailed")
        /\ UNCHANGED <<unit, worker, starts, tries>>
     \/ "timeout" \in Perils /\ StartUnit /\ Go(h, "startFailed")
  /\ UNCHANGED <<state, lock, pac, ops, crashes, installed>>

InstallFailed(h) ==
  /\ helper[h].pc = "startFailed"
  /\ Written([helper[h].snap EXCEPT !.phase = "failed"])
  /\ Done(h)
  /\ UNCHANGED <<lock, pac>> /\ HelperStays

\* cancel_installation: what STATE says now is what it writes back later.
CancelRead(h) ==
  /\ helper[h].pc = "cancel"
  /\ IF state.phase = "downloading"
     THEN helper' = [helper EXCEPT ![h] = [pc |-> "stop", snap |-> state]]
     ELSE Done(h)
  /\ UNCHANGED <<state, lock, pac>> /\ HelperStays

CancelStop(h) ==
  /\ helper[h].pc = "stop"
  /\ unit' = IF unit = "active" THEN "stopping" ELSE unit
  /\ Go(h, "stopping")
  /\ UNCHANGED <<state, lock, pac, worker, starts, ops, crashes, installed,
                 tries>>

\* Mutant: the stop is not waited for.
CancelNotAwaited(h) ==
  /\ helper[h].pc = "stopping"
  /\ Go(h, "cancelWrite")
  /\ UNCHANGED <<state, lock, pac>> /\ HelperStays

\* systemctl returns when the unit is down, or is given up after 5 s.
CancelStopped(h) ==
  /\ helper[h].pc = "stopping"
  /\ \/ unit = "inactive" /\ Go(h, "cancelScan")
     \/ "timeout" \in Perils /\ Done(h)
  /\ UNCHANGED <<state, lock, pac>> /\ HelperStays

CancelScan(h) ==
  /\ helper[h].pc = "cancelScan"
  /\ IF PacmanRunning THEN Done(h) ELSE Go(h, "cancelUnlock")
  /\ UNCHANGED <<state, lock, pac>> /\ HelperStays

CancelUnlock(h) ==
  /\ helper[h].pc = "cancelUnlock"
  /\ \/ lock' = "free" /\ Go(h, "cancelWrite")
     \/ "diskfull" \in Perils /\ lock # "free" /\ UNCHANGED lock /\ Done(h)
  /\ UNCHANGED <<state, pac>> /\ HelperStays

CancelWrite(h) ==
  /\ helper[h].pc = "cancelWrite"
  /\ Written([helper[h].snap EXCEPT !.phase = "cancelled"])
  /\ Done(h)
  /\ UNCHANGED <<lock, pac>> /\ HelperStays

\* remove_package: the same check, the same unlock, then pacman -Rdd.
RemoveScan(h) ==
  /\ helper[h].pc = "remove"
  /\ IF PacmanRunning THEN Done(h) ELSE Go(h, "removeUnlock")
  /\ UNCHANGED <<state, lock, pac>> /\ HelperStays

RemoveUnlock(h) ==
  /\ helper[h].pc = "removeUnlock"
  /\ lock' = "free"
  /\ Go(h, "removeSpawn")
  /\ UNCHANGED <<state, pac>> /\ HelperStays

RemoveSpawn(h) ==
  /\ helper[h].pc = "removeSpawn"
  /\ pac' = [pac EXCEPT ![h] = [st |-> "started", writes |-> TRUE]]
  /\ Go(h, "removeWait")
  /\ UNCHANGED <<state, lock>> /\ HelperStays

RemoveReap(h) ==
  /\ helper[h].pc = "removeWait" /\ pac[h].st \in Exited
  /\ pac' = [pac EXCEPT ![h] = Absent]
  /\ Done(h)
  /\ UNCHANGED <<state, lock>> /\ HelperStays

HelperStep(h) ==
  \/ InstallRead(h) \/ InstallScan(h) \/ InstallUnlock(h) \/ InstallWrite(h)
  \/ InstallStart(h) \/ InstallFailed(h)
  \/ CancelRead(h) \/ CancelStop(h) \/ CancelStopped(h) \/ CancelScan(h)
  \/ CancelUnlock(h) \/ CancelWrite(h)
  \/ RemoveScan(h) \/ RemoveUnlock(h) \/ RemoveSpawn(h) \/ RemoveReap(h)

-----------------------------------------------------------------------------
Next == \/ \E o \in Owners : PacmanFinishes(o)
        \/ ExternalStart \/ ExternalReaped
        \/ WorkerStep \/ PublishProgress
        \/ SystemdStep \/ WorkerCrash \/ Reboot
        \/ \E h \in Helpers : HelperStep(h) \/ \E kind \in Kinds : Request(h, kind)

Spec == Init /\ [][Next]_vars

-----------------------------------------------------------------------------
(* Safety.                                                                 *)

WorkerRecs == [pc : WorkerPCs, stage : Stages, mem : States,
               attempted : SUBSET Keys, files : 0..MaxFileRecoveries]
HelperRecs == [pc : HelperPCs, snap : States]
PacRecs    == [st : {"absent", "started", "holding"} \cup Exited,
               writes : BOOLEAN]

\* Every variable has its type; above all, a worker never renames more than
\* MaxFileRecoveries conflicting files (worker.rs:446).
TypeOK ==
  /\ state \in States
  /\ lock \in {"free", "stale"} \cup Owners
  /\ pac \in [Owners -> PacRecs]
  /\ unit \in {"inactive", "active", "stopping"}
  /\ worker \in WorkerRecs
  /\ helper \in [Helpers -> HelperRecs]
  /\ starts \in Nat /\ ops \in Nat /\ crashes \in Nat
  /\ installed \subseteq Nat
  /\ tries \in [Keys -> 0..2]

\* STATE says "complete" of an operation only if a pacman -Syu run for that
\* very operation succeeded: neither a stale copy of the state, nor a retry,
\* nor a second helper can make up a success (worker.rs:568-574).
CompleteIsReal == state.phase = "complete" => state.op \in installed

\* Whatever sequence of failures the three stages meet, a worker starts the
\* recovery of a key at most once (attempted_keys, worker.rs:207), so that a
\* repository that keeps failing cannot make it loop.
KeyTriedOnce == \A k \in Keys : tries[k] < 2

\* CompleteIsReal, inductively: the success a worker is about to publish, in
\* its copy of the state or in the exit status it has still to reap, is that
\* of its own operation.
SuccessInv ==
  /\ CompleteIsReal
  /\ worker.mem.phase = "complete" => worker.mem.op \in installed
  /\ worker.pc = "wait" /\ worker.stage = "install" =>
       /\ pac[Unit].st # "absent" => pac[Unit].writes
       /\ pac[Unit].st = "ok" => worker.mem.op \in installed

\* KeyTriedOnce, inductively: a key the worker has not noted was never tried.
KeyInv == \A k \in Keys :
            /\ tries[k] < 2
            /\ Alive /\ k \notin worker.attempted => tries[k] = 0

\* Nobody takes db.lck away from a pacman that holds it: each of the four
\* removals (helper.rs:131, 429, 496; worker.rs:515) hits a stale lock.
LiveLockKept ==
  [][\A o \in Owners : lock = o /\ Holds(o) => lock' = o \/ pac'[o].st # "holding"]_vars

\* The part of it the code keeps for helpers called one after the other: unless
\* a package is being removed, which neither asks for nor waits for the end of an
\* update (helper.rs:122-132), no installation, no cancellation and no recovery
\* of files (helper.rs:429, 496; worker.rs:515) takes a lock that is held.
UpdateLockKept ==
  [][(\A h \in Helpers : helper[h].pc \notin Removing) =>
       \A o \in Owners : lock = o /\ Holds(o) =>
                          lock' = o \/ pac'[o].st # "holding"]_vars

\* A new operation is written to STATE only while no worker is alive, whose
\* next publish would put the old operation back (helper.rs:419-424).
NoTakeover == [][state'.op # state.op => ~Alive]_vars

\* README.md: cancelling protects the installation phase.  systemd is never
\* told to stop the unit while its pacman installs.
InstallProtected == ~(unit = "stopping" /\ Holds(Unit) /\ pac[Unit].writes)

\* What STATE shows of an update is what goes on.  At its end none of its pacman
\* processes runs any more: failing, completing and cancelling all reap or kill
\* before they publish (worker.rs:155-159, 559-566, helper.rs:482-506).  And
\* unless something crashed, an active phase means that the unit runs, or that a
\* helper is about to start it or to write how it ended.
PhaseMatchesWorker ==
  /\ state.phase \in Terminal => ~Live(Unit)
  /\ crashes = 0 /\ Active(state) /\ unit = "inactive" =>
       \E h \in Helpers : helper[h].pc \in {"start", "startFailed", "stopping", "cancelScan",
                                           "cancelUnlock", "cancelWrite"}

\* Helpers that are called one after the other implement the life cycle the
\* panel and the notifier read STATE by: phases of an operation go forward
\* only, through retries, recoveries and republished copies of the state.
Life == INSTANCE UpdateLifecycle WITH phase <- state.phase, op <- state.op
ImplementsLifecycle == Life!LifeSpec

-----------------------------------------------------------------------------
(* Liveness.  Processes run and pacman ends; people, crashes and other     *)
(* pacmans owe nothing.                                                    *)

Fairness == /\ WF_vars(WorkerStep) /\ WF_vars(SystemdStep)
            /\ \A o \in Owners : WF_vars(PacmanFinishes(o))
            /\ \A h \in Helpers : WF_vars(HelperStep(h))
FairSpec == Spec /\ Fairness

\* Every update that STATE shows comes to an end in STATE, however its keys,
\* files, phases and cancellations interleave, unless something crashes.
Settles == Active(state) ~> state.phase \in Terminal \/ crashes > 0

\* What a crash or a reboot left behind, an active phase with the pid of a dead
\* worker, a stale db.lck, a unit that still stops, keeps no later update from
\* being written to STATE and from coming to an end there, provided that no
\* pacman runs when it is asked for and nothing crashes again (helper.rs:419-481).
CrashRepaired ==
  \A h \in Helpers, n \in 0..MaxCrashes, o \in 0..MaxOps :
    helper[h].pc = "install" /\ ~Alive /\ ~PacmanRunning /\ crashes = n /\ ops = o
      ~> (state.op > o /\ state.phase \in Terminal) \/ crashes > n
=============================================================================

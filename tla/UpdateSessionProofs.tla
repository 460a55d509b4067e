------------------------ MODULE UpdateSessionProofs ------------------------
(***************************************************************************)
(* Proofs about UpdateSession, for every set of helpers and keys, every    *)
(* bound and every choice of perils.                                       *)
(***************************************************************************)
EXTENDS UpdateSession, TLAPS

\* The phase a stage publishes is an active one.
LEMMA StagePhaseType == \A s \in Stages : StagePhase[s] \in ActivePhases
  BY DEF StagePhase, Stages, ActivePhases

\* What a failing worker leaves behind is well typed.
LEMMA FailType ==
  ASSUME TypeOK, Fail
  PROVE  worker' \in WorkerRecs /\ state' \in States
  BY DEF TypeOK, Fail, Written, WorkerRecs, States, Phases, Terminal, WorkerPCs

\* The worker and the helper there is when there is none.
LEMMA NobodyType ==
  /\ EmptyState \in States
  /\ NoWorker \in WorkerRecs
  /\ IdleHelper \in HelperRecs
  /\ Absent \in PacRecs
  BY SessionAssumption DEF EmptyState, States, Phases, NoWorker, WorkerRecs,
     WorkerPCs, Stages, IdleHelper, HelperRecs, HelperPCs, Absent, PacRecs

\* A pacman that was just spawned.
LEMMA StartedType ==
  \A b \in BOOLEAN : [st |-> "started", writes |-> b] \in PacRecs
  BY DEF PacRecs

\* Handling a failed pacman changes the worker and, in STATE, its phase.
LEMMA HandleType ==
  ASSUME TypeOK, NEW report \in Reports, Handle(report)
  PROVE  worker' \in WorkerRecs /\ state' \in States /\ tries' \in [Keys -> 0..2]
  <1>1. CASE RecoverKey(report)
    <2>1. worker.attempted \cup {report} \in SUBSET Keys
      BY <1>1 DEF RecoverKey, TypeOK, WorkerRecs
    <2>2. worker' \in WorkerRecs
      BY <1>1, <2>1 DEF RecoverKey, TypeOK, WorkerRecs, WorkerPCs
    <2>3. tries' \in [Keys -> 0..2]
      <3>1. (IF tries[report] < 2 THEN tries[report] + 1 ELSE tries[report])
              \in 0..2
        BY <1>1 DEF RecoverKey, TypeOK
      <3> QED BY <1>1, <3>1 DEF RecoverKey, TypeOK
    <2> QED BY <1>1, <2>2, <2>3 DEF RecoverKey, TypeOK
  <1>2. CASE Fail /\ UNCHANGED tries
    BY <1>2, FailType DEF TypeOK
  <1>3. CASE /\ worker' = [worker EXCEPT !.pc = "conflict"]
             /\ UNCHANGED <<state, tries>>
    BY <1>3 DEF TypeOK, WorkerRecs, WorkerPCs
  <1> QED BY <1>1, <1>2, <1>3 DEF Handle

\* Every step of the worker keeps every variable in its type.
LEMMA WorkerTypePreserved ==
  ASSUME TypeOK, WorkerStep \/ PublishProgress
  PROVE  TypeOK'
  <1> USE SessionAssumption DEF WorkerStays
  <1>1. CASE WorkerNew
    BY <1>1 DEF WorkerNew, TypeOK, WorkerRecs, WorkerPCs, States
  <1>2. CASE AcquireInhibitor
    BY <1>2, FailType DEF AcquireInhibitor, TypeOK, WorkerRecs, WorkerPCs
  <1>3. CASE PublishStage
    <2> DEFINE m == [worker.mem EXCEPT !.phase = StagePhase[worker.stage]]
    <2>1. m \in States
      BY StagePhaseType DEF TypeOK, WorkerRecs, States, Phases
    <2>2. /\ worker' = [worker EXCEPT !.mem = m, !.pc = "spawn"]
          /\ Written(m)
      BY <1>3 DEF PublishStage
    <2> QED
      BY <1>3, <2>1, <2>2 DEF PublishStage, Written, TypeOK, WorkerRecs,
         WorkerPCs
  <1>4. CASE SpawnPacman
    <2>1. worker' \in WorkerRecs /\ state' \in States
      BY <1>4, FailType DEF SpawnPacman, TypeOK, WorkerRecs, WorkerPCs
    <2>2. [st |-> "started", writes |-> worker.stage = "install"] \in PacRecs
      <3>1. (worker.stage = "install") \in BOOLEAN
        OBVIOUS
      <3> QED BY <3>1, StartedType
    <2>3. pac' \in [Owners -> PacRecs]
      BY <1>4, <2>2 DEF SpawnPacman, TypeOK
    <2> QED BY <1>4, <2>1, <2>3 DEF SpawnPacman, TypeOK
  <1>5. CASE PublishProgress
    BY <1>5 DEF PublishProgress, Written, TypeOK, WorkerRecs
  <1>6. CASE StageSucceeds
    <2>1. pac' \in [Owners -> PacRecs]
      BY <1>6, NobodyType DEF StageSucceeds, TypeOK
    <2>2. CASE worker.stage # "install"
      BY <1>6, <2>1, <2>2 DEF StageSucceeds, TypeOK, WorkerRecs, WorkerPCs, Stages
    <2>3. CASE worker.stage = "install"
      <3>1. [worker.mem EXCEPT !.phase = "complete"] \in States
        BY DEF TypeOK, WorkerRecs, States, Phases, Terminal
      <3> QED
        BY <1>6, <2>1, <2>3, <3>1 DEF StageSucceeds, Written, TypeOK,
           WorkerRecs, WorkerPCs
    <2> QED BY <2>2, <2>3
  <1>7. CASE StageFails
    <2>1. PICK report \in Reports : Handle(report)
      BY <1>7 DEF StageFails
    <2> QED
      BY <1>7, <2>1, HandleType, NobodyType DEF StageFails, TypeOK
  <1>8. CASE StagePacmanStopped
    <2>1. worker' \in WorkerRecs /\ state' \in States /\ tries' \in [Keys -> 0..2]
      BY <1>8, HandleType, FailType DEF StagePacmanStopped, TypeOK
    <2> QED
      BY <1>8, <2>1, NobodyType DEF StagePacmanStopped, LockAfterKill, TypeOK
  <1>9. CASE KeyRecovered
    BY <1>9, FailType DEF KeyRecovered, Written, TypeOK, WorkerRecs, WorkerPCs
  <1>10. CASE PreserveFile
    <2>1. CASE Fail
      BY <1>10, <2>1, FailType DEF PreserveFile, TypeOK
    <2>2. CASE /\ RecoveryLeft
               /\ worker' = [worker EXCEPT !.pc = "preserved",
                                           !.files = worker.files + 1,
                                           !.mem.phase = "installing"]
               /\ UNCHANGED state
      <3>1. [worker.mem EXCEPT !.phase = "installing"] \in States
        BY DEF TypeOK, WorkerRecs, States, Phases, ActivePhases
      <3>2. worker.files + 1 \in 0..MaxFileRecoveries
        BY <2>2 DEF RecoveryLeft, TypeOK, WorkerRecs
      <3>3. worker' = [worker EXCEPT
                         !.pc = "preserved", !.files = worker.files + 1,
                         !.mem = [worker.mem EXCEPT !.phase = "installing"]]
        BY <2>2 DEF TypeOK, WorkerRecs
      <3>4. worker' \in WorkerRecs
        BY <3>1, <3>2, <3>3 DEF TypeOK, WorkerRecs, WorkerPCs
      <3> QED BY <1>10, <2>2, <3>4 DEF PreserveFile, TypeOK
    <2> QED BY <1>10, <2>1, <2>2 DEF PreserveFile
  <1>11. CASE RescanAfterPreserve
    BY <1>11, FailType DEF RescanAfterPreserve, TypeOK, WorkerRecs, WorkerPCs
  <1>12. CASE UnlockAfterPreserve
    BY <1>12 DEF UnlockAfterPreserve, Written, TypeOK, WorkerRecs, WorkerPCs
  <1>13. CASE WorkerExit
    BY <1>13, NobodyType DEF WorkerExit, TypeOK
  <1> QED
    BY <1>1, <1>2, <1>3, <1>4, <1>5, <1>6, <1>7, <1>8, <1>9, <1>10, <1>11,
       <1>12, <1>13 DEF WorkerStep

\* Every step of a helper keeps every variable in its type.
LEMMA HelperTypePreserved ==
  ASSUME TypeOK, NEW h \in Helpers, HelperStep(h)
  PROVE  TypeOK'
  <1> USE SessionAssumption, NobodyType DEF HelperStays, Go, Done
  <1>1. CASE InstallRead(h) \/ InstallScan(h) \/ InstallUnlock(h)
    BY <1>1 DEF InstallRead, InstallScan, InstallUnlock, TypeOK, HelperRecs,
       HelperPCs
  <1>2. CASE InstallWrite(h)
    <2> DEFINE new == [phase |-> "starting", op |-> ops + 1, pid |-> 0]
    <2>1. new \in States
      BY DEF TypeOK, States, Phases, ActivePhases
    <2> QED
      BY <1>2, <2>1 DEF InstallWrite, TypeOK, HelperRecs, HelperPCs
  <1>3. CASE InstallStart(h)
    <2>1. helper' \in [Helpers -> HelperRecs]
      BY <1>3 DEF InstallStart, TypeOK, HelperRecs, HelperPCs
    <2>2. CASE StartUnit
      <3>1. worker' \in WorkerRecs
        BY <2>2 DEF StartUnit, WorkerRecs, WorkerPCs
      <3> QED
        BY <1>3, <2>1, <2>2, <3>1 DEF InstallStart, StartUnit, TypeOK
    <2>3. CASE UNCHANGED <<unit, worker, starts, tries>>
      BY <1>3, <2>1, <2>3 DEF InstallStart, TypeOK
    <2> QED BY <1>3, <2>2, <2>3 DEF InstallStart
  <1>4. CASE InstallFailed(h)
    BY <1>4 DEF InstallFailed, Written, TypeOK, HelperRecs, States, Phases,
       Terminal
  <1>5. CASE CancelRead(h) \/ CancelStop(h) \/ CancelStopped(h)
    BY <1>5 DEF CancelRead, CancelStop, CancelStopped, TypeOK, HelperRecs,
       HelperPCs
  <1>6. CASE CancelScan(h) \/ CancelUnlock(h)
    BY <1>6 DEF CancelScan, CancelUnlock, TypeOK, HelperRecs, HelperPCs
  <1>7. CASE CancelWrite(h)
    BY <1>7 DEF CancelWrite, Written, TypeOK, HelperRecs, States, Phases,
       Terminal
  <1>8. CASE RemoveScan(h) \/ RemoveUnlock(h)
    BY <1>8 DEF RemoveScan, RemoveUnlock, TypeOK, HelperRecs, HelperPCs
  <1>9. CASE RemoveSpawn(h) \/ RemoveReap(h)
    <2>1. helper' \in [Helpers -> HelperRecs]
      BY <1>9 DEF RemoveSpawn, RemoveReap, TypeOK, HelperRecs, HelperPCs
    <2>2. pac' \in [Owners -> PacRecs]
      BY <1>9, StartedType DEF RemoveSpawn, RemoveReap, TypeOK
    <2> QED BY <1>9, <2>1, <2>2 DEF RemoveSpawn, RemoveReap, TypeOK
  <1> QED
    BY <1>1, <1>2, <1>3, <1>4, <1>5, <1>6, <1>7, <1>8, <1>9 DEF HelperStep

\* Every step keeps every variable in its type.
LEMMA TypePreserved ==
  ASSUME TypeOK, [Next]_vars
  PROVE  TypeOK'
  <1> USE SessionAssumption, NobodyType
  <1>1. ASSUME NEW o \in Owners, PacmanFinishes(o)
        PROVE  TypeOK'
    BY <1>1 DEF TypeOK, PacmanFinishes, PacmanLock, PacmanBusy, PacmanExit,
       PacRecs, Exited, WorkerRecs, States, Holds
  <1>2. CASE ExternalStart \/ ExternalReaped
    <2>1. pac' \in [Owners -> PacRecs]
      BY <1>2, StartedType DEF TypeOK, ExternalStart, ExternalReaped
    <2> QED BY <1>2, <2>1 DEF TypeOK, ExternalStart, ExternalReaped
  <1>3. CASE WorkerStep \/ PublishProgress
    BY <1>3, WorkerTypePreserved
  <1>4. CASE SystemdStep
    BY <1>4 DEF TypeOK, SystemdStep, KillWorker, KillPacman, UnitStopped,
       LockAfterKill
  <1>5. CASE WorkerCrash
    BY <1>5 DEF TypeOK, WorkerCrash
  <1>6. CASE Reboot
    <2>1. /\ pac' \in [Owners -> PacRecs]
          /\ helper' \in [Helpers -> HelperRecs]
          /\ lock' \in {"free", "stale"}
          /\ worker' \in WorkerRecs
      BY <1>6 DEF Reboot
    <2> QED BY <1>6, <2>1 DEF Reboot, TypeOK
  <1>7. ASSUME NEW h \in Helpers, HelperStep(h)
        PROVE  TypeOK'
    BY <1>7, HelperTypePreserved
  <1>8. ASSUME NEW h \in Helpers, NEW kind \in Kinds, Request(h, kind)
        PROVE  TypeOK'
    BY <1>8 DEF TypeOK, Request, Go, HelperStays, HelperRecs, HelperPCs
  <1>9. CASE UNCHANGED vars
    BY <1>9 DEF TypeOK, vars
  <1> QED
    BY <1>1, <1>2, <1>3, <1>4, <1>5, <1>6, <1>7, <1>8, <1>9 DEF Next

\* The variables keep their types; a worker never renames more than
\* MaxFileRecoveries conflicting files.
THEOREM TypeCorrect == Spec => []TypeOK
  <1>1. Init => TypeOK
    BY SessionAssumption, NobodyType DEF Init, TypeOK
  <1>2. TypeOK /\ [Next]_vars => TypeOK'
    BY TypePreserved
  <1> QED BY <1>1, <1>2, PTL DEF Spec

-----------------------------------------------------------------------------
(* Success is never made up.                                               *)

\* A step that leaves the worker, its pacman and the history alone and writes
\* no success of another operation to STATE keeps SuccessInv.
LEMMA SuccessFrame ==
  ASSUME SuccessInv, worker' = worker, pac'[Unit] = pac[Unit],
         installed' = installed,
         state' = state \/ state'.phase # "complete"
  PROVE  SuccessInv'
  BY DEF SuccessInv, CompleteIsReal

\* So does a step after which no worker waits for a pacman, when what the
\* worker has in memory and what is in STATE are no new success.
LEMMA SuccessNoWait ==
  ASSUME SuccessInv, installed' = installed, worker'.pc # "wait",
         worker'.mem = worker.mem \/ worker'.mem.phase # "complete",
         \/ state' = state \/ state' = worker.mem
         \/ state'.phase # "complete"
  PROVE  SuccessInv'
  BY DEF SuccessInv, CompleteIsReal

\* A failing worker publishes no success.
LEMMA FailPublishes ==
  ASSUME TypeOK, Fail
  PROVE  /\ worker'.pc = "exit" /\ worker'.mem.phase # "complete"
         /\ state' = state \/ state'.phase # "complete"
  BY DEF TypeOK, Fail, Written, WorkerRecs, States

\* Handling a failed pacman publishes no success.
LEMMA HandlePublishes ==
  ASSUME TypeOK, NEW report \in Reports, Handle(report)
  PROVE  /\ worker'.pc # "wait"
         /\ worker'.mem = worker.mem \/ worker'.mem.phase # "complete"
         /\ state' = state \/ state'.phase # "complete"
  <1>1. CASE RecoverKey(report)
    BY <1>1 DEF RecoverKey, TypeOK, WorkerRecs
  <1>2. CASE Fail
    BY <1>2, FailPublishes
  <1>3. CASE /\ worker' = [worker EXCEPT !.pc = "conflict"]
             /\ UNCHANGED state
    BY <1>3 DEF TypeOK, WorkerRecs
  <1> QED BY <1>1, <1>2, <1>3 DEF Handle

LEMMA SuccessWorkerStep ==
  ASSUME TypeOK, SuccessInv, WorkerStep \/ PublishProgress
  PROVE  SuccessInv'
  <1> USE DEF WorkerStays
  <1>1. CASE WorkerNew
    <2>1. /\ worker'.pc = "inhibit"
          /\ worker'.mem = [state EXCEPT !.pid = starts]
      BY <1>1 DEF WorkerNew, TypeOK, WorkerRecs
    <2>2. worker'.mem.phase = state.phase /\ worker'.mem.op = state.op
      BY <2>1 DEF TypeOK, States
    <2> QED
      BY <1>1, <2>1, <2>2 DEF WorkerNew, SuccessInv, CompleteIsReal
  <1>2. CASE AcquireInhibitor
    <2>1. /\ worker'.pc # "wait"
          /\ worker'.mem = worker.mem \/ worker'.mem.phase # "complete"
          /\ state' = state \/ state'.phase # "complete"
      BY <1>2, FailPublishes DEF AcquireInhibitor, TypeOK, WorkerRecs
    <2> QED BY <1>2, <2>1, SuccessNoWait DEF AcquireInhibitor
  <1>3. CASE PublishStage
    <2> DEFINE m == [worker.mem EXCEPT !.phase = StagePhase[worker.stage]]
    <2>1. m.phase # "complete"
      BY StagePhaseType DEF TypeOK, WorkerRecs, States, ActivePhases
    <2>2. worker'.pc = "spawn" /\ worker'.mem = m /\ (state' = m \/ state' = state)
      BY <1>3 DEF PublishStage, Written, TypeOK, WorkerRecs
    <2> QED BY <1>3, <2>1, <2>2, SuccessNoWait DEF PublishStage
  <1>4. CASE SpawnPacman
    <2>1. CASE Fail
      BY <1>4, <2>1, FailPublishes, SuccessNoWait DEF SpawnPacman
    <2>2. CASE /\ worker' = [worker EXCEPT !.pc = "wait"]
               /\ pac' = [pac EXCEPT ![Unit] =
                            [st |-> "started", writes |-> worker.stage = "install"]]
               /\ UNCHANGED state
      <3>1. worker'.stage = worker.stage /\ worker'.mem = worker.mem
        BY <2>2 DEF TypeOK, WorkerRecs
      <3>2. pac'[Unit] = [st |-> "started", writes |-> worker.stage = "install"]
        BY <2>2 DEF TypeOK, Owners
      <3>3. pac'[Unit].st = "started"
        BY <3>2
      <3>4. ASSUME worker.stage = "install"
            PROVE  pac'[Unit].writes
        <4>1. (worker.stage = "install") = TRUE
          BY <3>4
        <4>2. pac'[Unit] = [st |-> "started", writes |-> TRUE]
          BY <3>2, <4>1, Zenon
        <4> QED BY <4>2
      <3> QED
        BY <1>4, <2>2, <3>1, <3>3, <3>4 DEF SpawnPacman, SuccessInv, CompleteIsReal
    <2> QED BY <1>4, <2>1, <2>2 DEF SpawnPacman
  <1>5. CASE PublishProgress
    BY <1>5 DEF PublishProgress, Written, SuccessInv, CompleteIsReal
  <1>6. CASE StageSucceeds
    <2>1. CASE worker.stage # "install"
      <3>1. /\ worker'.pc = "publish" /\ worker'.mem = worker.mem
            /\ state' = state
        BY <1>6, <2>1 DEF StageSucceeds, TypeOK, WorkerRecs, Stages
      <3> QED BY <1>6, <3>1, SuccessNoWait DEF StageSucceeds
    <2>2. CASE worker.stage = "install"
      <3> DEFINE m == [worker.mem EXCEPT !.phase = "complete"]
      <3>1. worker.mem.op \in installed
        BY <1>6, <2>2 DEF StageSucceeds, Succeeded, SuccessInv
      <3>2. m.op = worker.mem.op
        BY DEF TypeOK, WorkerRecs, States
      <3>3. /\ worker'.pc = "exit" /\ worker'.mem = m
            /\ state' = m \/ state' = state
        BY <1>6, <2>2 DEF StageSucceeds, Written, TypeOK, WorkerRecs
      <3> QED
        BY <1>6, <3>1, <3>2, <3>3 DEF StageSucceeds, SuccessInv, CompleteIsReal
    <2> QED BY <2>1, <2>2
  <1>7. CASE StageFails
    <2>1. PICK report \in Reports : Handle(report)
      BY <1>7 DEF StageFails
    <2> QED
      BY <1>7, <2>1, HandlePublishes, SuccessNoWait DEF StageFails
  <1>8. CASE StagePacmanStopped
    <2>1. /\ worker'.pc # "wait"
          /\ worker'.mem = worker.mem \/ worker'.mem.phase # "complete"
          /\ state' = state \/ state'.phase # "complete"
      BY <1>8, HandlePublishes, FailPublishes DEF StagePacmanStopped
    <2> QED BY <1>8, <2>1, SuccessNoWait DEF StagePacmanStopped
  <1>9. CASE KeyRecovered
    <2>1. /\ worker'.pc # "wait"
          /\ worker'.mem = worker.mem \/ worker'.mem.phase # "complete"
          /\ \/ state' = state \/ state' = worker.mem
             \/ state'.phase # "complete"
      BY <1>9, FailPublishes DEF KeyRecovered, Written, TypeOK, WorkerRecs
    <2> QED BY <1>9, <2>1, SuccessNoWait DEF KeyRecovered
  <1>10. CASE PreserveFile
    <2>1. CASE Fail
      BY <1>10, <2>1, FailPublishes, SuccessNoWait DEF PreserveFile
    <2>2. CASE /\ worker' = [worker EXCEPT !.pc = "preserved",
                                           !.files = worker.files + 1,
                                           !.mem.phase = "installing"]
               /\ UNCHANGED state
      <3>1. worker'.pc = "preserved" /\ worker'.mem.phase = "installing"
        BY <2>2 DEF TypeOK, WorkerRecs, States
      <3> QED BY <1>10, <2>2, <3>1, SuccessNoWait DEF PreserveFile
    <2> QED BY <1>10, <2>1, <2>2 DEF PreserveFile
  <1>11. CASE RescanAfterPreserve
    <2>1. /\ worker'.pc # "wait"
          /\ worker'.mem = worker.mem \/ worker'.mem.phase # "complete"
          /\ state' = state \/ state'.phase # "complete"
      BY <1>11, FailPublishes DEF RescanAfterPreserve, TypeOK, WorkerRecs
    <2> QED BY <1>11, <2>1, SuccessNoWait DEF RescanAfterPreserve
  <1>12. CASE UnlockAfterPreserve
    <2>1. /\ worker'.pc # "wait" /\ worker'.mem = worker.mem
          /\ state' = state \/ state' = worker.mem
      BY <1>12 DEF UnlockAfterPreserve, Written, TypeOK, WorkerRecs
    <2> QED BY <1>12, <2>1, SuccessNoWait DEF UnlockAfterPreserve
  <1>13. CASE WorkerExit
    BY <1>13, SuccessNoWait DEF WorkerExit, NoWorker, EmptyState
  <1> QED
    BY <1>1, <1>2, <1>3, <1>4, <1>5, <1>6, <1>7, <1>8, <1>9, <1>10, <1>11,
       <1>12, <1>13 DEF WorkerStep

LEMMA SuccessHelperStep ==
  ASSUME TypeOK, SuccessInv, NEW h \in Helpers, HelperStep(h)
  PROVE  SuccessInv'
  <1> USE DEF HelperStays
  <1>1. CASE \/ InstallRead(h) \/ InstallScan(h) \/ InstallUnlock(h)
             \/ CancelRead(h) \/ CancelStop(h) \/ CancelStopped(h)
             \/ CancelScan(h) \/ CancelUnlock(h)
             \/ RemoveScan(h) \/ RemoveUnlock(h)
    BY <1>1, SuccessFrame DEF InstallRead, InstallScan, InstallUnlock,
       CancelRead, CancelStop, CancelStopped, CancelScan, CancelUnlock,
       RemoveScan, RemoveUnlock
  <1>2. CASE InstallWrite(h)
    <2>1. state' = state \/ state'.phase = "starting"
      BY <1>2 DEF InstallWrite
    <2> QED BY <1>2, <2>1, SuccessFrame DEF InstallWrite
  <1>3. CASE InstallStart(h)
    <2>1. CASE StartUnit
      <3>1. worker'.pc = "boot" /\ worker'.mem.phase = "none"
        BY <2>1 DEF StartUnit, NoWorker, EmptyState
      <3> QED BY <1>3, <2>1, <3>1, SuccessNoWait DEF InstallStart
    <2>2. CASE UNCHANGED <<unit, worker, starts, tries>>
      BY <1>3, <2>2, SuccessFrame DEF InstallStart
    <2> QED BY <1>3, <2>1, <2>2 DEF InstallStart
  <1>4. CASE InstallFailed(h)
    <2>1. state' = state \/ state'.phase = "failed"
      BY <1>4 DEF InstallFailed, Written, TypeOK, HelperRecs, States
    <2> QED BY <1>4, <2>1, SuccessFrame DEF InstallFailed
  <1>5. CASE CancelWrite(h)
    <2>1. state' = state \/ state'.phase = "cancelled"
      BY <1>5 DEF CancelWrite, Written, TypeOK, HelperRecs, States
    <2> QED BY <1>5, <2>1, SuccessFrame DEF CancelWrite
  <1>6. CASE RemoveSpawn(h) \/ RemoveReap(h)
    <2>1. pac'[Unit] = pac[Unit]
      BY <1>6, SessionAssumption DEF RemoveSpawn, RemoveReap, TypeOK, Owners
    <2> QED BY <1>6, <2>1, SuccessFrame DEF RemoveSpawn, RemoveReap
  <1> QED
    BY <1>1, <1>2, <1>3, <1>4, <1>5, <1>6 DEF HelperStep

LEMMA SuccessPreserved ==
  ASSUME TypeOK, SuccessInv, [Next]_vars
  PROVE  SuccessInv'
  <1>1. ASSUME NEW o \in Owners, PacmanLock(o) \/ PacmanBusy(o)
        PROVE  SuccessInv'
    <2>1. pac'[Unit].writes = pac[Unit].writes
          /\ (pac'[Unit].st = pac[Unit].st
              \/ (pac[Unit].st = "started" /\ pac'[Unit].st \in {"holding", "busy"}))
      BY <1>1 DEF PacmanLock, PacmanBusy, TypeOK, PacRecs, Owners
    <2> QED
      BY <1>1, <2>1 DEF PacmanLock, PacmanBusy, SuccessInv, CompleteIsReal
  <1>2. ASSUME NEW o \in Owners, PacmanExit(o)
        PROVE  SuccessInv'
    <2>1. installed \subseteq installed' /\ worker' = worker /\ state' = state
      BY <1>2 DEF PacmanExit
    <2>2. CASE o # Unit
      <3>1. pac'[Unit] = pac[Unit]
        BY <1>2, <2>2 DEF PacmanExit, TypeOK, Owners
      <3> QED BY <2>1, <3>1 DEF SuccessInv, CompleteIsReal
    <2>3. CASE o = Unit
      <3>1. PICK outcome \in {"ok", "error"} :
              /\ pac' = [pac EXCEPT ![o].st = outcome]
              /\ installed' = IF o = Unit /\ pac[o].writes /\ outcome = "ok"
                              THEN installed \cup {worker.mem.op}
                              ELSE installed
        BY <1>2 DEF PacmanExit
      <3>2. pac'[Unit].st = outcome /\ pac'[Unit].writes = pac[Unit].writes
        BY <3>1, <2>3 DEF TypeOK, PacRecs, Owners
      <3>3. pac[Unit].st = "holding"
        BY <1>2, <2>3 DEF PacmanExit, Holds
      <3> QED
        BY <2>1, <2>3, <3>1, <3>2, <3>3 DEF SuccessInv, CompleteIsReal
    <2> QED BY <2>2, <2>3
  <1>3. CASE ExternalStart \/ ExternalReaped
    <2>1. pac'[Unit] = pac[Unit]
      BY <1>3 DEF ExternalStart, ExternalReaped, TypeOK, Unit, Ext, Owners
    <2> QED BY <1>3, <2>1, SuccessFrame DEF ExternalStart, ExternalReaped
  <1>4. CASE WorkerStep \/ PublishProgress
    BY <1>4, SuccessWorkerStep
  <1>5. CASE KillWorker \/ WorkerCrash \/ Reboot
    BY <1>5, SuccessNoWait DEF KillWorker, WorkerCrash, Reboot, NoWorker,
       EmptyState
  <1>6. CASE KillPacman
    <2>1. pac'[Unit] = Absent
      BY <1>6 DEF KillPacman, TypeOK, Owners
    <2> QED
      BY <1>6, <2>1 DEF KillPacman, Absent, SuccessInv, CompleteIsReal
  <1>7. CASE UnitStopped
    BY <1>7, SuccessFrame DEF UnitStopped
  <1>8. ASSUME NEW h \in Helpers, HelperStep(h)
        PROVE  SuccessInv'
    BY <1>8, SuccessHelperStep
  <1>9. ASSUME NEW h \in Helpers, NEW kind \in Kinds, Request(h, kind)
        PROVE  SuccessInv'
    BY <1>9, SuccessFrame DEF Request, HelperStays
  <1>10. CASE UNCHANGED vars
    BY <1>10, SuccessFrame DEF vars
  <1> QED
    BY <1>1, <1>2, <1>3, <1>4, <1>5, <1>6, <1>7, <1>8, <1>9, <1>10
       DEF Next, PacmanFinishes, SystemdStep

\* STATE says "complete" of an operation only if its installation succeeded,
\* for any number of helpers, crashes and retries and under every peril.
THEOREM SuccessIsReal == Spec => []CompleteIsReal
  <1>1. Init => SuccessInv
    BY DEF Init, SuccessInv, CompleteIsReal, EmptyState, NoWorker
  <1>2. TypeOK /\ SuccessInv /\ [Next]_vars => SuccessInv'
    BY SuccessPreserved
  <1>3. SuccessInv => CompleteIsReal
    BY DEF SuccessInv
  <1> QED BY <1>1, <1>2, <1>3, TypeCorrect, PTL DEF Spec

-----------------------------------------------------------------------------
(* A key is recovered at most once per worker.                             *)

\* A step that counts no attempt, and after which the worker has ended or has
\* forgotten none, keeps KeyInv.
LEMMA KeyFrame ==
  ASSUME KeyInv, tries' = tries,
         \/ worker'.pc = "dead"
         \/ /\ worker.pc # "dead"
            /\ worker.attempted \subseteq worker'.attempted
  PROVE  KeyInv'
  BY DEF KeyInv, Alive

\* A new attempt is noted and counted.
LEMMA KeyHandled ==
  ASSUME TypeOK, KeyInv, Alive, NEW report \in Reports, Handle(report)
  PROVE  KeyInv'
  <1>1. CASE RecoverKey(report)
    <2>1. report \in Keys /\ tries[report] = 0
      BY <1>1 DEF RecoverKey, KeyInv
    <2>2. tries' = [tries EXCEPT ![report] = 1]
      BY <1>1, <2>1 DEF RecoverKey
    <2>3. worker'.attempted = worker.attempted \cup {report}
      BY <1>1 DEF RecoverKey, TypeOK, WorkerRecs
    <2> QED BY <2>1, <2>2, <2>3 DEF KeyInv, Alive, TypeOK
  <1>2. CASE Fail /\ UNCHANGED tries
    BY <1>2, KeyFrame DEF Fail, TypeOK, WorkerRecs, Alive
  <1>3. CASE /\ worker' = [worker EXCEPT !.pc = "conflict"]
             /\ UNCHANGED tries
    BY <1>3, KeyFrame DEF TypeOK, WorkerRecs, Alive
  <1> QED BY <1>1, <1>2, <1>3 DEF Handle

LEMMA KeyPreserved ==
  ASSUME TypeOK, KeyInv, [Next]_vars
  PROVE  KeyInv'
  <1>1. CASE WorkerNew \/ AcquireInhibitor \/ PublishStage \/ SpawnPacman
    BY <1>1, KeyFrame DEF WorkerNew, AcquireInhibitor, PublishStage,
       SpawnPacman, Fail, TypeOK, WorkerRecs
  <1>2. CASE StageSucceeds
    BY <1>2, KeyFrame DEF StageSucceeds, TypeOK, WorkerRecs, Stages
  <1>3. CASE StageFails
    <2>1. PICK report \in Reports : Handle(report)
      BY <1>3 DEF StageFails
    <2>2. Alive
      BY <1>3 DEF StageFails, Alive
    <2> QED BY <2>1, <2>2, KeyHandled
  <1>4. CASE StagePacmanStopped
    <2>1. Alive
      BY <1>4 DEF StagePacmanStopped, Alive
    <2>2. CASE Fail /\ UNCHANGED tries
      BY <2>1, <2>2, KeyFrame DEF Fail, TypeOK, WorkerRecs, Alive
    <2>3. CASE \E report \in Reports : Handle(report)
      BY <2>1, <2>3, KeyHandled
    <2> QED BY <1>4, <2>2, <2>3 DEF StagePacmanStopped
  <1>5. CASE KeyRecovered \/ RescanAfterPreserve \/ UnlockAfterPreserve
    BY <1>5, KeyFrame DEF KeyRecovered, RescanAfterPreserve,
       UnlockAfterPreserve, Fail, TypeOK, WorkerRecs
  <1>6. CASE PreserveFile
    BY <1>6, KeyFrame DEF PreserveFile, Fail, TypeOK, WorkerRecs
  <1>7. CASE WorkerExit \/ KillWorker \/ WorkerCrash \/ Reboot
    BY <1>7, KeyFrame DEF WorkerExit, KillWorker, WorkerCrash, Reboot, NoWorker
  <1>8. ASSUME NEW h \in Helpers, InstallStart(h)
        PROVE  KeyInv'
    <2>1. CASE StartUnit
      BY <2>1 DEF StartUnit, KeyInv
    <2>2. CASE UNCHANGED <<unit, worker, starts, tries>>
      BY <2>2 DEF KeyInv, Alive
    <2> QED BY <1>8, <2>1, <2>2 DEF InstallStart
  <1>9. CASE UNCHANGED <<worker, tries>>
    BY <1>9 DEF KeyInv, Alive
  <1>10. ASSUME NEW h \in Helpers, HelperStep(h), ~InstallStart(h)
         PROVE  UNCHANGED <<worker, tries>>
    BY <1>10 DEF HelperStep, HelperStays, InstallRead, InstallScan,
       InstallUnlock, InstallWrite, InstallFailed, CancelRead, CancelStop,
       CancelStopped, CancelScan, CancelUnlock, CancelWrite, RemoveScan,
       RemoveUnlock, RemoveSpawn, RemoveReap
  <1>11. ASSUME NEW h \in Helpers, NEW kind \in Kinds, Request(h, kind)
         PROVE  UNCHANGED <<worker, tries>>
    BY <1>11 DEF Request, HelperStays
  <1>12. ASSUME NEW o \in Owners, PacmanFinishes(o)
         PROVE  UNCHANGED <<worker, tries>>
    BY <1>12 DEF PacmanFinishes, PacmanLock, PacmanBusy, PacmanExit
  <1>13. CASE ExternalStart \/ ExternalReaped \/ PublishProgress \/ KillPacman
              \/ UnitStopped \/ UNCHANGED vars
    BY <1>9, <1>13 DEF ExternalStart, ExternalReaped, PublishProgress,
       KillPacman, UnitStopped, WorkerStays, vars
  <1> QED
    BY <1>1, <1>2, <1>3, <1>4, <1>5, <1>6, <1>7, <1>8, <1>9, <1>10, <1>11,
       <1>12, <1>13 DEF Next, WorkerStep, SystemdStep

\* Whatever fails in whichever stage, a worker tries a key at most once.
THEOREM KeysTriedOnce == Spec => []KeyTriedOnce
  <1>1. Init => KeyInv
    BY DEF Init, KeyInv
  <1>2. TypeOK /\ KeyInv /\ [Next]_vars => KeyInv'
    BY KeyPreserved
  <1>3. KeyInv => KeyTriedOnce
    BY DEF KeyInv, KeyTriedOnce
  <1> QED BY <1>1, <1>2, <1>3, TypeCorrect, PTL DEF Spec

-----------------------------------------------------------------------------
(* Facts about the steps of the helper and of the worker.                  *)

\* A helper that goes on changes its own program counter.
LEMMA GoMoves ==
  ASSUME TypeOK, NEW h \in Helpers, NEW pc, Go(h, pc)
  PROVE  /\ helper'[h].pc = pc /\ helper'[h].snap = helper[h].snap
         /\ \A g \in Helpers \ {h} : helper'[g] = helper[g]
  BY DEF Go, TypeOK, HelperRecs

\* A helper that is done is idle.
LEMMA DoneMoves ==
  ASSUME TypeOK, NEW h \in Helpers, Done(h)
  PROVE  /\ helper'[h].pc = "idle"
         /\ \A g \in Helpers \ {h} : helper'[g] = helper[g]
  BY DEF Done, TypeOK, IdleHelper

\* The worker publishes what it has, or STATE stays; it ends, or goes on, and
\* then waits for the pacman it has spawned or has none.
LEMMA FailMoves ==
  ASSUME TypeOK, Fail
  PROVE  /\ worker'.pc = "exit" /\ worker'.stage = worker.stage
         /\ worker'.mem = [worker.mem EXCEPT !.phase = "failed"]
         /\ state' = worker'.mem \/ ("diskfull" \in Perils /\ state' = state)
  BY DEF Fail, Written, TypeOK, WorkerRecs

LEMMA HandleMoves ==
  ASSUME TypeOK, NEW report \in Reports, Handle(report)
  PROVE  \/ /\ worker'.pc \in {"recover", "conflict"} /\ state' = state
            /\ worker'.stage = worker.stage /\ worker'.mem = worker.mem
            /\ worker'.pc = "conflict" => worker.stage = "install"
         \/ Fail
  BY DEF Handle, RecoverKey, TypeOK, WorkerRecs

-----------------------------------------------------------------------------
(* The unit, its worker and its pacman.                                    *)

\* The unit runs as long as its worker does, and is not down before its pacman
\* is gone too; a worker that lives has a pacman only while it waits for it, and
\* a helper only while it removes a package.
UnitInv ==
  /\ Alive => unit # "inactive"
  /\ unit = "active" => Alive
  /\ pac[Unit].st # "absent" => unit # "inactive" /\ (Alive => worker.pc = "wait")
  /\ \A h \in Helpers : pac[h].st # "absent" => helper[h].pc = "removeWait"

\* A step that spawns no pacman and leaves the rest alone.
LEMMA UnitFrame ==
  ASSUME UnitInv, UNCHANGED <<unit, worker>>,
         \A h \in Helpers : helper[h].pc = "removeWait" /\ pac'[h].st # "absent"
                              => helper'[h].pc = "removeWait",
         \A o \in Helpers \cup {Unit} : pac'[o].st # "absent" => pac[o].st # "absent"
  PROVE  UnitInv'
  BY DEF UnitInv, Alive

LEMMA UnitWorkerStep ==
  ASSUME TypeOK, UnitInv, WorkerStep \/ PublishProgress
  PROVE  UnitInv'
  <1> USE DEF WorkerStays
  <1>1. CASE WorkerNew \/ AcquireInhibitor \/ PublishStage
    <2>1. /\ worker.pc \notin {"dead", "wait"} /\ worker'.pc # "dead"
          /\ UNCHANGED <<pac, unit, helper>>
      BY <1>1, FailMoves DEF WorkerNew, AcquireInhibitor, PublishStage, TypeOK, WorkerRecs
    <2> QED BY <2>1 DEF UnitInv, Alive
  <1>2. CASE SpawnPacman
    <2>1. CASE Fail /\ UNCHANGED pac
      BY <1>2, <2>1, FailMoves DEF SpawnPacman, UnitInv, Alive
    <2>2. CASE ~(Fail /\ UNCHANGED pac)
      <3>1. worker'.pc = "wait" /\ worker.pc = "spawn" /\ UNCHANGED <<unit, helper>>
        BY <1>2, <2>2 DEF SpawnPacman, TypeOK, WorkerRecs
      <3>2. \A h \in Helpers : pac'[h] = pac[h]
        BY <1>2, <2>2, SessionAssumption DEF SpawnPacman, TypeOK, Owners
      <3> QED BY <3>1, <3>2 DEF UnitInv, Alive
    <2> QED BY <2>1, <2>2
  <1>3. CASE StageSucceeds \/ StageFails \/ StagePacmanStopped
    <2>1. worker'.pc # "dead"
      BY <1>3, FailMoves, HandleMoves DEF StageSucceeds, StageFails, StagePacmanStopped,
         TypeOK, WorkerRecs, Stages
    <2>2. /\ worker.pc = "wait" /\ UNCHANGED <<unit, helper>>
          /\ pac' = [pac EXCEPT ![Unit] = Absent]
      BY <1>3 DEF StageSucceeds, StageFails, StagePacmanStopped
    <2>3. pac'[Unit].st = "absent" /\ \A h \in Helpers : pac'[h] = pac[h]
      BY <2>2, SessionAssumption DEF TypeOK, Owners, Absent
    <2> QED BY <2>1, <2>2, <2>3 DEF UnitInv, Alive
  <1>4. CASE KeyRecovered \/ PreserveFile \/ RescanAfterPreserve \/ UnlockAfterPreserve
    <2>1. /\ worker.pc \notin {"dead", "wait"} /\ worker'.pc # "dead"
          /\ UNCHANGED <<pac, unit, helper>>
      BY <1>4, FailMoves DEF KeyRecovered, PreserveFile, RescanAfterPreserve,
         UnlockAfterPreserve, TypeOK, WorkerRecs
    <2> QED BY <2>1 DEF UnitInv, Alive
  <1>5. CASE WorkerExit
    BY <1>5 DEF WorkerExit, NoWorker, UnitInv, Alive
  <1>6. CASE PublishProgress
    BY <1>6, UnitFrame DEF PublishProgress
  <1> QED BY <1>1, <1>2, <1>3, <1>4, <1>5, <1>6 DEF WorkerStep

LEMMA UnitHelperStep ==
  ASSUME TypeOK, UnitInv, NEW h \in Helpers, HelperStep(h)
  PROVE  UnitInv'
  <1> USE DEF HelperStays
  <1>1. CASE \/ InstallRead(h) \/ InstallScan(h) \/ InstallUnlock(h) \/ InstallWrite(h)
             \/ InstallFailed(h) \/ CancelRead(h) \/ CancelStopped(h) \/ CancelScan(h)
             \/ CancelUnlock(h) \/ CancelWrite(h) \/ RemoveScan(h) \/ RemoveUnlock(h)
    <2>1. UNCHANGED <<unit, worker, pac>> /\ helper[h].pc # "removeWait"
      BY <1>1 DEF InstallRead, InstallScan, InstallUnlock, InstallWrite, InstallFailed,
         CancelRead, CancelStopped, CancelScan, CancelUnlock, CancelWrite, RemoveScan,
         RemoveUnlock
    <2>2. \A g \in Helpers \ {h} : helper'[g] = helper[g]
      BY <1>1 DEF InstallRead, InstallScan, InstallUnlock, InstallWrite, InstallFailed,
         CancelRead, CancelStopped, CancelScan, CancelUnlock, CancelWrite, RemoveScan,
         RemoveUnlock, Go, Done, TypeOK
    <2> QED BY <2>1, <2>2, UnitFrame
  <1>2. CASE InstallStart(h)
    <2>1. /\ \A g \in Helpers \ {h} : helper'[g] = helper[g]
          /\ helper[h].pc = "start" /\ UNCHANGED pac
      BY <1>2 DEF InstallStart, Go, Done, TypeOK
    <2>2. CASE StartUnit
      BY <2>1, <2>2 DEF StartUnit, NoWorker, UnitInv, Alive
    <2>3. CASE UNCHANGED <<unit, worker>>
      BY <2>1, <2>3, UnitFrame
    <2> QED BY <1>2, <2>2, <2>3 DEF InstallStart
  <1>3. CASE CancelStop(h)
    <2>1. /\ \A g \in Helpers \ {h} : helper'[g] = helper[g]
          /\ helper[h].pc = "stop" /\ UNCHANGED <<pac, worker>>
          /\ unit' = IF unit = "active" THEN "stopping" ELSE unit
      BY <1>3 DEF CancelStop, Go, TypeOK
    <2> QED BY <2>1 DEF UnitInv, Alive
  <1>4. CASE RemoveSpawn(h)
    <2>1. /\ \A g \in Helpers \ {h} : helper'[g] = helper[g] /\ pac'[g] = pac[g]
          /\ helper'[h].pc = "removeWait" /\ UNCHANGED <<unit, worker>>
          /\ pac'[Unit] = pac[Unit]
      BY <1>4, SessionAssumption DEF RemoveSpawn, Go, TypeOK, HelperRecs, Owners
    <2> QED BY <2>1 DEF UnitInv, Alive
  <1>5. CASE RemoveReap(h)
    <2>1. /\ \A g \in Helpers \ {h} : helper'[g] = helper[g] /\ pac'[g] = pac[g]
          /\ pac'[h].st = "absent" /\ UNCHANGED <<unit, worker>>
          /\ pac'[Unit] = pac[Unit]
      BY <1>5, SessionAssumption DEF RemoveReap, Done, TypeOK, HelperRecs, Owners, Absent
    <2> QED BY <2>1 DEF UnitInv, Alive
  <1> QED BY <1>1, <1>2, <1>3, <1>4, <1>5 DEF HelperStep

LEMMA UnitPreserved ==
  ASSUME TypeOK, UnitInv, [Next]_vars
  PROVE  UnitInv'
  <1>1. ASSUME NEW o \in Owners, PacmanFinishes(o)
        PROVE  UnitInv'
    <2>1. UNCHANGED <<unit, worker, helper>>
      BY <1>1 DEF PacmanFinishes, PacmanLock, PacmanBusy, PacmanExit
    <2>2. \A p \in Owners : pac'[p].st # "absent" => pac[p].st # "absent"
      BY <1>1 DEF PacmanFinishes, PacmanLock, PacmanBusy, PacmanExit, Holds, TypeOK
    <2> QED BY <2>1, <2>2, UnitFrame DEF Owners
  <1>2. CASE ExternalStart \/ ExternalReaped
    <2>1. /\ UNCHANGED <<unit, worker, helper>>
          /\ \A o \in Helpers \cup {Unit} : pac'[o] = pac[o]
      BY <1>2, SessionAssumption DEF ExternalStart, ExternalReaped, TypeOK, Owners, Unit, Ext
    <2> QED BY <2>1, UnitFrame
  <1>3. CASE WorkerStep \/ PublishProgress
    BY <1>3, UnitWorkerStep
  <1>4. CASE KillWorker \/ WorkerCrash
    <2>1. ~Alive' /\ unit' = "stopping" /\ UNCHANGED <<pac, helper>>
      BY <1>4 DEF KillWorker, WorkerCrash, NoWorker, Alive
    <2> QED BY <2>1 DEF UnitInv
  <1>5. CASE KillPacman
    <2>1. \A o \in Helpers \cup {Unit} : pac'[o].st # "absent" => pac[o].st # "absent"
      BY <1>5, SessionAssumption DEF KillPacman, Absent, TypeOK, Owners
    <2> QED BY <1>5, <2>1, UnitFrame DEF KillPacman
  <1>6. CASE UnitStopped
    BY <1>6 DEF UnitStopped, UnitInv, Alive
  <1>7. CASE Reboot
    BY <1>7 DEF Reboot, NoWorker, Absent, Owners, UnitInv, Alive
  <1>8. ASSUME NEW h \in Helpers, HelperStep(h)
        PROVE  UnitInv'
    BY <1>8, UnitHelperStep
  <1>9. ASSUME NEW h \in Helpers, NEW kind \in Kinds, Request(h, kind)
        PROVE  UnitInv'
    <2>1. /\ UNCHANGED <<unit, worker, pac>> /\ helper[h].pc = "idle"
          /\ \A g \in Helpers \ {h} : helper'[g] = helper[g]
      BY <1>9 DEF Request, HelperStays, Go, TypeOK
    <2> QED BY <2>1, UnitFrame
  <1>10. CASE UNCHANGED vars
    BY <1>10, UnitFrame DEF vars
  <1> QED
    BY <1>1, <1>2, <1>3, <1>4, <1>5, <1>6, <1>7, <1>8, <1>9, <1>10
       DEF Next, SystemdStep

\* systemd does not report the unit as down while its worker or its pacman is
\* there, which is what cancel_installation() waits for (helper.rs:482-490): for
\* any number of helpers and under every peril.
THEOREM UnitTellsTruth == Spec => []UnitInv
  <1>1. Init => UnitInv
    BY DEF Init, UnitInv, Alive, NoWorker, Absent, Owners
  <1>2. TypeOK /\ UnitInv /\ [Next]_vars => UnitInv'
    BY UnitPreserved
  <1> QED BY <1>1, <1>2, TypeCorrect, PTL DEF Spec

-----------------------------------------------------------------------------
(* One helper at a time: no new operation under a living worker.           *)

\* The panels and commands of a machine ask for one helper at a time.
OneHelper == \A g, h \in Helpers : g = h

\* Where a helper has decided to install, and where it has a copy of STATE that
\* it will write back.
Decided == {"scan", "unlock", "write"}
Cancels == {"stop", "stopping", "cancelScan", "cancelUnlock", "cancelWrite"}
Copies  == {"start", "startFailed"} \cup Cancels

\* Every copy of STATE in use is of the operation in STATE, and no pid recorded
\* anywhere is that of a worker which has not read STATE yet; a helper that has
\* decided to install has seen that there is no worker.
OpInv ==
  /\ state.pid <= starts
  /\ Alive => starts > 0
  /\ worker.pc = "boot" => state.pid < starts
  /\ worker.pc \notin {"dead", "boot"} =>
       worker.mem.op = state.op /\ worker.mem.pid = starts
  /\ \A h \in Helpers :
       /\ helper[h].pc \in Decided => ~Alive
       /\ helper[h].pc \in Copies =>
            /\ helper[h].snap.op = state.op
            /\ helper[h].snap.pid <= starts
            /\ worker.pc = "boot" => helper[h].snap.pid < starts

\* What NoTakeover says of a step.
Untaken == state'.op # state.op => ~Alive

\* A step of a worker that has read STATE.
LEMMA OpWorks ==
  ASSUME TypeOK, OpInv, UNCHANGED <<starts, helper>>,
         worker.pc \notin {"dead", "boot"}, worker'.pc \notin {"dead", "boot"},
         worker'.mem.op = worker.mem.op, worker'.mem.pid = worker.mem.pid,
         state' \in {state, worker.mem, worker'.mem}
  PROVE  OpInv' /\ Untaken
  BY DEF OpInv, Alive, TypeOK, Untaken

\* The worker is gone.
LEMMA OpDies ==
  ASSUME OpInv, UNCHANGED <<starts, state>>, ~Alive',
         helper' = helper \/ helper' = [h \in Helpers |-> IdleHelper]
  PROVE  OpInv' /\ Untaken
  BY DEF OpInv, Alive, IdleHelper, Decided, Copies, Cancels, Untaken

LEMMA OpFrame ==
  ASSUME OpInv, UNCHANGED <<starts, state, helper, worker>>
  PROVE  OpInv' /\ Untaken
  BY DEF OpInv, Alive, Untaken

LEMMA OpWorkerStep ==
  ASSUME TypeOK, OpInv, WorkerStep \/ PublishProgress
  PROVE  OpInv' /\ Untaken
  <1> USE DEF WorkerStays
  <1>0. \A p \in Phases : LET m == [worker.mem EXCEPT !.phase = p]
                          IN  m.op = worker.mem.op /\ m.pid = worker.mem.pid
    BY DEF TypeOK, WorkerRecs, States
  <1>f. Fail => /\ worker'.pc = "exit"
                /\ worker'.mem.op = worker.mem.op /\ worker'.mem.pid = worker.mem.pid
                /\ state' \in {state, worker'.mem}
    BY <1>0, FailMoves DEF Phases, Terminal
  <1>h. ASSUME NEW report \in Reports, Handle(report)
        PROVE  /\ worker'.pc \notin {"dead", "boot"}
               /\ worker'.mem.op = worker.mem.op /\ worker'.mem.pid = worker.mem.pid
               /\ state' \in {state, worker'.mem}
    BY <1>h, <1>f, HandleMoves
  <1>1. CASE WorkerNew
    <2>1. /\ worker'.pc = "inhibit" /\ worker.pc = "boot"
          /\ worker'.mem.op = state.op /\ worker'.mem.pid = starts
          /\ UNCHANGED <<state, starts, helper>>
      BY <1>1 DEF WorkerNew, TypeOK, WorkerRecs, States
    <2> QED BY <2>1 DEF OpInv, Alive, Untaken
  <1>2. CASE AcquireInhibitor \/ RescanAfterPreserve
    BY <1>2, <1>f, OpWorks DEF AcquireInhibitor, RescanAfterPreserve, TypeOK, WorkerRecs
  <1>3. CASE PublishStage
    <2> DEFINE m == [worker.mem EXCEPT !.phase = StagePhase[worker.stage]]
    <2>1. m.op = worker.mem.op /\ m.pid = worker.mem.pid
      BY DEF TypeOK, WorkerRecs, States
    <2>2. worker'.pc = "spawn" /\ worker'.mem = m /\ state' \in {m, state}
      BY <1>3 DEF PublishStage, Written, TypeOK, WorkerRecs
    <2> QED BY <1>3, <2>1, <2>2, OpWorks DEF PublishStage
  <1>4. CASE SpawnPacman
    <2>1. /\ worker'.pc \in {"wait", "exit"}
          /\ worker'.mem.op = worker.mem.op /\ worker'.mem.pid = worker.mem.pid
          /\ state' \in {state, worker'.mem}
      BY <1>4, <1>f DEF SpawnPacman, TypeOK, WorkerRecs
    <2> QED BY <1>4, <2>1, OpWorks DEF SpawnPacman
  <1>5. CASE PublishProgress
    BY <1>5, OpWorks DEF PublishProgress, Written
  <1>6. CASE StageSucceeds
    <2>1. CASE worker.stage = "install"
      <3> DEFINE m == [worker.mem EXCEPT !.phase = "complete"]
      <3>1. worker'.pc = "exit" /\ worker'.mem = m /\ state' \in {m, state}
        BY <1>6, <2>1 DEF StageSucceeds, Written, TypeOK, WorkerRecs
      <3> QED BY <1>0, <1>6, <3>1, OpWorks DEF StageSucceeds, Phases, Terminal
    <2>2. CASE worker.stage # "install"
      <3>1. worker'.pc = "publish" /\ worker'.mem = worker.mem /\ state' = state
        BY <1>6, <2>2 DEF StageSucceeds, TypeOK, WorkerRecs, Stages
      <3> QED BY <1>6, <3>1, OpWorks DEF StageSucceeds
    <2> QED BY <2>1, <2>2
  <1>7. CASE StageFails
    BY <1>7, <1>h, OpWorks DEF StageFails
  <1>8. CASE StagePacmanStopped
    BY <1>8, <1>f, <1>h, OpWorks DEF StagePacmanStopped
  <1>9. CASE KeyRecovered \/ UnlockAfterPreserve
    <2>1. /\ worker'.pc \in {"publish", "exit"}
          /\ worker'.mem.op = worker.mem.op /\ worker'.mem.pid = worker.mem.pid
          /\ state' \in {state, worker.mem, worker'.mem}
      BY <1>9, <1>f DEF KeyRecovered, UnlockAfterPreserve, Written, TypeOK, WorkerRecs
    <2> QED BY <1>9, <2>1, OpWorks DEF KeyRecovered, UnlockAfterPreserve
  <1>10. CASE PreserveFile
    <2>1. CASE Fail
      BY <1>10, <2>1, <1>f, OpWorks DEF PreserveFile
    <2>2. CASE ~Fail
      <3>1. worker' = [worker EXCEPT
                         !.pc = "preserved", !.files = worker.files + 1,
                         !.mem = [worker.mem EXCEPT !.phase = "installing"]]
            /\ state' = state
        BY <1>10, <2>2 DEF PreserveFile, TypeOK, WorkerRecs
      <3>2. worker'.pc = "preserved" /\ worker'.mem = [worker.mem EXCEPT !.phase = "installing"]
        BY <3>1 DEF TypeOK, WorkerRecs
      <3> QED BY <1>0, <1>10, <3>1, <3>2, OpWorks DEF PreserveFile, Phases, ActivePhases
    <2> QED BY <2>1, <2>2
  <1>11. CASE WorkerExit
    BY <1>11, OpDies DEF WorkerExit, NoWorker, Alive
  <1> QED
    BY <1>1, <1>2, <1>3, <1>4, <1>5, <1>6, <1>7, <1>8, <1>9, <1>10, <1>11 DEF WorkerStep

\* A worker that has published is recognized, so that a helper decides to install
\* only when there is none.
LEMMA WorkerIsSeen ==
  ASSUME TypeOK, OpInv, Alive, Steady
  PROVE  Active(state) /\ AliveAnswers(state.pid) = {TRUE}
  <1>1. Active(state) /\ state.pid = starts /\ starts > 0
    BY DEF OpInv, Steady
  <1>2. worker.pc # "boot"
    BY <1>1 DEF OpInv, TypeOK
  <1>3. state.pid # 0 /\ state.pid = worker.mem.pid
    BY <1>1, <1>2 DEF OpInv, Alive, TypeOK
  <1> QED BY <1>1, <1>3 DEF AliveAnswers

LEMMA OpHelperStep ==
  ASSUME OneHelper, "haste" \notin Perils,
         TypeOK, OpInv, NEW h \in Helpers, HelperStep(h)
  PROVE  OpInv' /\ Untaken
  <1> USE DEF HelperStays, Decided, Copies, Cancels, Untaken
  <1>0. \A g \in Helpers : g = h
    BY DEF OneHelper
  <1>1. CASE InstallRead(h)
    <2>1. UNCHANGED <<state, worker, starts>> /\ helper'[h].pc \in {"idle", "scan"}
      BY <1>1, GoMoves, DoneMoves DEF InstallRead
    <2>2. ASSUME Alive
          PROVE  helper'[h].pc # "scan"
      <3>1. Active(state) /\ AliveAnswers(state.pid) = {TRUE}
        BY <1>1, <2>2, WorkerIsSeen DEF InstallRead
      <3> QED BY <1>1, <3>1, DoneMoves DEF InstallRead
    <2> QED BY <1>0, <2>1, <2>2 DEF OpInv, Alive
  <1>2. CASE InstallScan(h) \/ InstallUnlock(h)
    <2>1. /\ UNCHANGED <<state, worker, starts>> /\ helper'[h].pc \in {"idle", "unlock", "write"}
          /\ helper[h].pc \in Decided
      BY <1>2, GoMoves, DoneMoves DEF InstallScan, InstallUnlock
    <2> QED BY <1>0, <2>1 DEF OpInv, Alive
  <1>3. CASE InstallWrite(h)
    <2> DEFINE new == [phase |-> "starting", op |-> ops + 1, pid |-> 0]
    <2>1. ~Alive /\ UNCHANGED <<worker, starts>>
      BY <1>3 DEF OpInv, InstallWrite
    <2>2. CASE state' = new /\ helper' = [helper EXCEPT ![h] = [pc |-> "start", snap |-> new]]
      BY <1>0, <2>1, <2>2 DEF OpInv, Alive, TypeOK, HelperRecs
    <2>3. CASE UNCHANGED state /\ Done(h)
      BY <1>0, <2>1, <2>3, DoneMoves DEF OpInv, Alive
    <2> QED BY <1>3, <2>2, <2>3 DEF InstallWrite
  <1>4. CASE InstallStart(h)
    <2>1. /\ helper[h].pc = "start" /\ UNCHANGED state
          /\ \/ helper'[h].pc = "idle"
             \/ helper'[h].pc = "startFailed" /\ helper'[h].snap = helper[h].snap
      BY <1>4, GoMoves, DoneMoves DEF InstallStart
    <2>2. CASE StartUnit
      <3>1. worker'.pc = "boot" /\ starts' = starts + 1
        BY <2>2 DEF StartUnit
      <3> QED
        BY <1>0, <2>1, <3>1 DEF OpInv, Alive, TypeOK, States, HelperRecs
    <2>3. CASE UNCHANGED <<worker, starts>>
      BY <1>0, <2>1, <2>3 DEF OpInv, Alive
    <2> QED BY <1>4, <2>2, <2>3 DEF InstallStart
  <1>5. CASE InstallFailed(h) \/ CancelWrite(h)
    <2>1. /\ helper[h].pc \in Copies /\ UNCHANGED <<worker, starts>> /\ helper'[h].pc = "idle"
          /\ \/ state' = state
             \/ state'.op = helper[h].snap.op /\ state'.pid = helper[h].snap.pid
      BY <1>5, DoneMoves DEF InstallFailed, CancelWrite, Written, TypeOK, HelperRecs, States
    <2> QED BY <1>0, <2>1 DEF OpInv, Alive
  <1>6. CASE CancelRead(h)
    <2>1. /\ UNCHANGED <<state, worker, starts>>
          /\ helper'[h].pc = "idle" \/ (helper'[h].pc = "stop" /\ helper'[h].snap = state)
      BY <1>6, DoneMoves DEF CancelRead, TypeOK
    <2> QED BY <1>0, <2>1 DEF OpInv, Alive
  <1>7. CASE CancelStop(h) \/ CancelStopped(h) \/ CancelScan(h) \/ CancelUnlock(h)
    <2>1. /\ UNCHANGED <<state, worker, starts>> /\ helper[h].pc \in Cancels
          /\ \/ helper'[h].pc = "idle"
             \/ helper'[h].pc \in Cancels /\ helper'[h].snap = helper[h].snap
      BY <1>7, GoMoves, DoneMoves DEF CancelStop, CancelStopped, CancelScan, CancelUnlock
    <2> QED BY <1>0, <2>1 DEF OpInv, Alive
  <1>8. CASE RemoveScan(h) \/ RemoveUnlock(h) \/ RemoveSpawn(h) \/ RemoveReap(h)
    <2>1. /\ UNCHANGED <<state, worker, starts>>
          /\ helper'[h].pc \in {"idle", "removeUnlock", "removeSpawn", "removeWait"}
      BY <1>8, GoMoves, DoneMoves DEF RemoveScan, RemoveUnlock, RemoveSpawn, RemoveReap
    <2> QED BY <1>0, <2>1 DEF OpInv, Alive
  <1> QED BY <1>1, <1>2, <1>3, <1>4, <1>5, <1>6, <1>7, <1>8 DEF HelperStep

LEMMA OpPreserved ==
  ASSUME OneHelper, "haste" \notin Perils, TypeOK, OpInv, [Next]_vars
  PROVE  OpInv' /\ Untaken
  <1>1. ASSUME NEW o \in Owners, PacmanFinishes(o)
        PROVE  OpInv' /\ Untaken
    BY <1>1, OpFrame DEF PacmanFinishes, PacmanLock, PacmanBusy, PacmanExit
  <1>2. CASE ExternalStart \/ ExternalReaped \/ KillPacman \/ UnitStopped \/ UNCHANGED vars
    BY <1>2, OpFrame DEF ExternalStart, ExternalReaped, KillPacman, UnitStopped, vars
  <1>3. CASE WorkerStep \/ PublishProgress
    BY <1>3, OpWorkerStep
  <1>4. CASE KillWorker \/ WorkerCrash \/ Reboot
    BY <1>4, OpDies DEF KillWorker, WorkerCrash, Reboot, NoWorker, Alive
  <1>5. ASSUME NEW h \in Helpers, HelperStep(h)
        PROVE  OpInv' /\ Untaken
    BY <1>5, OpHelperStep
  <1>6. ASSUME NEW h \in Helpers, NEW kind \in Kinds, Request(h, kind)
        PROVE  OpInv' /\ Untaken
    <2>1. UNCHANGED <<state, worker, starts>> /\ helper'[h].pc \in {"install", "cancel", "remove"}
      BY <1>6, GoMoves, SessionAssumption DEF Request, HelperStays
    <2> QED BY <2>1 DEF OpInv, OneHelper, Alive, Decided, Copies, Cancels, Untaken
  <1> QED BY <1>1, <1>2, <1>3, <1>4, <1>5, <1>6 DEF Next, SystemdStep

\* With one helper at a time that does not fall into the moments in which a worker
\* has not published yet or not ended yet, nothing makes a helper write a new
\* operation under a living worker, neither a crash, a reboot, a reused pid, a
\* full disk, a command that was given up nor another pacman (helper.rs:419-432).
THEOREM NoTakeoverHolds ==
  ASSUME OneHelper, "haste" \notin Perils
  PROVE  Spec => [](TypeOK /\ OpInv) /\ NoTakeover
  <1>1. Init => OpInv
    BY DEF Init, OpInv, Alive, NoWorker, EmptyState, IdleHelper, Decided, Copies, Cancels
  <1>2. TypeOK /\ OpInv /\ [Next]_vars => OpInv' /\ [state'.op # state.op => ~Alive]_vars
    BY OpPreserved DEF Untaken
  <1> QED BY <1>1, <1>2, TypeCorrect, PTL DEF Spec, NoTakeover

-----------------------------------------------------------------------------
(* One helper at a time, whose commands are not given up: what it has seen *)
(* stays true until it acts on it.                                         *)

Prompt == OneHelper /\ Perils \cap {"haste", "timeout"} = {}

\* Where a helper knows that no pacman runs for the unit, and that the unit is down.
Scanned == {"unlock", "write", "start", "startFailed"}
Down    == {"cancelScan", "cancelUnlock", "cancelWrite"}

\* A worker works under an active phase and publishes active phases until its
\* end, and so does its pacman; and a helper finds what it has seen.
CallInv ==
  /\ worker.pc \notin {"dead", "exit"} => Active(state)
  /\ worker.pc \notin {"dead", "boot", "exit"} => Active(worker.mem)
  /\ pac[Unit].st # "absent" => Active(state)
  /\ \A h \in Helpers :
       /\ helper[h].pc \in {"start", "startFailed"} =>
            ~Alive /\ state = helper[h].snap /\ state.phase = "starting"
       /\ helper[h].pc \in Scanned => pac[Unit].st = "absent"
       /\ helper[h].pc \in Down => unit = "inactive"

\* A step that changes neither the worker nor STATE nor a helper, and starts no
\* pacman of the unit.
LEMMA CallFrame ==
  ASSUME CallInv, UNCHANGED <<state, worker, helper>>,
         unit' = unit \/ unit' = "inactive",
         pac'[Unit].st # "absent" => pac[Unit].st # "absent"
  PROVE  CallInv'
  BY DEF CallInv, Alive, Active

\* The worker ends.
LEMMA CallDies ==
  ASSUME UnitInv, CallInv, Alive, ~Alive', UNCHANGED <<state, pac, helper>>
  PROVE  CallInv'
  BY DEF UnitInv, CallInv, Alive, Active, Down

\* A step of a worker that goes on.
LEMMA CallWorks ==
  ASSUME UnitInv, OpInv, CallInv, Alive, worker.pc # "exit", UNCHANGED <<unit, helper>>,
         worker'.pc # "dead",
         \/ worker'.pc = "exit" /\ pac'[Unit].st = "absent"
         \/ Active(state)' /\ (worker'.pc # "boot" => Active(worker.mem)')
  PROVE  CallInv'
  BY DEF UnitInv, OpInv, CallInv, Alive, Active, Decided, Scanned, Down

\* Every step of the worker in front of its end is one of these.
LEMMA CallWorkerStep ==
  ASSUME TypeOK, UnitInv, OpInv, CallInv, WorkerStep \/ PublishProgress
  PROVE  CallInv'
  <1> USE DEF WorkerStays
  <1>0. \A p \in ActivePhases : Active([worker.mem EXCEPT !.phase = p])
    BY DEF Active, TypeOK, WorkerRecs, States
  <1>1. CASE WorkerNew
    <2>1. /\ worker'.pc = "inhibit" /\ worker'.mem.phase = state.phase
          /\ worker.pc = "boot" /\ UNCHANGED <<state, unit, helper>>
      BY <1>1 DEF WorkerNew, TypeOK, WorkerRecs, States
    <2> QED BY <2>1, CallWorks DEF CallInv, Active, Alive
  <1>2. CASE AcquireInhibitor \/ RescanAfterPreserve
    <2>1. /\ worker.pc \in {"inhibit", "preserved"} /\ UNCHANGED <<unit, helper, pac>>
      BY <1>2 DEF AcquireInhibitor, RescanAfterPreserve
    <2>2. CASE Fail
      BY <2>1, <2>2, FailMoves, CallWorks DEF UnitInv, Alive
    <2>3. CASE ~Fail
      <3>1. worker'.pc \in {"publish", "unlock"} /\ worker'.mem = worker.mem /\ state' = state
        BY <1>2, <2>3 DEF AcquireInhibitor, RescanAfterPreserve, TypeOK, WorkerRecs
      <3> QED BY <2>1, <3>1, CallWorks DEF CallInv, Active, Alive
    <2> QED BY <2>2, <2>3
  <1>3. CASE PublishStage
    <2> DEFINE m == [worker.mem EXCEPT !.phase = StagePhase[worker.stage]]
    <2>1. Active(m)
      BY <1>0, StagePhaseType DEF TypeOK, WorkerRecs
    <2>2. /\ worker.pc = "publish" /\ UNCHANGED <<unit, helper>>
          /\ worker'.pc = "spawn" /\ worker'.mem = m /\ state' \in {m, state}
      BY <1>3 DEF PublishStage, Written, TypeOK, WorkerRecs
    <2> QED BY <2>1, <2>2, CallWorks DEF CallInv, Active, Alive
  <1>4. CASE SpawnPacman
    <2>1. worker.pc = "spawn" /\ UNCHANGED <<unit, helper>>
      BY <1>4 DEF SpawnPacman
    <2>2. CASE Fail /\ UNCHANGED pac
      BY <2>1, <2>2, FailMoves, CallWorks DEF UnitInv, Alive
    <2>3. CASE ~(Fail /\ UNCHANGED pac)
      <3>1. worker'.pc = "wait" /\ worker'.mem = worker.mem /\ state' = state
        BY <1>4, <2>3 DEF SpawnPacman, TypeOK, WorkerRecs
      <3> QED BY <2>1, <3>1, CallWorks DEF CallInv, Active, Alive
    <2> QED BY <2>2, <2>3
  <1>5. CASE PublishProgress
    <2>1. worker.pc = "wait" /\ UNCHANGED <<unit, helper, worker>>
          /\ state' \in {state, worker.mem}
      BY <1>5 DEF PublishProgress, Written
    <2> QED BY <2>1, CallWorks DEF CallInv, Active, Alive
  <1>6. CASE StageSucceeds \/ StageFails \/ StagePacmanStopped
    <2>1. /\ worker.pc = "wait" /\ UNCHANGED <<unit, helper>>
          /\ pac' = [pac EXCEPT ![Unit] = Absent]
      BY <1>6 DEF StageSucceeds, StageFails, StagePacmanStopped
    <2>3. pac'[Unit].st = "absent"
      BY <2>1 DEF Absent, TypeOK, Owners
    <2>2. \/ worker'.pc = "exit"
          \/ worker'.pc # "dead" /\ worker'.mem = worker.mem /\ state' = state
      BY <1>6, FailMoves, HandleMoves DEF StageSucceeds, StageFails, StagePacmanStopped,
         TypeOK, WorkerRecs, Stages
    <2> QED BY <2>1, <2>2, <2>3, CallWorks DEF CallInv, Active, Alive
  <1>7. CASE KeyRecovered \/ UnlockAfterPreserve
    <2>1. worker.pc \in {"recover", "unlock"} /\ UNCHANGED <<unit, helper, pac>>
      BY <1>7 DEF KeyRecovered, UnlockAfterPreserve
    <2>2. CASE Fail
      BY <2>1, <2>2, FailMoves, CallWorks DEF UnitInv, Alive
    <2>3. CASE ~Fail
      <3>1. /\ worker'.pc = "publish" /\ worker'.mem = worker.mem
            /\ state' \in {state, worker.mem}
        BY <1>7, <2>3 DEF KeyRecovered, UnlockAfterPreserve, Written, TypeOK, WorkerRecs
      <3> QED BY <2>1, <3>1, CallWorks DEF CallInv, Active, Alive
    <2> QED BY <2>2, <2>3
  <1>8. CASE PreserveFile
    <2>1. worker.pc = "conflict" /\ UNCHANGED <<unit, helper, pac>>
      BY <1>8 DEF PreserveFile
    <2>2. CASE Fail
      BY <2>1, <2>2, FailMoves, CallWorks DEF UnitInv, Alive
    <2>3. CASE ~Fail
      <3>1. worker' = [worker EXCEPT
                         !.pc = "preserved", !.files = worker.files + 1,
                         !.mem = [worker.mem EXCEPT !.phase = "installing"]]
            /\ state' = state
        BY <1>8, <2>3 DEF PreserveFile, TypeOK, WorkerRecs
      <3>2. worker'.pc = "preserved" /\ Active(worker.mem)'
        BY <1>0, <3>1 DEF TypeOK, WorkerRecs, ActivePhases, Active
      <3> QED BY <2>1, <3>1, <3>2, CallWorks DEF CallInv, Active, Alive
    <2> QED BY <2>2, <2>3
  <1>9. CASE WorkerExit
    BY <1>9, CallDies DEF WorkerExit, NoWorker, Alive
  <1> QED
    BY <1>1, <1>2, <1>3, <1>4, <1>5, <1>6, <1>7, <1>8, <1>9 DEF WorkerStep

LEMMA CallHelperStep ==
  ASSUME Prompt, TypeOK, UnitInv, OpInv, CallInv, NEW h \in Helpers, HelperStep(h)
  PROVE  CallInv'
  <1> USE DEF HelperStays, Scanned, Down
  <1>0. \A g \in Helpers : g = h
    BY DEF Prompt, OneHelper
  <1>1. CASE InstallRead(h)
    <2>1. UNCHANGED <<state, worker, pac, unit>> /\ helper'[h].pc \in {"idle", "scan"}
      BY <1>1, GoMoves, DoneMoves DEF InstallRead
    <2> QED BY <1>0, <2>1 DEF CallInv, Alive, Active
  <1>2. CASE InstallScan(h)
    <2>1. /\ UNCHANGED <<state, worker, pac, unit>>
          /\ \/ helper'[h].pc = "idle"
             \/ helper'[h].pc = "unlock" /\ pac[Unit].st = "absent"
      BY <1>2, GoMoves, DoneMoves DEF InstallScan, PacmanRunning, Owners
    <2> QED BY <1>0, <2>1 DEF CallInv, Alive, Active
  <1>3. CASE InstallUnlock(h)
    <2>1. /\ UNCHANGED <<state, worker, pac, unit>> /\ helper[h].pc = "unlock"
          /\ helper'[h].pc = "write"
      BY <1>3, GoMoves DEF InstallUnlock
    <2> QED BY <1>0, <2>1 DEF CallInv, Alive, Active
  <1>4. CASE InstallWrite(h)
    <2> DEFINE new == [phase |-> "starting", op |-> ops + 1, pid |-> 0]
    <2>1. UNCHANGED <<worker, pac, unit>> /\ helper[h].pc = "write" /\ ~Alive
      BY <1>4 DEF InstallWrite, OpInv, Decided
    <2>2. CASE state' = new /\ helper' = [helper EXCEPT ![h] = [pc |-> "start", snap |-> new]]
      <3>1. helper'[h].pc = "start" /\ helper'[h].snap = new
        BY <2>2 DEF TypeOK
      <3> QED BY <1>0, <2>1, <2>2, <3>1 DEF CallInv, Alive, Active
    <2>3. CASE UNCHANGED state /\ Done(h)
      BY <1>0, <2>1, <2>3, DoneMoves DEF CallInv, Alive, Active
    <2> QED BY <1>4, <2>2, <2>3 DEF InstallWrite
  <1>5. CASE InstallStart(h)
    <2>1. helper[h].pc = "start" /\ UNCHANGED <<state, pac>>
      BY <1>5 DEF InstallStart
    <2>2. CASE StartUnit /\ Done(h)
      <3>1. worker'.pc = "boot" /\ helper'[h].pc = "idle"
        BY <2>2, DoneMoves DEF StartUnit
      <3> QED BY <1>0, <2>1, <3>1 DEF CallInv, Alive, Active, ActivePhases
    <2>3. CASE UNCHANGED <<unit, worker>> /\ Done(h)
      BY <1>0, <2>1, <2>3, DoneMoves DEF CallInv, Alive, Active
    <2>4. CASE UNCHANGED <<unit, worker>> /\ Go(h, "startFailed")
      BY <1>0, <2>1, <2>4, GoMoves DEF CallInv, Alive, Active
    <2> QED BY <1>5, <2>2, <2>3, <2>4 DEF InstallStart, Prompt
  <1>6. CASE InstallFailed(h) \/ CancelWrite(h)
    <2>1. /\ UNCHANGED <<worker, pac, unit>> /\ helper'[h].pc = "idle"
          /\ \/ helper[h].pc = "startFailed" \/ helper[h].pc = "cancelWrite"
      BY <1>6, DoneMoves DEF InstallFailed, CancelWrite
    <2>2. ~Alive /\ pac[Unit].st = "absent"
      BY <2>1 DEF CallInv, UnitInv
    <2> QED BY <1>0, <2>1, <2>2 DEF CallInv, Alive, Active
  <1>7. CASE CancelRead(h) \/ CancelStop(h)
    <2>1. /\ UNCHANGED <<state, worker, pac>>
          /\ helper'[h].pc \in {"idle", "stop", "stopping"}
      BY <1>7, DoneMoves, GoMoves DEF CancelRead, CancelStop, TypeOK
    <2> QED BY <1>0, <2>1 DEF CallInv, Alive, Active
  <1>8. CASE CancelStopped(h) \/ CancelScan(h) \/ CancelUnlock(h)
    <2>1. /\ UNCHANGED <<state, worker, pac, unit>>
          /\ helper'[h].pc = "idle" \/ (helper'[h].pc \in Down /\ unit = "inactive")
      BY <1>8, DoneMoves, GoMoves DEF CancelStopped, CancelScan, CancelUnlock, CallInv
    <2> QED BY <1>0, <2>1 DEF CallInv, Alive, Active
  <1>9. CASE RemoveScan(h) \/ RemoveUnlock(h) \/ RemoveSpawn(h) \/ RemoveReap(h)
    <2>1. /\ UNCHANGED <<state, worker, unit>> /\ pac'[Unit] = pac[Unit]
          /\ helper'[h].pc \in {"idle"} \cup Removing
      BY <1>9, DoneMoves, GoMoves, SessionAssumption DEF RemoveScan, RemoveUnlock,
         RemoveSpawn, RemoveReap, Removing, TypeOK, Owners
    <2> QED BY <1>0, <2>1 DEF CallInv, Removing, Alive, Active
  <1> QED
    BY <1>1, <1>2, <1>3, <1>4, <1>5, <1>6, <1>7, <1>8, <1>9 DEF HelperStep

LEMMA CallPreserved ==
  ASSUME Prompt, TypeOK, UnitInv, OpInv, CallInv, [Next]_vars
  PROVE  CallInv'
  <1>1. ASSUME NEW o \in Owners, PacmanFinishes(o)
        PROVE  CallInv'
    <2>1. pac'[Unit].st # "absent" => pac[Unit].st # "absent"
      BY <1>1 DEF PacmanFinishes, PacmanLock, PacmanBusy, PacmanExit, Holds, TypeOK, Owners
    <2> QED BY <1>1, <2>1, CallFrame DEF PacmanFinishes, PacmanLock, PacmanBusy, PacmanExit
  <1>2. CASE ExternalStart \/ ExternalReaped
    <2>1. pac'[Unit] = pac[Unit]
      BY <1>2 DEF ExternalStart, ExternalReaped, TypeOK, Owners, Unit, Ext
    <2> QED BY <1>2, <2>1, CallFrame DEF ExternalStart, ExternalReaped
  <1>3. CASE WorkerStep \/ PublishProgress
    BY <1>3, CallWorkerStep
  <1>4. CASE KillWorker \/ WorkerCrash
    BY <1>4, CallDies DEF KillWorker, WorkerCrash, NoWorker, Alive
  <1>5. CASE KillPacman \/ UnitStopped \/ UNCHANGED vars
    <2>1. pac'[Unit].st # "absent" => pac[Unit].st # "absent"
      BY <1>5 DEF KillPacman, UnitStopped, vars
    <2> QED BY <1>5, <2>1, CallFrame DEF KillPacman, UnitStopped, vars
  <1>6. CASE Reboot
    BY <1>6 DEF Reboot, CallInv, Alive, NoWorker, Absent, IdleHelper, Owners, Scanned, Down
  <1>7. ASSUME NEW h \in Helpers, HelperStep(h)
        PROVE  CallInv'
    BY <1>7, CallHelperStep
  <1>8. ASSUME NEW h \in Helpers, NEW kind \in Kinds, Request(h, kind)
        PROVE  CallInv'
    <2>1. /\ UNCHANGED <<state, worker, pac, unit>>
          /\ helper'[h].pc \in {"install", "cancel", "remove"}
      BY <1>8, GoMoves, SessionAssumption DEF Request, HelperStays
    <2> QED BY <2>1 DEF CallInv, Prompt, OneHelper, Alive, Active, Scanned, Down
  <1> QED BY <1>1, <1>2, <1>3, <1>4, <1>5, <1>6, <1>7, <1>8 DEF Next, SystemdStep

LEMMA CallHolds ==
  ASSUME Prompt
  PROVE  Spec => [](TypeOK /\ UnitInv /\ OpInv /\ CallInv)
  <1>0. OneHelper /\ "haste" \notin Perils
    BY DEF Prompt
  <1>1. Init => CallInv
    BY DEF Init, CallInv, Alive, NoWorker, EmptyState, IdleHelper, Absent, Owners, Scanned,
       Down
  <1>2. TypeOK /\ UnitInv /\ OpInv /\ CallInv /\ [Next]_vars => CallInv'
    BY CallPreserved
  <1>3. Spec => []OpInv
    BY <1>0, NoTakeoverHolds, PTL
  <1> QED BY <1>1, <1>2, <1>3, TypeCorrect, UnitTellsTruth, PTL DEF Spec

-----------------------------------------------------------------------------
(* One helper and no other pacman: but for a removal of a package, db.lck  *)
(* is not taken from its owner.                                            *)

Alone == Prompt /\ "external" \notin Perils

\* Nobody here started a pacman that nobody here knows of.
LockInv == pac[Ext].st = "absent"

\* No package is being removed.
NoRemoval == \A h \in Helpers : helper[h].pc \notin Removing

\* What UpdateLockKept says of a step.
Kept == NoRemoval => \A o \in Owners : lock = o /\ Holds(o)
                                        => lock' = o \/ pac'[o].st # "holding"

\* But for a removal, the only pacman there may be is the unit's.
LEMMA UnitsAlone ==
  ASSUME UnitInv, LockInv, NoRemoval, NEW o \in Owners, pac[o].st # "absent"
  PROVE  o = Unit
  BY DEF UnitInv, LockInv, NoRemoval, Removing, Owners

\* A kill takes db.lck away from nobody but the pacman it kills.
LEMMA LockKilled ==
  ASSUME TypeOK, pac' = [pac EXCEPT ![Unit] = Absent], LockAfterKill(Unit)
  PROVE  Kept
  <1>1. pac'[Unit].st = "absent"
    BY DEF TypeOK, Owners, Absent
  <1>2. lock' = lock \/ lock = Unit
    BY DEF LockAfterKill
  <1> QED BY <1>1, <1>2 DEF Kept, Holds

\* At each of the four removals of db.lck but that of remove_package no pacman is
\* there: what the scan before it has seen is still so (helper.rs:429, 496;
\* worker.rs:515).
LEMMA NobodyAtUnlock ==
  ASSUME Alone, UnitInv, CallInv, LockInv, NoRemoval,
         \/ worker.pc = "unlock"
         \/ \E h \in Helpers : helper[h].pc \in {"unlock", "cancelUnlock"}
  PROVE  ~PacmanRunning
  <1>1. pac[Unit].st = "absent"
    BY DEF UnitInv, CallInv, Alive, Scanned, Down
  <1> QED BY <1>1, UnitsAlone DEF PacmanRunning

\* No step brings a pacman that nobody here knows of.
LEMMA LockPreserved ==
  ASSUME Alone, TypeOK, LockInv, [Next]_vars
  PROVE  LockInv'
  <1> USE SessionAssumption DEF WorkerStays, HelperStays
  <1>0. Ext \in Owners /\ Unit # Ext /\ \A h \in Helpers : h # Ext
    BY DEF Owners, Unit, Ext
  <1>1. ASSUME NEW o \in Owners, PacmanFinishes(o)
        PROVE  LockInv'
    BY <1>0, <1>1 DEF PacmanFinishes, PacmanLock, PacmanBusy, PacmanExit, Holds, LockInv, TypeOK
  <1>2. CASE ExternalStart \/ ExternalReaped
    BY <1>2 DEF ExternalStart, ExternalReaped, Alone, LockInv, Exited
  <1>3. ASSUME UNCHANGED pac \/ \E r : pac' = [pac EXCEPT ![Unit] = r]
        PROVE  LockInv'
    BY <1>0, <1>3 DEF LockInv, TypeOK
  <1>4. CASE WorkerStep \/ PublishProgress \/ SystemdStep \/ WorkerCrash \/ UNCHANGED vars
    BY <1>3, <1>4 DEF WorkerStep, WorkerNew, AcquireInhibitor, PublishStage, SpawnPacman,
       StageSucceeds, StageFails, StagePacmanStopped, KeyRecovered, PreserveFile,
       RescanAfterPreserve, UnlockAfterPreserve, WorkerExit, PublishProgress, SystemdStep,
       KillWorker, KillPacman, UnitStopped, WorkerCrash, vars
  <1>5. CASE Reboot
    BY <1>0, <1>5 DEF Reboot, LockInv, Absent
  <1>6. ASSUME NEW h \in Helpers, HelperStep(h)
        PROVE  LockInv'
    <2>1. UNCHANGED pac \/ \E r : pac' = [pac EXCEPT ![h] = r]
      BY <1>6 DEF HelperStep, InstallRead, InstallScan, InstallUnlock, InstallWrite,
         InstallStart, InstallFailed, CancelRead, CancelStop, CancelStopped, CancelScan,
         CancelUnlock, CancelWrite, RemoveScan, RemoveUnlock, RemoveSpawn, RemoveReap
    <2> QED BY <1>0, <2>1 DEF LockInv, TypeOK
  <1>7. ASSUME NEW h \in Helpers, NEW kind \in Kinds, Request(h, kind)
        PROVE  LockInv'
    BY <1>7 DEF Request, LockInv
  <1> QED BY <1>1, <1>2, <1>4, <1>5, <1>6, <1>7 DEF Next

LEMMA LockKept ==
  ASSUME Alone, TypeOK, UnitInv, CallInv, LockInv, [Next]_vars
  PROVE  Kept
  <1> USE DEF WorkerStays, HelperStays
  <1>0. ASSUME UNCHANGED lock
        PROVE  Kept
    BY <1>0 DEF Kept
  <1>1. ASSUME NEW o \in Owners, PacmanFinishes(o)
        PROVE  Kept
    <2>1. CASE PacmanLock(o)
      BY <2>1, SessionAssumption DEF PacmanLock, Kept, Owners, Unit, Ext
    <2>2. CASE PacmanBusy(o)
      BY <1>0, <2>2 DEF PacmanBusy
    <2>3. CASE PacmanExit(o)
      <3>1. pac'[o].st # "holding" /\ pac[o].st = "holding"
        BY <2>3 DEF PacmanExit, Holds, TypeOK, PacRecs
      <3> QED BY <3>1, UnitsAlone DEF Kept, Holds
    <2> QED BY <1>1, <2>1, <2>2, <2>3 DEF PacmanFinishes
  <1>2. CASE \/ ExternalStart \/ ExternalReaped \/ WorkerNew \/ AcquireInhibitor
             \/ PublishStage \/ SpawnPacman \/ PublishProgress \/ StageSucceeds \/ StageFails
             \/ KeyRecovered \/ PreserveFile \/ RescanAfterPreserve \/ WorkerExit
             \/ KillWorker \/ UnitStopped \/ WorkerCrash \/ UNCHANGED vars
    BY <1>0, <1>2 DEF ExternalStart, ExternalReaped, WorkerNew, AcquireInhibitor,
       PublishStage, SpawnPacman, PublishProgress, StageSucceeds, StageFails, KeyRecovered,
       PreserveFile, RescanAfterPreserve, WorkerExit, KillWorker, UnitStopped, WorkerCrash,
       vars
  <1>3. CASE StagePacmanStopped \/ KillPacman
    BY <1>3, LockKilled DEF StagePacmanStopped, KillPacman
  <1>4. CASE UnlockAfterPreserve
    BY <1>4, NobodyAtUnlock DEF UnlockAfterPreserve, Kept, PacmanRunning, Holds
  <1>5. CASE Reboot
    BY <1>5 DEF Reboot, Kept, Absent
  <1>6. ASSUME NEW h \in Helpers, HelperStep(h)
        PROVE  Kept
    <2>1. CASE InstallUnlock(h) \/ CancelUnlock(h)
      BY <2>1, NobodyAtUnlock DEF InstallUnlock, CancelUnlock, Kept, PacmanRunning, Holds
    <2>2. CASE RemoveUnlock(h)
      BY <2>2 DEF RemoveUnlock, Kept, NoRemoval, Removing
    <2>3. CASE \/ InstallRead(h) \/ InstallScan(h) \/ InstallWrite(h) \/ InstallStart(h)
               \/ InstallFailed(h) \/ CancelRead(h) \/ CancelStop(h) \/ CancelStopped(h)
               \/ CancelScan(h) \/ CancelWrite(h) \/ RemoveScan(h) \/ RemoveSpawn(h)
               \/ RemoveReap(h)
      BY <1>0, <2>3 DEF InstallRead, InstallScan, InstallWrite, InstallStart, InstallFailed,
         CancelRead, CancelStop, CancelStopped, CancelScan, CancelWrite, RemoveScan,
         RemoveSpawn, RemoveReap
    <2> QED BY <1>6, <2>1, <2>2, <2>3 DEF HelperStep
  <1>7. ASSUME NEW h \in Helpers, NEW kind \in Kinds, Request(h, kind)
        PROVE  Kept
    BY <1>0, <1>7 DEF Request
  <1> QED
    BY <1>1, <1>2, <1>3, <1>4, <1>5, <1>6, <1>7 DEF Next, WorkerStep, SystemdStep

LEMMA LockHolds ==
  ASSUME Alone
  PROVE  Spec => []LockInv
  <1>0. Prompt
    BY DEF Alone
  <1>1. Init => LockInv
    BY DEF Init, LockInv, Absent, Owners
  <1>2. TypeOK /\ LockInv /\ [Next]_vars => LockInv'
    BY LockPreserved
  <1> QED BY <1>1, <1>2, TypeCorrect, PTL DEF Spec

\* With one helper at a time, no pacman of somebody else and no command that was
\* given up, neither an installation nor a cancellation nor a recovery of files
\* takes db.lck from a pacman that holds it, whatever crashes, reboots and full
\* disks leave behind; only the removal of a package may (helper.rs:131).
THEOREM LockKeptHolds ==
  ASSUME Alone
  PROVE  Spec => UpdateLockKept
  <1>0. Prompt
    BY DEF Alone
  <1>1. TypeOK /\ UnitInv /\ CallInv /\ LockInv /\ [Next]_vars
          => [(\A h \in Helpers : helper[h].pc \notin Removing) =>
                \A o \in Owners : lock = o /\ Holds(o)
                                   => lock' = o \/ pac'[o].st # "holding"]_vars
    BY LockKept DEF Kept, NoRemoval
  <1> QED BY <1>0, <1>1, CallHolds, LockHolds, PTL DEF Spec, UpdateLockKept

-----------------------------------------------------------------------------
(* And STATE can be written: it shows what goes on.                        *)

\* A worker that fails ends under a phase that says so.
LEMMA FailEnds ==
  ASSUME "diskfull" \notin Perils, TypeOK, Fail
  PROVE  worker'.pc = "exit" /\ state'.phase = "failed" /\ state' = worker'.mem
  BY FailMoves DEF TypeOK, WorkerRecs, States

\* As long as nothing crashed, an active phase has a worker under it that will
\* publish its end, or a helper that is about to start one or to write the end; and
\* a unit is told to stop only by a helper that waits for it.
EndInv ==
  /\ crashes = 0 /\ Active(state) =>
       \/ worker.pc \notin {"dead", "exit"}
       \/ \E h \in Helpers : helper[h].pc \in {"start", "startFailed"}
       \/ unit # "active" /\ \E h \in Helpers : helper[h].pc \in {"stopping"} \cup Down
  /\ crashes = 0 /\ unit = "stopping" /\ Alive =>
       \E h \in Helpers : helper[h].pc = "stopping"

\* The worker goes on, or ends under another phase.
LEMMA EndWorks ==
  ASSUME EndInv, Alive, UNCHANGED <<crashes, unit, helper>>,
         worker'.pc \notin {"dead", "exit"} \/ ~Active(state)'
  PROVE  EndInv'
  BY DEF EndInv, Alive, Active

LEMMA EndWorkerStep ==
  ASSUME "diskfull" \notin Perils, TypeOK, UnitInv, CallInv, EndInv,
         WorkerStep \/ PublishProgress
  PROVE  EndInv'
  <1> USE DEF WorkerStays
  <1>f. Fail => ~Active(state)'
    BY FailEnds DEF Active, ActivePhases
  <1>1. CASE WorkerNew \/ PublishStage \/ PublishProgress \/ UnlockAfterPreserve
    <2>1. /\ Alive /\ worker'.pc \notin {"dead", "exit"}
          /\ UNCHANGED <<crashes, unit, helper>>
      BY <1>1 DEF WorkerNew, PublishStage, PublishProgress, UnlockAfterPreserve, Alive,
         TypeOK, WorkerRecs
    <2> QED BY <2>1, EndWorks
  <1>2. CASE AcquireInhibitor \/ SpawnPacman \/ StageFails \/ StagePacmanStopped
             \/ KeyRecovered \/ PreserveFile \/ RescanAfterPreserve
    <2>1. Alive /\ UNCHANGED <<crashes, unit, helper>>
      BY <1>2 DEF AcquireInhibitor, SpawnPacman, StageFails, StagePacmanStopped,
         KeyRecovered, PreserveFile, RescanAfterPreserve, Alive
    <2>2. Fail \/ worker'.pc \notin {"dead", "exit"}
      BY <1>2, HandleMoves DEF AcquireInhibitor, SpawnPacman, StageFails,
         StagePacmanStopped, KeyRecovered, PreserveFile, RescanAfterPreserve, TypeOK,
         WorkerRecs
    <2> QED BY <2>1, <2>2, <1>f, EndWorks
  <1>3. CASE StageSucceeds
    <2>1. Alive /\ UNCHANGED <<crashes, unit, helper>>
      BY <1>3 DEF StageSucceeds, Alive
    <2>2. CASE worker.stage = "install"
      <3>1. state' = [worker.mem EXCEPT !.phase = "complete"]
        BY <1>3, <2>2 DEF StageSucceeds, Written
      <3>2. state'.phase = "complete"
        BY <3>1 DEF TypeOK, WorkerRecs, States
      <3> QED BY <2>1, <3>2, EndWorks DEF Active, ActivePhases
    <2>3. CASE worker.stage # "install"
      <3>1. worker'.pc = "publish"
        BY <1>3, <2>3 DEF StageSucceeds, TypeOK, WorkerRecs, Stages
      <3> QED BY <2>1, <3>1, EndWorks
    <2> QED BY <2>2, <2>3
  <1>4. CASE WorkerExit
    <2>1. /\ worker.pc = "exit" /\ worker'.pc = "dead" /\ unit' = "stopping"
          /\ UNCHANGED <<crashes, state, helper>>
      BY <1>4 DEF WorkerExit, NoWorker
    <2> QED BY <2>1 DEF EndInv, CallInv, Alive, Active
  <1> QED BY <1>1, <1>2, <1>3, <1>4 DEF WorkerStep

LEMMA EndHelperStep ==
  ASSUME Alone, "diskfull" \notin Perils, TypeOK, UnitInv, CallInv, LockInv, EndInv,
         NEW h \in Helpers, HelperStep(h)
  PROVE  EndInv'
  <1> USE DEF HelperStays, Down
  <1>0. \A g \in Helpers : g = h
    BY DEF Alone, Prompt, OneHelper
  <1>1. CASE InstallRead(h) \/ InstallScan(h) \/ InstallUnlock(h) \/ CancelRead(h)
    <2>1. /\ UNCHANGED <<state, worker, unit, crashes>>
          /\ helper[h].pc \in {"install", "scan", "unlock", "cancel"}
      BY <1>1 DEF InstallRead, InstallScan, InstallUnlock, CancelRead
    <2> QED BY <1>0, <2>1 DEF EndInv, Alive, Active
  <1>2. CASE InstallWrite(h)
    <2>1. /\ UNCHANGED <<worker, unit, crashes>> /\ helper'[h].pc = "start"
          /\ helper[h].pc = "write"
      BY <1>2 DEF InstallWrite, TypeOK
    <2> QED BY <1>0, <2>1 DEF EndInv, Alive, Active
  <1>3. CASE InstallStart(h)
    <2>1. helper[h].pc = "start" /\ UNCHANGED <<state, crashes>> /\ unit # "active"
      BY <1>3 DEF InstallStart, CallInv, UnitInv
    <2>2. CASE StartUnit
      BY <2>2 DEF StartUnit, EndInv
    <2>3. CASE Go(h, "startFailed") /\ UNCHANGED <<unit, worker>>
      BY <1>0, <2>1, <2>3, GoMoves DEF EndInv, CallInv, Alive
    <2> QED BY <1>3, <2>1, <2>2, <2>3 DEF InstallStart
  <1>4. CASE InstallFailed(h) \/ CancelWrite(h)
    <2>1. /\ UNCHANGED <<worker, unit, crashes>>
          /\ state'.phase \in {"failed", "cancelled"}
          /\ helper[h].pc \in {"startFailed", "cancelWrite"}
      BY <1>4 DEF InstallFailed, CancelWrite, Written, TypeOK, HelperRecs, States
    <2> QED BY <1>0, <2>1 DEF EndInv, Alive, Active, ActivePhases
  <1>5. CASE CancelStop(h)
    <2>1. /\ helper[h].pc = "stop" /\ helper'[h].pc = "stopping"
          /\ UNCHANGED <<state, worker, crashes>>
      BY <1>5, GoMoves DEF CancelStop
    <2> QED BY <1>0, <2>1 DEF EndInv, Alive, Active
  <1>6. CASE CancelStopped(h) \/ CancelScan(h) \/ CancelUnlock(h)
    <2>1. unit = "inactive" /\ helper[h].pc \in {"stopping"} \cup Down
      BY <1>6 DEF CancelStopped, CancelScan, CancelUnlock, CallInv, Alone, Prompt
    <2>2. helper'[h].pc \in Down /\ UNCHANGED <<state, worker, unit, crashes>>
      <3>1. CASE CancelStopped(h)
        BY <3>1, GoMoves DEF CancelStopped, Alone, Prompt
      <3>2. CASE CancelScan(h)
        <4>1. ~PacmanRunning
          BY <1>0, <2>1, <3>2 DEF CancelScan, PacmanRunning, UnitInv, LockInv, Owners
        <4> QED BY <3>2, <4>1, GoMoves DEF CancelScan
      <3>3. CASE CancelUnlock(h)
        BY <3>3, GoMoves DEF CancelUnlock
      <3> QED BY <1>6, <3>1, <3>2, <3>3
    <2> QED BY <1>0, <2>1, <2>2 DEF EndInv, Alive, Active
  <1>7. CASE RemoveScan(h) \/ RemoveUnlock(h) \/ RemoveSpawn(h) \/ RemoveReap(h)
    <2>1. /\ UNCHANGED <<state, worker, unit, crashes>>
          /\ helper[h].pc \in {"remove"} \cup Removing
      BY <1>7 DEF RemoveScan, RemoveUnlock, RemoveSpawn, RemoveReap, Removing
    <2> QED BY <1>0, <2>1 DEF EndInv, Alive, Active, Removing
  <1> QED BY <1>1, <1>2, <1>3, <1>4, <1>5, <1>6, <1>7 DEF HelperStep

LEMMA EndPreserved ==
  ASSUME Alone, "diskfull" \notin Perils, TypeOK, UnitInv, CallInv, LockInv, EndInv,
         [Next]_vars
  PROVE  EndInv'
  <1>1. ASSUME UNCHANGED <<state, worker, unit, helper, crashes>>
        PROVE  EndInv'
    BY <1>1 DEF EndInv, Alive, Active
  <1>2. ASSUME NEW o \in Owners, PacmanFinishes(o)
        PROVE  EndInv'
    BY <1>1, <1>2 DEF PacmanFinishes, PacmanLock, PacmanBusy, PacmanExit
  <1>3. CASE ExternalStart \/ ExternalReaped \/ KillPacman \/ UNCHANGED vars
    BY <1>1, <1>3 DEF ExternalStart, ExternalReaped, KillPacman, vars
  <1>4. CASE WorkerStep \/ PublishProgress
    BY <1>4, EndWorkerStep
  <1>5. CASE KillWorker
    <2>1. /\ unit = "stopping" /\ Alive /\ worker'.pc = "dead"
          /\ UNCHANGED <<state, unit, helper, crashes>>
      BY <1>5 DEF KillWorker, NoWorker
    <2> QED BY <2>1 DEF EndInv, Alive, Active
  <1>6. CASE UnitStopped
    BY <1>6 DEF UnitStopped, EndInv, Alive, Active
  <1>7. CASE WorkerCrash \/ Reboot
    <2>1. crashes' # 0
      BY <1>7 DEF WorkerCrash, Reboot, TypeOK
    <2> QED BY <2>1 DEF EndInv
  <1>8. ASSUME NEW h \in Helpers, HelperStep(h)
        PROVE  EndInv'
    BY <1>8, EndHelperStep
  <1>9. ASSUME NEW h \in Helpers, NEW kind \in Kinds, Request(h, kind)
        PROVE  EndInv'
    <2>1. UNCHANGED <<state, worker, unit, crashes>> /\ helper[h].pc = "idle"
      BY <1>9 DEF Request, HelperStays
    <2> QED BY <2>1 DEF EndInv, Alone, Prompt, OneHelper, Alive, Active, Down
  <1> QED
    BY <1>1, <1>2, <1>3, <1>4, <1>5, <1>6, <1>7, <1>8, <1>9 DEF Next, SystemdStep

\* With one helper at a time and nothing else in the way, STATE shows what goes
\* on: after its end no pacman of the update runs, and without a crash an active
\* phase is one that somebody will end.
THEOREM PhaseMatchesHolds ==
  ASSUME OneHelper, Perils \subseteq {"pidreuse"}
  PROVE  Spec => []PhaseMatchesWorker
  <1>0. Alone /\ Prompt /\ "diskfull" \notin Perils
    BY DEF Alone, Prompt
  <1>1. Init => EndInv
    BY DEF Init, EndInv, EmptyState, Active, ActivePhases
  <1>2. TypeOK /\ UnitInv /\ CallInv /\ LockInv /\ EndInv /\ [Next]_vars => EndInv'
    BY <1>0, EndPreserved
  <1>3. TypeOK /\ UnitInv /\ CallInv /\ EndInv => PhaseMatchesWorker
    BY DEF UnitInv, CallInv, EndInv, PhaseMatchesWorker, Live, Active, ActivePhases,
       Terminal, Alive, Down
  <1> QED BY <1>0, <1>1, <1>2, <1>3, CallHolds, LockHolds, PTL DEF Spec

-----------------------------------------------------------------------------
(* The refinement of UpdateLifecycle.                                      *)

\* A worker has published what it has in memory, and how far its stages have
\* brought STATE; who is cancelling has seen a download, which does not come back
\* to its start; no operation is skipped.
LifeInv ==
  /\ state.op = ops
  /\ worker.pc \in {"boot", "inhibit"} => worker.stage = "prepare" /\ state.phase = "starting"
  /\ worker.pc \notin {"dead", "boot"} => worker.mem.phase = state.phase
  /\ worker.pc = "publish" =>
       \/ worker.stage = "prepare"  /\ state.phase = "starting"
       \/ worker.stage = "download" /\ state.phase \in {"starting", "downloading"}
       \/ worker.stage = "install"  /\ state.phase \in {"downloading", "installing"}
  /\ worker.pc \in {"spawn", "wait", "recover", "conflict", "preserved", "unlock"} =>
       state.phase = StagePhase[worker.stage]
  /\ worker.pc \in {"conflict", "preserved", "unlock"} => worker.stage = "install"
  /\ \A h \in Helpers : helper[h].pc \in Cancels =>
       state.phase \in {"downloading", "installing", "complete", "failed"}

LifeStep == Life!LifeNext \/ UNCHANGED <<state.phase, state.op>>

\* The worker ends the update.
LEMMA LifeEnds ==
  ASSUME CallInv, LifeInv, UNCHANGED <<ops, helper>>,
         worker.pc \notin {"dead", "boot", "exit"}, worker'.pc = "exit",
         worker'.mem.phase = state'.phase, state'.op = state.op,
         \/ state'.phase = "failed"
         \/ state'.phase = "complete" /\ state.phase = "installing"
  PROVE  LifeInv' /\ LifeStep
  <1>1. Life!Complete \/ Life!FailUpdate
    BY DEF Life!Complete, Life!FailUpdate, Life!LivePhases, CallInv, Active, ActivePhases
  <1>2. LifeInv'
    BY DEF LifeInv, CallInv, Active, ActivePhases, Cancels
  <1> QED BY <1>1, <1>2 DEF LifeStep, Life!LifeNext

LEMMA LifeWorkerStep ==
  ASSUME "diskfull" \notin Perils, TypeOK, OpInv, CallInv, LifeInv,
         WorkerStep \/ PublishProgress
  PROVE  LifeInv' /\ LifeStep
  <1> USE DEF WorkerStays
  <1>0. \A p \in Phases : LET m == [worker.mem EXCEPT !.phase = p]
                          IN  m.op = worker.mem.op /\ m.phase = p
    BY DEF TypeOK, WorkerRecs, States
  <1>f. ASSUME Fail, UNCHANGED <<ops, helper>>, worker.pc \notin {"dead", "boot", "exit"}
        PROVE  LifeInv' /\ LifeStep
    <2>1. /\ worker'.pc = "exit" /\ state' = worker'.mem /\ state'.phase = "failed"
          /\ worker'.mem.op = worker.mem.op
      BY <1>0, <1>f, FailEnds, FailMoves DEF Phases, Terminal
    <2> QED BY <1>f, <2>1, LifeEnds DEF OpInv
  <1>h. ASSUME NEW report \in Reports, Handle(report), UNCHANGED <<ops, helper>>,
               worker.pc = "wait"
        PROVE  LifeInv' /\ LifeStep
    <2>1. CASE Fail
      BY <1>f, <1>h, <2>1
    <2>2. CASE ~Fail
      BY <1>h, <2>2, HandleMoves DEF LifeInv, LifeStep
    <2> QED BY <2>1, <2>2
  <1>1. CASE WorkerNew
    <2>1. /\ worker'.pc = "inhibit" /\ worker'.mem.phase = state.phase /\ worker.pc = "boot"
          /\ worker'.stage = worker.stage /\ UNCHANGED <<state, ops, helper>>
      BY <1>1 DEF WorkerNew, TypeOK, WorkerRecs, States
    <2> QED BY <2>1 DEF LifeInv, LifeStep
  <1>2. CASE AcquireInhibitor \/ RescanAfterPreserve
    <2>1. CASE Fail
      BY <1>2, <2>1, <1>f DEF AcquireInhibitor, RescanAfterPreserve
    <2>2. CASE ~Fail
      <3>1. /\ \/ worker.pc = "inhibit" /\ worker'.pc = "publish"
               \/ worker.pc = "preserved" /\ worker'.pc = "unlock"
            /\ worker'.mem = worker.mem /\ worker'.stage = worker.stage
            /\ UNCHANGED <<state, ops, helper>>
        BY <1>2, <2>2 DEF AcquireInhibitor, RescanAfterPreserve, TypeOK, WorkerRecs
      <3> QED BY <3>1 DEF LifeInv, LifeStep
    <2> QED BY <2>1, <2>2
  <1>3. CASE PublishStage
    <2> DEFINE m == [worker.mem EXCEPT !.phase = StagePhase[worker.stage]]
    <2>1. m.op = state.op /\ m.phase = StagePhase[worker.stage] /\ worker.stage \in Stages
      BY <1>3 DEF PublishStage, OpInv, TypeOK, WorkerRecs, States
    <2>2. /\ worker.pc = "publish" /\ UNCHANGED <<ops, helper>> /\ worker'.stage = worker.stage
          /\ worker'.pc = "spawn" /\ worker'.mem = m /\ state' = m
      BY <1>3 DEF PublishStage, Written, TypeOK, WorkerRecs
    <2>3. \/ state'.phase = state.phase
          \/ state.phase = "starting" /\ state'.phase = "downloading"
          \/ state.phase = "downloading" /\ state'.phase = "installing"
      BY <2>1, <2>2 DEF LifeInv, StagePhase, Stages
    <2>4. LifeStep
      BY <2>1, <2>2, <2>3 DEF LifeStep, Life!LifeNext, Life!Advance
    <2>5. LifeInv'
      BY <2>1, <2>2, <2>3 DEF LifeInv, Cancels
    <2> QED BY <2>4, <2>5
  <1>4. CASE SpawnPacman
    <2>1. CASE Fail
      BY <1>4, <2>1, <1>f DEF SpawnPacman
    <2>2. CASE ~Fail
      <3>1. /\ worker.pc = "spawn" /\ worker'.pc = "wait"
            /\ worker'.mem = worker.mem /\ worker'.stage = worker.stage
            /\ UNCHANGED <<state, ops, helper>>
        BY <1>4, <2>2 DEF SpawnPacman, TypeOK, WorkerRecs
      <3> QED BY <3>1 DEF LifeInv, LifeStep
    <2> QED BY <2>1, <2>2
  <1>5. CASE PublishProgress
    <2>1. /\ UNCHANGED <<worker, ops, helper>> /\ state' = worker.mem /\ worker.pc = "wait"
      BY <1>5 DEF PublishProgress, Written
    <2>2. state'.phase = state.phase /\ state'.op = state.op
      BY <2>1 DEF LifeInv, OpInv
    <2> QED BY <2>1, <2>2 DEF LifeInv, LifeStep
  <1>6. CASE StageSucceeds
    <2>0. worker.pc = "wait" /\ UNCHANGED <<ops, helper>> /\ state.phase = StagePhase[worker.stage]
      BY <1>6 DEF StageSucceeds, LifeInv
    <2>1. CASE worker.stage = "install"
      <3> DEFINE m == [worker.mem EXCEPT !.phase = "complete"]
      <3>1. worker'.pc = "exit" /\ worker'.mem = m /\ state' = m
        BY <1>6, <2>1 DEF StageSucceeds, Written, TypeOK, WorkerRecs
      <3>2. m.phase = "complete" /\ m.op = state.op
        BY <1>0, <2>0 DEF Phases, Terminal, OpInv
      <3>3. state.phase = "installing"
        BY <2>0, <2>1 DEF StagePhase, Stages
      <3> QED BY <2>0, <3>1, <3>2, <3>3, LifeEnds
    <2>2. CASE worker.stage # "install"
      <3>1. /\ worker'.pc = "publish" /\ worker'.mem = worker.mem /\ state' = state
            /\ \/ worker.stage = "prepare" /\ worker'.stage = "download"
               \/ worker.stage = "download" /\ worker'.stage = "install"
        BY <1>6, <2>2 DEF StageSucceeds, TypeOK, WorkerRecs, Stages
      <3>2. \/ worker.stage = "prepare" /\ state.phase = "starting"
            \/ worker.stage = "download" /\ state.phase = "downloading"
        BY <2>0, <3>1 DEF StagePhase, Stages
      <3> QED BY <2>0, <3>1, <3>2 DEF LifeInv, LifeStep
    <2> QED BY <2>1, <2>2
  <1>7. CASE StageFails
    BY <1>7, <1>h DEF StageFails
  <1>8. CASE StagePacmanStopped
    BY <1>8, <1>f, <1>h DEF StagePacmanStopped
  <1>9. CASE KeyRecovered \/ UnlockAfterPreserve
    <2>1. CASE Fail
      BY <1>9, <2>1, <1>f DEF KeyRecovered, UnlockAfterPreserve
    <2>2. CASE ~Fail
      <3>1. /\ worker.pc \in {"recover", "unlock"} /\ worker'.pc = "publish"
            /\ worker'.mem = worker.mem /\ worker'.stage = worker.stage
            /\ state' = worker.mem /\ UNCHANGED <<ops, helper>>
        BY <1>9, <2>2 DEF KeyRecovered, UnlockAfterPreserve, Written, TypeOK, WorkerRecs
      <3>2. state'.phase = state.phase /\ state'.op = state.op
        BY <3>1 DEF LifeInv, OpInv
      <3>3. worker.stage \in Stages /\ state.phase = StagePhase[worker.stage]
        BY <3>1 DEF LifeInv, TypeOK, WorkerRecs
      <3>4. \/ worker.stage = "prepare"  /\ state.phase = "starting"
            \/ worker.stage = "download" /\ state.phase = "downloading"
            \/ worker.stage = "install"  /\ state.phase = "installing"
        BY <3>3 DEF StagePhase, Stages
      <3> QED BY <3>1, <3>2, <3>4 DEF LifeInv, LifeStep
    <2> QED BY <2>1, <2>2
  <1>10. CASE PreserveFile
    <2>1. CASE Fail
      BY <1>10, <2>1, <1>f DEF PreserveFile
    <2>2. CASE ~Fail
      <3>1. worker' = [worker EXCEPT
                         !.pc = "preserved", !.files = worker.files + 1,
                         !.mem = [worker.mem EXCEPT !.phase = "installing"]]
            /\ UNCHANGED <<state, ops, helper>> /\ worker.pc = "conflict"
        BY <1>10, <2>2 DEF PreserveFile, TypeOK, WorkerRecs
      <3>2. /\ worker'.pc = "preserved" /\ worker'.stage = worker.stage
            /\ worker'.mem = [worker.mem EXCEPT !.phase = "installing"]
        BY <3>1 DEF TypeOK, WorkerRecs
      <3>3. worker.stage = "install" /\ state.phase = "installing"
        BY <3>1 DEF LifeInv, StagePhase, Stages
      <3>4. worker'.mem.phase = "installing"
        BY <1>0, <3>2 DEF Phases, ActivePhases
      <3> QED BY <3>1, <3>2, <3>3, <3>4 DEF LifeInv, LifeStep
    <2> QED BY <2>1, <2>2
  <1>11. CASE WorkerExit
    BY <1>11 DEF WorkerExit, NoWorker, LifeInv, LifeStep
  <1> QED
    BY <1>1, <1>2, <1>3, <1>4, <1>5, <1>6, <1>7, <1>8, <1>9, <1>10, <1>11 DEF WorkerStep

LEMMA LifeHelperStep ==
  ASSUME Prompt, "diskfull" \notin Perils, TypeOK, UnitInv, OpInv, CallInv, LifeInv,
         NEW h \in Helpers, HelperStep(h)
  PROVE  LifeInv' /\ LifeStep
  <1> USE DEF HelperStays, Cancels
  <1>0. \A g \in Helpers : g = h
    BY DEF Prompt, OneHelper
  <1>1. CASE \/ InstallRead(h) \/ InstallScan(h) \/ InstallUnlock(h)
             \/ RemoveScan(h) \/ RemoveUnlock(h) \/ RemoveSpawn(h) \/ RemoveReap(h)
    <2>1. UNCHANGED <<state, worker, ops>> /\ helper'[h].pc \notin Cancels
      BY <1>1, GoMoves, DoneMoves DEF InstallRead, InstallScan, InstallUnlock, RemoveScan,
         RemoveUnlock, RemoveSpawn, RemoveReap
    <2> QED BY <1>0, <2>1 DEF LifeInv, LifeStep
  <1>2. CASE InstallWrite(h)
    <2> DEFINE new == [phase |-> "starting", op |-> ops + 1, pid |-> 0]
    <2>1. /\ UNCHANGED worker /\ worker.pc = "dead" /\ state' = new /\ ops' = ops + 1
          /\ helper' = [helper EXCEPT ![h] = [pc |-> "start", snap |-> new]]
      BY <1>2 DEF InstallWrite, OpInv, Decided, Alive
    <2>2. helper'[h].pc = "start"
      BY <2>1 DEF TypeOK
    <2>3. Life!Begin
      BY <2>1 DEF Life!Begin, LifeInv
    <2> QED BY <1>0, <2>1, <2>2, <2>3 DEF LifeInv, LifeStep, Life!LifeNext
  <1>3. CASE InstallStart(h)
    <2>1. /\ helper[h].pc = "start" /\ UNCHANGED <<state, ops>> /\ state.phase = "starting"
          /\ helper'[h].pc \in {"idle", "startFailed"}
      BY <1>3, GoMoves, DoneMoves DEF InstallStart, CallInv
    <2>2. CASE StartUnit
      <3>1. worker'.pc = "boot" /\ worker'.stage = "prepare"
        BY <2>2 DEF StartUnit, NoWorker
      <3> QED BY <1>0, <2>1, <3>1 DEF LifeInv, LifeStep
    <2>3. CASE UNCHANGED worker
      BY <1>0, <2>1, <2>3 DEF LifeInv, LifeStep
    <2> QED BY <1>3, <2>2, <2>3 DEF InstallStart
  <1>4. CASE InstallFailed(h)
    <2>1. /\ UNCHANGED <<worker, ops>> /\ helper[h].pc = "startFailed"
          /\ helper'[h].pc = "idle" /\ state' = [helper[h].snap EXCEPT !.phase = "failed"]
      BY <1>4, DoneMoves DEF InstallFailed, Written
    <2>2. worker.pc = "dead" /\ state = helper[h].snap /\ state.phase = "starting"
      BY <2>1 DEF CallInv, Alive
    <2>3. state'.phase = "failed" /\ state'.op = state.op
      BY <2>1, <2>2 DEF TypeOK, States
    <2>4. Life!FailUpdate
      BY <2>2, <2>3 DEF Life!FailUpdate, Life!LivePhases
    <2> QED BY <1>0, <2>1, <2>2, <2>3, <2>4 DEF LifeInv, LifeStep, Life!LifeNext
  <1>5. CASE CancelRead(h)
    <2>1. /\ UNCHANGED <<state, worker, ops>>
          /\ helper'[h].pc \in Cancels => state.phase = "downloading"
      BY <1>5, DoneMoves DEF CancelRead
    <2> QED BY <1>0, <2>1 DEF LifeInv, LifeStep
  <1>6. CASE CancelStop(h) \/ CancelStopped(h) \/ CancelScan(h) \/ CancelUnlock(h)
    <2>1. UNCHANGED <<state, worker, ops>> /\ helper[h].pc \in Cancels
      BY <1>6 DEF CancelStop, CancelStopped, CancelScan, CancelUnlock
    <2> QED BY <1>0, <2>1 DEF LifeInv, LifeStep
  <1>7. CASE CancelWrite(h)
    <2>1. /\ UNCHANGED <<worker, ops>> /\ helper[h].pc = "cancelWrite"
          /\ helper'[h].pc = "idle" /\ state' = [helper[h].snap EXCEPT !.phase = "cancelled"]
      BY <1>7, DoneMoves DEF CancelWrite, Written
    <2>2. worker.pc = "dead" /\ helper[h].snap.op = state.op
      BY <2>1 DEF CallInv, UnitInv, OpInv, Copies, Down, Alive
    <2>3. state'.phase = "cancelled" /\ state'.op = state.op
      BY <2>1, <2>2 DEF TypeOK, HelperRecs, States
    <2>4. Life!Cancel
      BY <2>1, <2>3 DEF Life!Cancel, LifeInv
    <2> QED BY <1>0, <2>1, <2>2, <2>3, <2>4 DEF LifeInv, LifeStep, Life!LifeNext
  <1> QED BY <1>1, <1>2, <1>3, <1>4, <1>5, <1>6, <1>7 DEF HelperStep

LEMMA LifePreserved ==
  ASSUME Prompt, "diskfull" \notin Perils, TypeOK, UnitInv, OpInv, CallInv, LifeInv,
         [Next]_vars
  PROVE  LifeInv' /\ LifeStep
  <1>1. ASSUME UNCHANGED <<state, worker, helper, ops>>
        PROVE  LifeInv' /\ LifeStep
    BY <1>1 DEF LifeInv, LifeStep
  <1>2. ASSUME NEW o \in Owners, PacmanFinishes(o)
        PROVE  LifeInv' /\ LifeStep
    BY <1>1, <1>2 DEF PacmanFinishes, PacmanLock, PacmanBusy, PacmanExit
  <1>3. CASE ExternalStart \/ ExternalReaped \/ KillPacman \/ UnitStopped \/ UNCHANGED vars
    BY <1>1, <1>3 DEF ExternalStart, ExternalReaped, KillPacman, UnitStopped, vars
  <1>4. CASE WorkerStep \/ PublishProgress
    BY <1>4, LifeWorkerStep
  <1>5. CASE KillWorker \/ WorkerCrash \/ Reboot
    <2>1. /\ UNCHANGED <<state, ops>> /\ worker'.pc = "dead"
          /\ helper' = helper \/ \A h \in Helpers : helper'[h].pc = "idle"
      BY <1>5 DEF KillWorker, WorkerCrash, Reboot, NoWorker, IdleHelper
    <2> QED BY <2>1 DEF LifeInv, LifeStep, Cancels
  <1>6. ASSUME NEW h \in Helpers, HelperStep(h)
        PROVE  LifeInv' /\ LifeStep
    BY <1>6, LifeHelperStep
  <1>7. ASSUME NEW h \in Helpers, NEW kind \in Kinds, Request(h, kind)
        PROVE  LifeInv' /\ LifeStep
    <2>1. UNCHANGED <<state, worker, ops>> /\ helper'[h].pc \notin Cancels
      BY <1>7, GoMoves, SessionAssumption DEF Request, HelperStays, Cancels
    <2> QED BY <2>1 DEF LifeInv, LifeStep, Prompt, OneHelper
  <1> QED BY <1>1, <1>2, <1>3, <1>4, <1>5, <1>6, <1>7 DEF Next, SystemdStep

\* The update session implements the life cycle that the panel and the notifier
\* read STATE by: with one helper at a time whose commands are not given up, and
\* as long as STATE can be written; through retries, recoveries, cancellations,
\* crashes, reboots, other pacmans and reused pids.
THEOREM RefinesLifecycle ==
  ASSUME Prompt, "diskfull" \notin Perils
  PROVE  Spec => ImplementsLifecycle
  <1>1. Init => LifeInv /\ Life!LifeInit
    BY DEF Init, LifeInv, Life!LifeInit, EmptyState, NoWorker, IdleHelper, Cancels
  <1>2. TypeOK /\ UnitInv /\ OpInv /\ CallInv /\ LifeInv /\ [Next]_vars
          => LifeInv' /\ [Life!LifeNext]_(Life!lifeVars)
    BY LifePreserved DEF LifeStep, Life!lifeVars
  <1> QED BY <1>1, <1>2, CallHolds, PTL DEF Spec, ImplementsLifecycle, Life!LifeSpec
=============================================================================

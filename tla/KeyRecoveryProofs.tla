------------------------ MODULE KeyRecoveryProofs ------------------------
(***************************************************************************)
(* Proofs about KeyRecovery, for any processes, generations, crashes and   *)
(* perils.                                                                 *)
(***************************************************************************)
EXTENDS KeyRecovery, TLAPS

\* Initially every variable has its type, and nobody holds the flock.
LEMMA TypeInit == Init => TypeOK
<1> USE RecoveryAssumption
<1> SUFFICES ASSUME Init PROVE TypeOK
  OBVIOUS
<1>1. proc \in [Procs -> Recoveries]
  BY DEF Init, Idle, Recoveries, PCs, Inside
<1>2. \A p \in Procs : guard = p <=> proc[p].pc \notin {"idle", "guard"}
  BY DEF Init, Idle
<1>3. legacy \in BOOLEAN /\ overtaken \in BOOLEAN
  BY DEF Init
<1> QED
  BY <1>1, <1>2, <1>3 DEF Init, TypeOK

\* No step takes a variable out of its type or the flock from its holder.
LEMMA TypeNext == TypeOK /\ [Next]_vars => TypeOK'
<1> USE RecoveryAssumption
<1> SUFFICES ASSUME TypeOK, [Next]_vars PROVE TypeOK'
  OBVIOUS
<1> USE DEF TypeOK, Recoveries, PCs, Inside, Idle, ServerStays, OthersStay, Goto, RecoverStays
<1>1. CASE PublishFingerprint
  BY <1>1 DEF PublishFingerprint
<1>2. CASE PublishCertificate
  BY <1>2 DEF PublishCertificate
<1>3. CASE LegacyLocks
  BY <1>3 DEF LegacyLocks
<1>4. CASE LegacyUnlocks
  BY <1>4 DEF LegacyUnlocks
<1>5. ASSUME NEW p \in Procs, TakeGuard(p) PROVE TypeOK'
  <2>1. CASE guard = "free" /\ guard' = p /\ Goto(p, "look")
    <3>1. proc' \in [Procs -> Recoveries]
      BY <2>1
    <3>2. \A q \in Procs : q # p => proc'[q] = proc[q]
      BY <2>1
    <3>3. proc'[p].pc = "look"
      BY <2>1
    <3>4. \A q \in Procs : guard # q
      BY <2>1
    <3>5. \A q \in Procs : guard' = q <=> proc'[q].pc \notin {"idle", "guard"}
      BY <2>1, <3>2, <3>3, <3>4
    <3> QED
      BY <1>5, <2>1, <3>1, <3>5 DEF TakeGuard
  <2>2. CASE proc' = [proc EXCEPT ![p] = Idle] /\ UNCHANGED guard
    BY <1>5, <2>2 DEF TakeGuard
  <2> QED
    BY <1>5, <2>1, <2>2 DEF TakeGuard, GuardFree
<1>6. ASSUME NEW p \in Procs, Look(p) PROVE TypeOK'
  BY <1>6 DEF Look
<1>7. ASSUME NEW p \in Procs, Reclaim(p) PROVE TypeOK'
  BY <1>7 DEF Reclaim
<1>8. ASSUME NEW p \in Procs, CreateLock(p) PROVE TypeOK'
  BY <1>8 DEF CreateLock
<1>9. ASSUME NEW p \in Procs, SignLock(p) PROVE TypeOK'
  BY <1>9 DEF SignLock
<1>10. ASSUME NEW p \in Procs, Unlock(p) PROVE TypeOK'
  BY <1>10 DEF Unlock
<1>11. ASSUME NEW p \in Procs, Leave(p) PROVE TypeOK'
  BY <1>11 DEF Leave
<1>12. ASSUME NEW p \in Procs, FetchFingerprint(p) PROVE TypeOK'
  <2>1. proc' \in [Procs -> Recoveries]
    BY <1>12 DEF FetchFingerprint, Fails
  <2>2. \A q \in Procs : guard' = q <=> proc'[q].pc \notin {"idle", "guard"}
    BY <1>12 DEF FetchFingerprint, Fails
  <2> QED
    BY <1>12, <2>1, <2>2 DEF FetchFingerprint, Fails
<1>13. ASSUME NEW p \in Procs, FetchCertificate(p) PROVE TypeOK'
  BY <1>13 DEF FetchCertificate, Fails
<1>14. ASSUME NEW p \in Procs, Inspect(p) PROVE TypeOK'
  BY <1>14 DEF Inspect, Fails
<1>15. ASSUME NEW p \in Procs, FindKey(p) PROVE TypeOK'
  BY <1>15 DEF FindKey, Fails
<1>16. ASSUME NEW p \in Procs, AddKey(p) PROVE TypeOK'
  BY <1>16 DEF AddKey, Added, RollsBack
<1>17. ASSUME NEW p \in Procs, VerifyKey(p) PROVE TypeOK'
  <2>1. proc' \in [Procs -> Recoveries]
    BY <1>17 DEF VerifyKey, RollsBack
  <2>2. \A q \in Procs : guard' = q <=> proc'[q].pc \notin {"idle", "guard"}
    BY <1>17 DEF VerifyKey, RollsBack
  <2> QED
    BY <1>17, <2>1, <2>2 DEF VerifyKey, RollsBack
<1>18. ASSUME NEW p \in Procs, TrustKey(p) PROVE TypeOK'
  <2>1. proc' \in [Procs -> Recoveries]
    BY <1>18 DEF TrustKey, RollsBack
  <2>2. \A q \in Procs : guard' = q <=> proc'[q].pc \notin {"idle", "guard"}
    BY <1>18 DEF TrustKey, RollsBack
  <2> QED
    BY <1>18, <2>1, <2>2 DEF TrustKey, Trusted, RollsBack
<1>19. ASSUME NEW p \in Procs, Rollback(p) PROVE TypeOK'
  BY <1>19 DEF Rollback
<1>20. ASSUME NEW p \in Procs, Crash(p) PROVE TypeOK'
  BY <1>20 DEF Crash
<1>21. ASSUME NEW p \in Procs, NEW want \in Gens, Call(p, want) PROVE TypeOK'
  BY <1>21 DEF Call
<1>22. CASE UNCHANGED vars
  BY <1>22 DEF vars
<1> QED
  BY <1>1, <1>2, <1>3, <1>4, <1>5, <1>6, <1>7, <1>8, <1>9, <1>10, <1>11, <1>12,
     <1>13, <1>14, <1>15, <1>16, <1>17, <1>18, <1>19, <1>20, <1>21, <1>22
     DEF Next, LockStep, RecoverStep

\* TypeOK holds always.
THEOREM TypeCorrect == Spec => []TypeOK
<1>1. Init => TypeOK
  BY TypeInit
<1>2. TypeOK /\ [Next]_vars => TypeOK'
  BY TypeNext
<1> QED
  BY <1>1, <1>2, PTL DEF Spec

-----------------------------------------------------------------------------
(***************************************************************************)
(* Mutual exclusion.  Exclusive is not inductive: the process that creates *)
(* KEY_LOCK must find the file it created when it signs it, and the file   *)
(* must name nobody who could take it for his.  Only the holder of the     *)
(* flock removes, creates or signs it; and an older helper leaves a torn   *)
(* lock and that of a live process alone.  What a recovery is about to     *)
(* reclaim is therefore a dead process's, until an older one takes it over.*)
(***************************************************************************)
LockInv == ~overtaken =>
             /\ legacy <=> lock = "legacy"
             /\ \A p \in Procs : /\ proc[p].pc \in Inside => lock = p
                                 /\ proc[p].pc = "sign" => lock = "torn"
                                 /\ proc[p].pc = "reclaim" => lock = "dead"

\* Two processes are never both past the flock.
LEMMA OneHolder ==
  ASSUME TypeOK, NEW p \in Procs, NEW q \in Procs, p # q,
         proc[p].pc \notin {"idle", "guard"}
  PROVE  proc[q].pc \in {"idle", "guard"}
  BY DEF TypeOK

\* No step of a process breaks LockInv.
LEMMA LockInvStep ==
  ASSUME TypeOK, LockInv, NEW p \in Procs,
         \/ LockStep(p) \/ RecoverStep(p) \/ Crash(p)
         \/ \E want \in Gens : Call(p, want)
  PROVE  LockInv'
  <1> SUFFICES ASSUME ~overtaken' PROVE LockInv'
    BY DEF LockInv
  <1> USE RecoveryAssumption
  <1> USE DEF Goto, ServerStays, OthersStay, RecoverStays, Recoveries
  <1>0. /\ ~overtaken /\ (legacy' <=> legacy)
        /\ Reclaim(p) => lock # "legacy"
    <2>1. UNCHANGED <<legacy, overtaken>>
      BY DEF LockStep, TakeGuard, Look, Reclaim, CreateLock, SignLock, Unlock, Leave,
         RecoverStep, FetchFingerprint, FetchCertificate, Inspect, FindKey, AddKey,
         VerifyKey, TrustKey, Rollback, Crash, Call
    <2> QED
      BY <2>1 DEF Reclaim, LockInv
  <1>1. proc \in [Procs -> Recoveries]
    BY DEF TypeOK
  <1>2. ASSUME NEW q \in Procs, q # p PROVE proc'[q] = proc[q]
    <2>1. CASE LockStep(p)
      BY <1>1, <1>2, <2>1 DEF LockStep, TakeGuard, Look, Reclaim, CreateLock,
         SignLock, Unlock, Leave
    <2>2. CASE RecoverStep(p)
      BY <1>1, <1>2, <2>2 DEF RecoverStep, FetchFingerprint, FetchCertificate,
         Inspect, FindKey, AddKey, VerifyKey, TrustKey, Rollback, Fails, RollsBack
    <2>3. CASE Crash(p)
      BY <1>1, <1>2, <2>3 DEF Crash
    <2>4. CASE \E want \in Gens : Call(p, want)
      BY <1>1, <1>2, <2>4 DEF Call
    <2> QED
      BY <2>1, <2>2, <2>3, <2>4
  <1>3. ASSUME NEW q \in Procs, q # p, lock' # lock
        PROVE  proc[q].pc \notin Inside \cup {"sign", "reclaim"}
    <2>1. CASE proc[p].pc \in {"idle", "guard"}
      <3>1. ~RecoverStep(p)
        BY <2>1 DEF RecoverStep, FetchFingerprint, FetchCertificate, Inspect,
           FindKey, AddKey, VerifyKey, TrustKey, Rollback
      <3>2. LockStep(p) => lock' = lock
        BY <2>1 DEF LockStep, TakeGuard, Look, Reclaim, CreateLock, SignLock,
           Unlock, Leave
      <3>3. Crash(p) => lock' = lock \/ (lock = p /\ lock' = "dead")
        BY DEF Crash
      <3>4. (\E want \in Gens : Call(p, want)) => lock' = lock
        BY DEF Call
      <3>5. CASE lock = p
        BY <3>5, <1>0, <1>3 DEF LockInv
      <3> QED
        BY <1>3, <3>1, <3>2, <3>3, <3>4, <3>5
    <2>2. CASE proc[p].pc \notin {"idle", "guard"}
      BY <1>3, <2>2, OneHolder DEF Inside
    <2> QED
      BY <2>1, <2>2
  <1>4. proc'[p].pc \in Inside => lock' = p
    <2>1. CASE LockStep(p)
      BY <1>0, <1>1, <2>1 DEF LockStep, TakeGuard, Look, Reclaim, CreateLock, SignLock,
         Unlock, Leave, LockInv, Inside, Idle
    <2>2. CASE RecoverStep(p)
      BY <1>0, <1>1, <2>2 DEF RecoverStep, FetchFingerprint, FetchCertificate, Inspect,
         FindKey, AddKey, VerifyKey, TrustKey, Rollback, LockInv, Inside
    <2>3. CASE Crash(p) \/ \E want \in Gens : Call(p, want)
      <3>1. proc'[p].pc \in {"idle", "guard"}
        <4>1. CASE Crash(p)
          BY <1>1, <4>1 DEF Crash, Idle
        <4>2. ASSUME NEW want \in Gens, Call(p, want)
              PROVE  proc'[p].pc = "guard"
          BY <1>1, <4>2 DEF Call, Idle
        <4> QED
          BY <2>3, <4>1, <4>2
      <3> QED
        BY <3>1 DEF Inside
    <2> QED
      BY <2>1, <2>2, <2>3
  <1>5. proc'[p].pc = "sign" => lock' = "torn"
    <2>1. CASE LockStep(p)
      BY <1>1, <2>1 DEF LockStep, TakeGuard, Look, Reclaim, CreateLock, SignLock,
         Unlock, Leave, Idle
    <2>2. CASE RecoverStep(p)
      BY <1>1, <2>2 DEF RecoverStep, FetchFingerprint, FetchCertificate, Inspect,
         FindKey, AddKey, VerifyKey, TrustKey, Rollback, Fails, RollsBack
    <2>3. CASE Crash(p) \/ \E want \in Gens : Call(p, want)
      <3>1. proc'[p].pc \in {"idle", "guard"}
        <4>1. CASE Crash(p)
          BY <1>1, <4>1 DEF Crash, Idle
        <4>2. ASSUME NEW want \in Gens, Call(p, want)
              PROVE  proc'[p].pc = "guard"
          BY <1>1, <4>2 DEF Call, Idle
        <4> QED
          BY <2>3, <4>1, <4>2
      <3> QED
        BY <3>1
    <2> QED
      BY <2>1, <2>2, <2>3
  <1>6. proc'[p].pc = "reclaim" => lock' = "dead"
    <2>1. CASE Look(p)
      <3>1. lock' = lock
        BY <2>1 DEF Look
      <3>2. ASSUME NEW alive \in OwnerAlive, ~alive
            PROVE  lock = "dead"
        BY <3>2 DEF OwnerAlive
      <3>3. proc'[p].pc = "reclaim" => \E alive \in OwnerAlive : ~alive
        BY <1>1, <2>1 DEF Look
      <3> QED
        BY <3>1, <3>2, <3>3
    <2>2. CASE ~Look(p)
      <3>1. CASE LockStep(p)
        BY <1>1, <2>2, <3>1 DEF LockStep, TakeGuard, Reclaim, CreateLock, SignLock, Unlock,
           Leave, Idle
      <3>2. CASE RecoverStep(p)
        BY <1>1, <3>2 DEF RecoverStep, FetchFingerprint, FetchCertificate, Inspect, FindKey,
           AddKey, VerifyKey, TrustKey, Rollback, Fails, RollsBack
      <3>3. CASE Crash(p)
        BY <1>1, <3>3 DEF Crash, Idle
      <3>4. ASSUME NEW want \in Gens, Call(p, want)
            PROVE  proc'[p].pc = "guard"
        BY <1>1, <3>4 DEF Call, Idle
      <3> QED
        BY <3>1, <3>2, <3>3, <3>4
    <2> QED
      BY <2>1, <2>2
  <1>7. legacy <=> lock' = "legacy"
    <2>1. CASE LockStep(p)
      BY <1>0, <2>1 DEF LockStep, TakeGuard, Look, Reclaim, CreateLock, SignLock, Unlock,
         Leave, LockInv
    <2>2. CASE RecoverStep(p)
      BY <1>0, <2>2 DEF RecoverStep, FetchFingerprint, FetchCertificate, Inspect, FindKey,
         AddKey, VerifyKey, TrustKey, Rollback, LockInv
    <2>3. CASE Crash(p) \/ \E want \in Gens : Call(p, want)
      BY <1>0, <2>3 DEF Crash, Call, LockInv
    <2> QED
      BY <2>1, <2>2, <2>3
  <1> QED
    BY <1>0, <1>2, <1>3, <1>4, <1>5, <1>6, <1>7 DEF LockInv, Inside

\* No step breaks LockInv.
LEMMA LockInvNext == TypeOK /\ LockInv /\ [Next]_vars => LockInv'
  <1> SUFFICES ASSUME TypeOK, LockInv, [Next]_vars PROVE LockInv'
    OBVIOUS
  <1> USE RecoveryAssumption
  <1>1. CASE PublishFingerprint \/ PublishCertificate \/ UNCHANGED vars
    BY <1>1 DEF PublishFingerprint, PublishCertificate, vars, LockInv
  <1>2. CASE LegacyLocks \/ LegacyUnlocks
    <2>1. ~overtaken' => \A p \in Procs : proc[p].pc \notin Inside \cup {"sign", "reclaim"}
      BY <1>2 DEF LegacyLocks, LegacyUnlocks, LockInv
    <2> QED
      BY <1>2, <2>1 DEF LegacyLocks, LegacyUnlocks, LockInv
  <1>3. ASSUME NEW p \in Procs,
               \/ LockStep(p) \/ RecoverStep(p) \/ Crash(p)
               \/ \E want \in Gens : Call(p, want)
        PROVE  LockInv'
    BY <1>3, LockInvStep
  <1> QED
    BY <1>1, <1>2, <1>3 DEF Next

\* Recoveries exclude each other, for any processes, crashes, lost commands,
\* reused pids and torn locks; and they exclude an older helper until one takes
\* over the lock of a dead process in the moment in which it is reclaimed.
THEOREM Exclusion == Spec => []Exclusive
<1>1. Init => LockInv
  <2> SUFFICES ASSUME Init PROVE LockInv
    OBVIOUS
  <2>1. \A p \in Procs : proc[p].pc = "idle"
    BY DEF Init, Idle
  <2> QED
    BY <2>1 DEF Init, LockInv, Inside
<1>2. TypeOK /\ LockInv => Exclusive
  BY RecoveryAssumption DEF TypeOK, LockInv, Exclusive, Inside
<1> QED
  BY <1>1, <1>2, TypeCorrect, LockInvNext, PTL DEF Spec

-----------------------------------------------------------------------------
(***************************************************************************)
(* What is trusted was verified.  The comparison is made once, in          *)
(* Inspect; the invariant carries its outcome to TrustKey, whatever the    *)
(* server publishes and the other processes do meanwhile.                  *)
(***************************************************************************)
Fetched  == {"certificate", "inspect", "find", "add", "verify", "trust"}
Approved == {"find", "add", "verify", "trust"}
TrustInv == \A p \in Procs :
              /\ proc[p].pc \in Fetched => proc[p].expected \in vouched
              /\ proc[p].pc \in Approved => /\ proc[p].got = proc[p].expected
                                            /\ proc[p].got \in Sound

\* What a process does to another one's recovery: nothing.
LEMMA OthersUntouched ==
  ASSUME TypeOK, NEW p \in Procs, NEW q \in Procs, p # q,
         \/ LockStep(p) \/ RecoverStep(p) \/ Crash(p)
         \/ \E want \in Gens : Call(p, want)
  PROVE  proc'[q] = proc[q] /\ vouched' = vouched
  <1> USE DEF TypeOK, Goto, ServerStays, OthersStay, RecoverStays, Fails, RollsBack
  <1>1. CASE LockStep(p)
    BY <1>1 DEF LockStep, TakeGuard, Look, Reclaim, CreateLock, SignLock, Unlock, Leave
  <1>2. CASE RecoverStep(p)
    BY <1>2 DEF RecoverStep, FetchFingerprint, FetchCertificate, Inspect, FindKey,
       AddKey, VerifyKey, TrustKey, Rollback
  <1>3. CASE Crash(p)
    BY <1>3 DEF Crash
  <1>4. CASE \E want \in Gens : Call(p, want)
    BY <1>4 DEF Call
  <1> QED
    BY <1>1, <1>2, <1>3, <1>4

\* A recovery keeps TrustInv for itself: its steps inside, one by one; all the
\* others lead to places the invariant says nothing of.
LEMMA TrustInvOwn ==
  ASSUME TypeOK, TrustInv, file \in vouched, NEW p \in Procs,
         \/ LockStep(p) \/ RecoverStep(p) \/ Crash(p)
         \/ \E want \in Gens : Call(p, want)
  PROVE  /\ proc'[p].pc \in Fetched => proc'[p].expected \in vouched
         /\ proc'[p].pc \in Approved => /\ proc'[p].got = proc'[p].expected
                                        /\ proc'[p].got \in Sound
  <1> USE DEF TypeOK, Goto, Recoveries, Fetched, Approved
  <1>1. CASE LockStep(p)
    BY <1>1 DEF LockStep, TakeGuard, Look, Reclaim, CreateLock, SignLock, Unlock,
       Leave, Idle
  <1>2. CASE FetchFingerprint(p)
    BY <1>2 DEF FetchFingerprint, Fails
  <1>3. CASE FetchCertificate(p)
    BY <1>3 DEF FetchCertificate, Fails, TrustInv
  <1>4. CASE Inspect(p)
    BY <1>4 DEF Inspect, Verified, Fails, TrustInv
  <1>5. CASE FindKey(p) \/ AddKey(p) \/ VerifyKey(p)
    BY <1>5 DEF FindKey, AddKey, VerifyKey, Fails, RollsBack, TrustInv
  <1>6. CASE TrustKey(p) \/ Rollback(p)
    BY <1>6 DEF TrustKey, Rollback, RollsBack
  <1>7. CASE Crash(p)
    BY <1>7 DEF Crash, Idle
  <1>8. ASSUME NEW want \in Gens, Call(p, want) PROVE proc'[p].pc = "guard"
    BY <1>8 DEF Call, Idle
  <1> QED
    BY <1>1, <1>2, <1>3, <1>4, <1>5, <1>6, <1>7, <1>8 DEF RecoverStep

\* TrustInv is inductive; the fingerprint on the server is always a vouched one.
LEMMA TrustInvNext ==
  TypeOK /\ TrustInv /\ file \in vouched /\ [Next]_vars
    => TrustInv' /\ (file \in vouched)'
  <1> SUFFICES ASSUME TypeOK, TrustInv, file \in vouched, [Next]_vars
               PROVE  TrustInv' /\ (file \in vouched)'
    OBVIOUS
  <1>1. CASE PublishFingerprint \/ PublishCertificate
    BY <1>1 DEF PublishFingerprint, PublishCertificate, TrustInv
  <1>2. CASE LegacyLocks \/ LegacyUnlocks \/ UNCHANGED vars
    BY <1>2 DEF LegacyLocks, LegacyUnlocks, ServerStays, OthersStay, vars, TrustInv
  <1>3. ASSUME NEW p \in Procs,
               \/ LockStep(p) \/ RecoverStep(p) \/ Crash(p)
               \/ \E want \in Gens : Call(p, want)
        PROVE  TrustInv' /\ (file \in vouched)'
    <2>1. UNCHANGED <<file, vouched>>
      BY <1>3 DEF LockStep, TakeGuard, Look, Reclaim, CreateLock, SignLock, Unlock,
         Leave, RecoverStep, FetchFingerprint, FetchCertificate, Inspect, FindKey,
         AddKey, VerifyKey, TrustKey, Rollback, Crash, Call, ServerStays, OthersStay,
         RecoverStays
    <2> QED
      BY <1>3, <2>1, OthersUntouched, TrustInvOwn DEF TrustInv
  <1> QED
    BY <1>1, <1>2, <1>3 DEF Next

\* Only lsign-key makes a key trusted, and only the approved one.
LEMMA TrustStep ==
  TypeOK /\ TrustInv /\ [Next]_vars
    => \A g \in Gens : ring[g] # "trusted" /\ ring'[g] = "trusted"
                        => g \in Sound /\ g \in vouched
  <1> SUFFICES ASSUME TypeOK, TrustInv, [Next]_vars, NEW g \in Gens,
                      ring[g] # "trusted", ring'[g] = "trusted"
               PROVE  g \in Sound /\ g \in vouched
    OBVIOUS
  <1> USE DEF TypeOK
  <1>1. \E p \in Procs : TrustKey(p)
    <2>1. ASSUME NEW p \in Procs, AddKey(p) \/ Rollback(p) PROVE FALSE
      BY <2>1 DEF AddKey, Rollback, Added, RollsBack
    <2>2. ASSUME NEW p \in Procs,
                 \/ LockStep(p) \/ Crash(p) \/ FetchFingerprint(p)
                 \/ FetchCertificate(p) \/ Inspect(p) \/ FindKey(p) \/ VerifyKey(p)
                 \/ \E want \in Gens : Call(p, want)
          PROVE  FALSE
      BY <2>2 DEF LockStep, TakeGuard, Look, Reclaim, CreateLock, SignLock, Unlock,
         Leave, FetchFingerprint, FetchCertificate, Inspect, FindKey, VerifyKey, Fails,
         RollsBack, Crash, Call
    <2>3. ~(\/ PublishFingerprint \/ PublishCertificate \/ LegacyLocks
            \/ LegacyUnlocks \/ UNCHANGED vars)
      BY DEF PublishFingerprint, PublishCertificate, LegacyLocks, LegacyUnlocks, vars
    <2> QED
      BY <2>1, <2>2, <2>3 DEF Next, RecoverStep
  <1>2. PICK p \in Procs : TrustKey(p)
    BY <1>1
  <1>3. proc[p].pc = "trust" /\ g = proc[p].got
    BY <1>2 DEF TrustKey, Trusted, RollsBack
  <1> QED
    BY <1>3 DEF TrustInv, Fetched, Approved

\* A key gets trusted only if the fingerprint file has named it and its
\* certificate is sound, for any number of processes, rotations and failures.
THEOREM TrustVerified == Spec => TrustIsVerified
<1>1. Init => TrustInv /\ file \in vouched
  <2> SUFFICES ASSUME Init PROVE TrustInv
    BY DEF Init
  <2>1. \A p \in Procs : proc[p].pc = "idle"
    BY DEF Init, Idle
  <2> QED
    BY <2>1 DEF TrustInv, Fetched, Approved
<1>2. TypeOK /\ TrustInv /\ [Next]_vars
        => [\A g \in Gens : ring[g] # "trusted" /\ ring'[g] = "trusted"
                           => g \in Sound /\ g \in vouched]_vars
  BY TrustStep
<1> QED
  BY <1>1, <1>2, TypeCorrect, TrustInvNext, PTL DEF Spec, TrustIsVerified
-----------------------------------------------------------------------------
(***************************************************************************)
(* Whose lock it is.  A lock that names a living process is that of a      *)
(* recovery, and one that names nobody is being made or was left torn.     *)
(***************************************************************************)
LockOwned ==
  /\ lock \in Procs => proc[lock].pc \in Inside
  /\ lock = "torn" => "torn" \in perils \/ \E p \in Procs : proc[p].pc = "sign"

\* Whoever changes the lock holds the flock.
LEMMA LockChanges ==
  ASSUME TypeOK, LockOwned, NEW p \in Procs, lock' # lock,
         \/ LockStep(p) \/ RecoverStep(p) \/ Crash(p)
         \/ \E want \in Gens : Call(p, want)
  PROVE  proc[p].pc \notin {"idle", "guard"}
  <1>1. CASE LockStep(p)
    BY <1>1 DEF LockStep, TakeGuard, Look, Reclaim, CreateLock, SignLock, Unlock, Leave
  <1>2. CASE RecoverStep(p)
    BY <1>2 DEF RecoverStep, FetchFingerprint, FetchCertificate, Inspect, FindKey,
       AddKey, VerifyKey, TrustKey, Rollback
  <1>3. CASE Crash(p)
    BY <1>3 DEF Crash, LockOwned, Inside
  <1>4. CASE \E want \in Gens : Call(p, want)
    BY <1>4 DEF Call
  <1> QED
    BY <1>1, <1>2, <1>3, <1>4

\* No step of a process breaks LockOwned.
LEMMA LockOwnedStep ==
  ASSUME TypeOK, LockInv, LockOwned, NEW p \in Procs,
         \/ LockStep(p) \/ RecoverStep(p) \/ Crash(p)
         \/ \E want \in Gens : Call(p, want)
  PROVE  LockOwned'
  <1> USE RecoveryAssumption
  <1> USE DEF Goto, ServerStays, OthersStay, RecoverStays, Recoveries, Idle
  <1>1. proc \in [Procs -> Recoveries]
    BY DEF TypeOK
  <1>2. \A q \in Procs : q # p => proc'[q] = proc[q]
    BY OthersUntouched
  <1>3. perils' = perils
    BY DEF LockStep, TakeGuard, Look, Reclaim, CreateLock, SignLock, Unlock, Leave,
       RecoverStep, FetchFingerprint, FetchCertificate, Inspect, FindKey, AddKey,
       VerifyKey, TrustKey, Rollback, Crash, Call
  <1>4. lock' \in Procs => proc'[lock'].pc \in Inside
    <2>1. CASE LockStep(p)
      BY <1>1, <1>2, <2>1 DEF LockStep, TakeGuard, Look, Reclaim, CreateLock, SignLock,
         Unlock, Leave, LockOwned, Inside
    <2>2. CASE RecoverStep(p)
      <3>1. lock' = lock /\ proc'[p].pc \in Inside
        BY <1>1, <2>2 DEF RecoverStep, FetchFingerprint, FetchCertificate, Inspect,
           FindKey, AddKey, VerifyKey, TrustKey, Rollback, Fails, RollsBack, Inside
      <3> QED
        BY <1>2, <3>1 DEF LockOwned
    <2>3. CASE Crash(p)
      BY <1>2, <2>3 DEF Crash, LockOwned
    <2>4. CASE \E want \in Gens : Call(p, want)
      BY <1>2, <2>4 DEF Call, LockOwned, Inside
    <2> QED
      BY <2>1, <2>2, <2>3, <2>4
  <1>5. lock' = "torn" => "torn" \in perils \/ \E q \in Procs : proc'[q].pc = "sign"
    <2> SUFFICES ASSUME lock' = "torn", "torn" \notin perils
                 PROVE  \E q \in Procs : proc'[q].pc = "sign"
      OBVIOUS
    <2>1. CASE lock' # lock
      <3>1. CreateLock(p)
        BY <2>1 DEF LockStep, TakeGuard, Look, Reclaim, CreateLock, SignLock, Unlock, Leave,
           RecoverStep, FetchFingerprint, FetchCertificate, Inspect, FindKey, AddKey,
           VerifyKey, TrustKey, Rollback, Crash, Call
      <3> QED
        BY <1>1, <2>1, <3>1 DEF CreateLock
    <2>2. CASE lock' = lock
      <3>1. PICK q \in Procs : proc[q].pc = "sign"
        BY <2>2 DEF LockOwned
      <3>2. q # p
        <4> SUFFICES ASSUME proc[p].pc = "sign" PROVE FALSE
          BY <3>1
        <4> QED
          BY <2>2 DEF LockStep, TakeGuard, Look, Reclaim, CreateLock, SignLock, Unlock,
             Leave, RecoverStep, FetchFingerprint, FetchCertificate, Inspect, FindKey,
             AddKey, VerifyKey, TrustKey, Rollback, Crash, Call
      <3> QED
        BY <1>2, <3>1, <3>2
    <2> QED
      BY <2>1, <2>2
  <1> QED
    BY <1>3, <1>4, <1>5 DEF LockOwned

\* LockOwned is inductive.
LEMMA LockOwnedNext == TypeOK /\ LockInv /\ LockOwned /\ [Next]_vars => LockOwned'
  <1> SUFFICES ASSUME TypeOK, LockInv, LockOwned, [Next]_vars PROVE LockOwned'
    OBVIOUS
  <1> USE RecoveryAssumption DEF LockOwned
  <1>1. CASE PublishFingerprint \/ PublishCertificate \/ UNCHANGED vars
    BY <1>1 DEF PublishFingerprint, PublishCertificate, vars
  <1>2. CASE LegacyLocks \/ LegacyUnlocks
    BY <1>2 DEF LegacyLocks, LegacyUnlocks, ServerStays
  <1>3. ASSUME NEW p \in Procs,
               \/ LockStep(p) \/ RecoverStep(p) \/ Crash(p)
               \/ \E want \in Gens : Call(p, want)
        PROVE  LockOwned'
    BY <1>3, LockOwnedStep
  <1> QED
    BY <1>1, <1>2, <1>3 DEF Next

\* Initially nobody is anywhere.
LEMMA LocksInit == Init => LockInv /\ LockOwned
  <1> SUFFICES ASSUME Init PROVE LockInv /\ LockOwned
    OBVIOUS
  <1>1. \A p \in Procs : proc[p].pc = "idle"
    BY DEF Init, Idle
  <1> QED
    BY <1>1, RecoveryAssumption DEF Init, LockInv, LockOwned, Inside

\* A recovery is turned away by the lock of a dead process only if that lock is
\* torn, or the pid is another process's.
LEMMA TurnedAway ==
  ASSUME TypeOK, LockInv, LockOwned, [Next]_vars, NEW p \in Procs,
         proc[p].pc = "look", proc'[p].pc = "leave"
  PROVE  lock = "legacy" \/ perils \cap {"torn", "pidreuse"} # {}
  <1> USE RecoveryAssumption
  <1>1. \A q \in Procs : q # p => proc[q].pc \in {"idle", "guard"}
    BY OneHolder
  <1>2. lock \notin Procs
    BY <1>1 DEF LockOwned, Inside
  <1>3. lock = "torn" => "torn" \in perils
    BY <1>1 DEF LockOwned
  <1>4. Look(p)
    <2>1. ASSUME NEW q \in Procs,
                 \/ LockStep(q) \/ RecoverStep(q) \/ Crash(q)
                 \/ \E want \in Gens : Call(q, want)
          PROVE  q = p
      BY <2>1, OthersUntouched
    <2>2. \/ LockStep(p) \/ RecoverStep(p) \/ Crash(p)
          \/ \E want \in Gens : Call(p, want)
      BY <2>1 DEF Next, PublishFingerprint, PublishCertificate, LegacyLocks,
         LegacyUnlocks, ServerStays, OthersStay, vars
    <2>3. ~RecoverStep(p) /\ ~\E want \in Gens : Call(p, want)
      BY DEF RecoverStep, FetchFingerprint, FetchCertificate, Inspect, FindKey, AddKey,
         VerifyKey, TrustKey, Rollback, Call
    <2>4. ~Crash(p)
      BY DEF Crash, Idle, TypeOK
    <2> QED
      BY <2>2, <2>3, <2>4 DEF LockStep, TakeGuard, Look, Reclaim, CreateLock, SignLock,
         Unlock, Leave
  <1>5. lock # "none"
    BY <1>4 DEF Look, Goto, TypeOK, Recoveries
  <1>6. lock = "dead" => "pidreuse" \in perils
    <2> SUFFICES ASSUME lock = "dead", "pidreuse" \notin perils PROVE FALSE
      OBVIOUS
    <2>1. OwnerAlive = {FALSE}
      BY DEF OwnerAlive
    <2> QED
      BY <1>4, <1>5, <2>1 DEF Look, Goto, TypeOK, Recoveries
  <1> QED
    BY <1>2, <1>3, <1>5, <1>6 DEF TypeOK

\* The lock of a process that died keeps nobody out, for any crashes.
THEOREM StaleHolds == Spec => StaleLockReclaimed
<1>1. TypeOK /\ LockInv /\ LockOwned /\ [Next]_vars
        => [\A p \in Procs : proc[p].pc = "look" /\ proc'[p].pc = "leave"
              => lock = "legacy" \/ perils \cap {"torn", "pidreuse"} # {}]_vars
  BY TurnedAway
<1> QED
  BY <1>1, LocksInit, TypeCorrect, LockInvNext, LockOwnedNext, PTL
     DEF Spec, StaleLockReclaimed

-----------------------------------------------------------------------------
(***************************************************************************)
(* What a recovery does to the keyring.  Nobody else changes it while a    *)
(* recovery is inside, so that what FindKey saw still holds when the       *)
(* rollback relies on it.                                                  *)
(***************************************************************************)
Brought == {"add", "verify", "trust", "rollback", "unlock", "leave"}
RingOf(p) ==
  LET r == proc[p]
  IN  /\ r.pc \in {"inspect", "find", "add", "verify", "trust", "rollback"} => r.got \in Gens
      /\ r.pc \notin Brought => ~r.missing
      /\ r.pc \notin {"unlock", "leave"} => ~r.recovered
      /\ r.pc = "add" => (r.missing <=> ring[r.got] = "absent")
      /\ r.pc \in {"verify", "trust"} => ring[r.got] # "absent"
                                         /\ (r.missing => ring[r.got] = "present")
      /\ r.pc = "rollback" /\ r.missing /\ "lost" \notin perils => ring[r.got] # "trusted"
      /\ r.pc = "unlock" => IF r.recovered THEN ring[r.got] = "trusted"
                            ELSE (r.missing => ring[r.got] = "absent") \/ "lost" \in perils
RingInv == \A p \in Procs : RingOf(p)

\* The keyring stands still for whoever is inside, and the perils do.
LEMMA RingStays ==
  ASSUME TypeOK, NEW p \in Procs, NEW q \in Procs, p # q,
         \/ LockStep(p) \/ RecoverStep(p) \/ Crash(p)
         \/ \E want \in Gens : Call(p, want)
  PROVE  perils' = perils /\ (proc[q].pc \in Inside => ring' = ring)
  <1>1. CASE LockStep(p)
    BY <1>1 DEF LockStep, TakeGuard, Look, Reclaim, CreateLock, SignLock, Unlock, Leave,
       ServerStays, OthersStay
  <1>2. CASE RecoverStep(p)
    <2>1. proc[p].pc \notin {"idle", "guard"} /\ perils' = perils
      BY <1>2 DEF RecoverStep, FetchFingerprint, FetchCertificate, Inspect, FindKey,
         AddKey, VerifyKey, TrustKey, Rollback, RecoverStays, OthersStay,
         ServerStays
    <2> QED
      BY <2>1, OneHolder DEF Inside
  <1>3. CASE Crash(p)
    BY <1>3 DEF Crash, OthersStay, ServerStays
  <1>4. CASE \E want \in Gens : Call(p, want)
    BY <1>4 DEF Call, OthersStay, ServerStays
  <1> QED
    BY <1>1, <1>2, <1>3, <1>4

\* Every step of a recovery keeps RingOf for itself.
LEMMA RingOwn ==
  ASSUME TypeOK, RingInv, NEW p \in Procs,
         \/ LockStep(p) \/ RecoverStep(p) \/ Crash(p)
         \/ \E want \in Gens : Call(p, want)
  PROVE  RingOf(p)'
  <1> USE DEF RingOf, Brought, Goto, ServerStays, OthersStay, RecoverStays, TypeOK, Recoveries
  <1>1. RingOf(p)
    BY DEF RingInv
  <1>2. CASE LockStep(p)
    BY <1>1, <1>2 DEF LockStep, TakeGuard, Look, Reclaim, CreateLock, SignLock, Unlock,
       Leave, Idle
  <1>3. CASE FetchFingerprint(p)
    BY <1>1, <1>3 DEF FetchFingerprint, Fails
  <1>4. CASE FetchCertificate(p)
    BY <1>1, <1>4 DEF FetchCertificate, Fails
  <1>5. CASE Inspect(p)
    BY <1>1, <1>5 DEF Inspect, Fails
  <1>6. CASE FindKey(p)
    BY <1>1, <1>6 DEF FindKey, Fails
  <1>7. CASE AddKey(p)
    BY <1>1, <1>7 DEF AddKey, Added, RollsBack
  <1>8. CASE VerifyKey(p)
    BY <1>1, <1>8 DEF VerifyKey, RollsBack
  <1>9. CASE TrustKey(p)
    BY <1>1, <1>9 DEF TrustKey, Trusted, RollsBack
  <1>10. CASE Rollback(p)
    BY <1>1, <1>10 DEF Rollback
  <1>11. CASE Crash(p)
    BY <1>11 DEF Crash, Idle
  <1>12. ASSUME NEW want \in Gens, Call(p, want) PROVE RingOf(p)'
    <2>1. /\ proc'[p].pc = "guard" /\ proc'[p].missing = FALSE
          /\ proc'[p].recovered = FALSE
      BY <1>12 DEF Call, Idle
    <2> QED
      BY <2>1
  <1> QED
    BY <1>2, <1>3, <1>4, <1>5, <1>6, <1>7, <1>8, <1>9, <1>10, <1>11, <1>12 DEF RecoverStep

\* RingInv is inductive.
LEMMA RingNext == TypeOK /\ RingInv /\ [Next]_vars => RingInv'
  <1> SUFFICES ASSUME TypeOK, RingInv, [Next]_vars PROVE RingInv'
    OBVIOUS
  <1>1. CASE \/ PublishFingerprint \/ PublishCertificate \/ LegacyLocks \/ LegacyUnlocks
             \/ UNCHANGED vars
    <2>1. UNCHANGED <<proc, ring, perils>>
      BY <1>1 DEF PublishFingerprint, PublishCertificate, LegacyLocks, LegacyUnlocks,
         ServerStays, OthersStay, vars
    <2> QED
      BY <2>1 DEF RingInv, RingOf
  <1>2. ASSUME NEW p \in Procs,
               \/ LockStep(p) \/ RecoverStep(p) \/ Crash(p)
               \/ \E want \in Gens : Call(p, want)
        PROVE  RingInv'
    <2>1. ASSUME NEW q \in Procs, q # p PROVE RingOf(q)'
      <3>1. proc'[q] = proc[q] /\ perils' = perils
        BY <1>2, <2>1, OthersUntouched, RingStays
      <3>2. CASE proc[q].pc \in Inside
        <4>1. ring' = ring
          BY <1>2, <2>1, <3>2, RingStays
        <4> QED
          BY <3>1, <4>1 DEF RingInv, RingOf
      <3>3. CASE proc[q].pc \notin Inside
        BY <3>1, <3>3 DEF RingInv, RingOf, Inside
      <3> QED
        BY <3>2, <3>3
    <2>2. RingOf(p)'
      BY <1>2, RingOwn
    <2> QED
      BY <2>1, <2>2 DEF RingInv
  <1> QED
    BY <1>1, <1>2 DEF Next

\* Initially nobody recovers anything.
LEMMA RingInit == Init => RingInv
  <1> SUFFICES ASSUME Init, NEW p \in Procs PROVE RingOf(p)
    BY DEF RingInv
  <1>1. proc[p] = Idle
    BY DEF Init
  <1> QED
    BY <1>1 DEF RingOf, Idle, Brought

\* A recovery that succeeded leaves its key trusted, one that failed leaves
\* none behind that it brought, for any processes, crashes and rotations.
THEOREM OutcomeCorrect == Spec => []OutcomeHolds
<1>1. RingInv => OutcomeHolds
  BY DEF RingInv, RingOf, OutcomeHolds
<1> QED
  BY <1>1, RingInit, TypeCorrect, RingNext, PTL DEF Spec

\* The rollback alone takes a key away, and never a trusted one.
LEMMA TrustedStays ==
  ASSUME TypeOK, RingInv, [Next]_vars, NEW g \in Gens, ring[g] = "trusted"
  PROVE  ring'[g] = "trusted" \/ "lost" \in perils
  <1> USE DEF TypeOK
  <1>1. ASSUME NEW p \in Procs, Rollback(p) PROVE ring'[g] = "trusted" \/ "lost" \in perils
    BY <1>1 DEF Rollback, RingInv, RingOf
  <1>2. ASSUME NEW p \in Procs, AddKey(p) \/ TrustKey(p) PROVE ring'[g] = "trusted"
    BY <1>2 DEF AddKey, TrustKey, Added, Trusted, RollsBack
  <1>3. ASSUME NEW p \in Procs,
               \/ LockStep(p) \/ Crash(p) \/ FetchFingerprint(p)
               \/ FetchCertificate(p) \/ Inspect(p) \/ FindKey(p) \/ VerifyKey(p)
               \/ \E want \in Gens : Call(p, want)
        PROVE  ring' = ring
    BY <1>3 DEF LockStep, TakeGuard, Look, Reclaim, CreateLock, SignLock, Unlock,
       Leave, FetchFingerprint, FetchCertificate, Inspect, FindKey, VerifyKey, Fails,
       RollsBack, Crash, Call
  <1>4. CASE \/ PublishFingerprint \/ PublishCertificate \/ LegacyLocks
             \/ LegacyUnlocks \/ UNCHANGED vars
    BY <1>4 DEF PublishFingerprint, PublishCertificate, LegacyLocks, LegacyUnlocks, vars
  <1> QED
    BY <1>1, <1>2, <1>3, <1>4 DEF Next, RecoverStep

\* Unless a command is given up, a trusted key stays trusted.
THEOREM TrustStays == Spec => TrustedKept
<1>1. TypeOK /\ RingInv /\ [Next]_vars
        => [\A g \in Gens : ring[g] = "trusted"
              => ring'[g] = "trusted" \/ "lost" \in perils]_vars
  BY TrustedStays
<1> QED
  BY <1>1, RingInit, TypeCorrect, RingNext, PTL DEF Spec, TrustedKept
=============================================================================

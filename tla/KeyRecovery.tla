---------------------------- MODULE KeyRecovery ----------------------------
(***************************************************************************)
(* Recovery of the repository's signing key: recover_key with its          *)
(* RecoveryLock (flu-core/src/runtime.rs) and recover                      *)
(* (flu-core/src/signing_key.rs).  The update worker and the helper of a   *)
(* check may both be at it; a cancelled worker dies in the middle of it.   *)
(* A key is known here by the generation of the certificate it belongs to, *)
(* which is the generation's primary key.                                  *)
(***************************************************************************)
EXTENDS Naturals

CONSTANTS Procs,       \* processes that may recover a key
          Gens,        \* generations of the certificate, one after the other
          Sound,       \* those whose primary, subkeys and signatures are good
          MaxCrashes,  \* bound: processes killed
          Perils       \* which of AllPerils the environment may show

(***************************************************************************)
(* lost    : run() may give a command up after 30 s that has had its effect *)
(*           or fails, and a rollback may fail                             *)
(* pidreuse: a dead owner's pid may belong to another process              *)
(* torn    : a process may die between creating the lock and signing it, or *)
(*           the signing fails                                             *)
(***************************************************************************)
AllPerils == {"lost", "pidreuse", "torn"}

ASSUME RecoveryAssumption ==
  /\ Procs \cap {"none", "torn", "dead", "legacy", "free"} = {}
  /\ Gens # {} /\ Sound \subseteq Gens /\ "none" \notin Gens
  /\ MaxCrashes \in Nat /\ Perils \subseteq AllPerils

VARIABLES
  file,     \* the fingerprint file of the server, by generation
  cert,     \* the certificate file of the server
  ring,     \* pacman's keyring: what it has of each primary key
  lock,     \* KEY_LOCK: "none", its owner, "dead" for an owner that died,
            \* "torn" when it names nobody, "legacy" for an older helper's
  legacy,   \* an older helper recovers a key
  guard,    \* the process that holds the flock on KEY_LOCK.guard
  proc,     \* the recoveries
  crashes,  \* processes killed so far
  perils,   \* the perils of this behaviour, chosen once
  vouched,  \* history: primaries the fingerprint file has named
  overtaken \* history: an older helper took over a lock about to be reclaimed
vars == <<file, cert, ring, lock, legacy, guard, proc, crashes, perils, vouched,
          overtaken>>

Inside == {"fingerprint", "certificate", "inspect", "find", "add", "verify",
           "trust", "rollback", "unlock"}
PCs    == {"idle", "guard", "look", "reclaim", "create", "sign", "leave"} \cup Inside
Idle   == [pc |-> "idle", want |-> "none", expected |-> "none", got |-> "none",
           missing |-> FALSE, recovered |-> FALSE]

\* A certificate may be published before or after its fingerprint.
Init == /\ file \in Gens /\ cert = file
        /\ ring \in [Gens -> {"absent", "trusted"}]
        /\ lock = "none" /\ legacy = FALSE /\ guard = "free"
        /\ proc = [p \in Procs |-> Idle]
        /\ crashes = 0 /\ perils \in SUBSET Perils /\ vouched = {file}
        /\ overtaken = FALSE

ServerStays == UNCHANGED <<file, cert, vouched, perils>>
OthersStay  == ServerStays /\ UNCHANGED <<legacy, overtaken>>
Goto(p, pc) == proc' = [proc EXCEPT ![p].pc = pc]

-----------------------------------------------------------------------------
(* The server publishes another generation, one file at a time.            *)

PublishFingerprint == /\ file' \in Gens \ {file} /\ vouched' = vouched \cup {file'}
                      /\ UNCHANGED <<cert, ring, lock, legacy, guard, proc, crashes,
                                     perils, overtaken>>
PublishCertificate == /\ cert' \in Gens \ {cert}
                      /\ UNCHANGED <<file, ring, lock, legacy, guard, proc, crashes,
                                     perils, vouched, overtaken>>

(***************************************************************************)
(* An older helper locks with a QLockFile on KEY_LOCK and knows no guard.  *)
(* It takes over the file of a dead process, but none for its age (a stale *)
(* lock time of 0, tests/signingkeyrecoverytest.cpp:1512), and removes the *)
(* file by its name, whosever it is by then; or it dies.                   *)
(***************************************************************************)
LegacyLocks   == /\ ~legacy /\ legacy' = TRUE
                 /\ lock \in {"none", "dead"} /\ lock' = "legacy"
                 /\ overtaken' = (overtaken \/ \E p \in Procs : proc[p].pc = "reclaim")
                 /\ ServerStays /\ UNCHANGED <<ring, guard, proc, crashes>>
LegacyUnlocks == /\ legacy /\ legacy' = FALSE
                 /\ lock' \in {"none", IF lock = "legacy" THEN "dead" ELSE lock}
                 /\ ServerStays /\ UNCHANGED <<ring, guard, proc, crashes, overtaken>>

-----------------------------------------------------------------------------
(* RecoveryLock.                                                           *)

\* pacman has reported a key of fluffnet that belongs to generation want.
Call(p, want) == /\ proc[p].pc = "idle"
                 /\ proc' = [proc EXCEPT ![p] = [Idle EXCEPT !.pc = "guard",
                                                             !.want = want]]
                 /\ OthersStay /\ UNCHANGED <<ring, lock, guard, crashes>>

\* Mutant: the flock is not tried.
AlwaysFree == TRUE

GuardFree == guard = "free"

\* try_lock_exclusive for 100 ms: it gets the flock or gives up.
TakeGuard(p) ==
  /\ proc[p].pc = "guard"
  /\ IF GuardFree THEN guard' = p /\ Goto(p, "look")
     ELSE proc' = [proc EXCEPT ![p] = Idle] /\ UNCHANGED guard
  /\ OthersStay /\ UNCHANGED <<ring, lock, crashes>>

\* Mutant: a dead owner is taken for a live one.
DeadLives == {TRUE}

\* Mutant: whoever is named in the lock is taken for dead.
NobodyLives == {FALSE}

\* What process_alive answers for the pid in the lock; no pid counts as busy.
OwnerAlive == CASE lock = "torn" -> {TRUE}
                [] lock = "dead" -> IF "pidreuse" \in perils THEN BOOLEAN ELSE {FALSE}
                [] OTHER         -> {TRUE}

Look(p) ==
  /\ proc[p].pc = "look"
  /\ \/ lock = "none" /\ Goto(p, "create")
     \/ /\ lock # "none"
        /\ \E alive \in OwnerAlive : Goto(p, IF alive THEN "leave" ELSE "reclaim")
  /\ OthersStay /\ UNCHANGED <<ring, lock, guard, crashes>>

\* remove_file: it fails when the file has gone meanwhile; if an older helper has
\* taken it over meanwhile, it goes all the same.
Reclaim(p) ==
  /\ proc[p].pc = "reclaim"
  /\ Goto(p, IF lock = "none" THEN "leave" ELSE "create") /\ lock' = "none"
  /\ OthersStay /\ UNCHANGED <<ring, guard, crashes>>

\* create_new: the file must not exist.
CreateLock(p) ==
  /\ proc[p].pc = "create"
  /\ IF lock = "none" THEN lock' = "torn" /\ Goto(p, "sign")
     ELSE Goto(p, "leave") /\ UNCHANGED lock
  /\ OthersStay /\ UNCHANGED <<ring, guard, crashes>>

\* A lock whose signing failed is left behind; one that has been unlinked stays so.
SignLock(p) ==
  /\ proc[p].pc = "sign"
  /\ \/ lock' = (IF lock = "torn" THEN p ELSE lock) /\ Goto(p, "fingerprint")
     \/ "torn" \in perils /\ Goto(p, "leave") /\ UNCHANGED lock
  /\ OthersStay /\ UNCHANGED <<ring, guard, crashes>>

\* Drop: the file goes if it is still this process's, then the flock.
Unlock(p) ==
  /\ proc[p].pc = "unlock" /\ Goto(p, "leave")
  /\ lock' = IF lock = p THEN "none" ELSE lock
  /\ OthersStay /\ UNCHANGED <<ring, guard, crashes>>

\* Mutant: the flock is not released.
LeaveLocked(p) == /\ proc[p].pc = "leave" /\ proc' = [proc EXCEPT ![p] = Idle]
                  /\ OthersStay /\ UNCHANGED <<ring, lock, guard, crashes>>

Leave(p) == /\ proc[p].pc = "leave"
            /\ guard' = IF guard = p THEN "free" ELSE guard
            /\ proc' = [proc EXCEPT ![p] = Idle]
            /\ OthersStay /\ UNCHANGED <<ring, lock, crashes>>

-----------------------------------------------------------------------------
(* recover: every step fails, or leads to the next one.                    *)

Fails(p)     == Goto(p, "unlock") /\ UNCHANGED ring
RollsBack(p) == Goto(p, "rollback") /\ UNCHANGED ring
RecoverStays == OthersStay /\ UNCHANGED <<lock, guard, crashes>>

FetchFingerprint(p) ==
  /\ proc[p].pc = "fingerprint"
  /\ \/ /\ proc' = [proc EXCEPT ![p].pc = "certificate", ![p].expected = file]
        /\ UNCHANGED ring
     \/ Fails(p)
  /\ RecoverStays

FetchCertificate(p) ==
  /\ proc[p].pc = "certificate"
  /\ \/ /\ proc' = [proc EXCEPT ![p].pc = "inspect", ![p].got = cert]
        /\ UNCHANGED ring
     \/ Fails(p)
  /\ RecoverStays

\* Mutant: the primary is not compared with the expected one.
FingerprintIgnored(p) == proc[p].want = proc[p].got /\ proc[p].got \in Sound

\* In a home of its own: the primary is the expected one and usable, the
\* requested key is the primary or one of its subkeys, fit to sign and bound.
Verified(p) == /\ proc[p].got = proc[p].expected
               /\ proc[p].want = proc[p].got
               /\ proc[p].got \in Sound

Inspect(p) ==
  /\ proc[p].pc = "inspect"
  /\ \/ Verified(p) /\ Goto(p, "find") /\ UNCHANGED ring
     \/ Fails(p)        \* gpg may fail on a good certificate
  /\ RecoverStays

\* Mutant: a key is taken for missing whatever the keyring has.
AlwaysMissing(p) == /\ proc[p].pc = "find"
                    /\ proc' = [proc EXCEPT ![p].pc = "add", ![p].missing = TRUE]
                    /\ UNCHANGED ring /\ RecoverStays

\* pacman-key --finger: is the primary in the keyring before it is added?
FindKey(p) ==
  /\ proc[p].pc = "find"
  /\ \/ /\ proc' = [proc EXCEPT ![p].pc = "add",
                                ![p].missing = ring[proc[p].got] = "absent"]
        /\ UNCHANGED ring
     \/ Fails(p)
  /\ RecoverStays

Added(g)   == ring' = [ring EXCEPT ![g] = IF @ = "absent" THEN "present" ELSE @]
Trusted(g) == ring' = [ring EXCEPT ![g] = IF @ = "absent" THEN @ ELSE "trusted"]

AddKey(p) ==
  /\ proc[p].pc = "add"
  /\ \/ Added(proc[p].got) /\ Goto(p, "verify")
     \/ RollsBack(p)
     \/ "lost" \in perils /\ Added(proc[p].got) /\ Goto(p, "rollback")
  /\ RecoverStays

\* The live keyring is read back: the key that was asked for is in it.
VerifyKey(p) ==
  /\ proc[p].pc = "verify"
  /\ \/ ring[proc[p].got] # "absent" /\ Goto(p, "trust") /\ UNCHANGED ring
     \/ RollsBack(p)
  /\ RecoverStays

\* lsign-key fails on a key that is not there.
TrustKey(p) ==
  /\ proc[p].pc = "trust"
  /\ \/ /\ ring[proc[p].got] # "absent" /\ Trusted(proc[p].got)
        /\ proc' = [proc EXCEPT ![p].pc = "unlock", ![p].recovered = TRUE]
     \/ RollsBack(p)
     \/ "lost" \in perils /\ Trusted(proc[p].got) /\ Goto(p, "rollback")
  /\ RecoverStays

\* Mutant: nothing is rolled back.
RollbackForgotten(p) == /\ proc[p].pc = "rollback" /\ Goto(p, "unlock")
                        /\ UNCHANGED ring /\ RecoverStays

\* Only a key this recovery brought is deleted again; nobody looks if it is.
Rollback(p) ==
  /\ proc[p].pc = "rollback" /\ Goto(p, "unlock")
  /\ \/ ring' = IF proc[p].missing THEN [ring EXCEPT ![proc[p].got] = "absent"] ELSE ring
     \/ "lost" \in perils /\ UNCHANGED ring
  /\ RecoverStays

-----------------------------------------------------------------------------
\* A process is killed: the flock goes with it, the files stay.
Crash(p) ==
  /\ crashes < MaxCrashes /\ proc[p].pc # "idle"
  /\ proc[p].pc = "sign" => "torn" \in perils
  /\ crashes' = crashes + 1
  /\ proc' = [proc EXCEPT ![p] = Idle]
  /\ guard' = IF guard = p THEN "free" ELSE guard
  /\ lock' = IF lock = p THEN "dead" ELSE lock
  /\ OthersStay /\ UNCHANGED ring

LockStep(p) == \/ TakeGuard(p) \/ Look(p) \/ Reclaim(p) \/ CreateLock(p) \/ SignLock(p)
               \/ Unlock(p) \/ Leave(p)
RecoverStep(p) == \/ FetchFingerprint(p) \/ FetchCertificate(p) \/ Inspect(p)
                  \/ FindKey(p) \/ AddKey(p) \/ VerifyKey(p) \/ TrustKey(p)
                  \/ Rollback(p)

Next == \/ PublishFingerprint \/ PublishCertificate \/ LegacyLocks \/ LegacyUnlocks
        \/ \E p \in Procs : \/ LockStep(p) \/ RecoverStep(p) \/ Crash(p)
                            \/ \E want \in Gens : Call(p, want)
Spec == Init /\ [][Next]_vars

-----------------------------------------------------------------------------
(* Safety.                                                                 *)

Recoveries == [pc : PCs, want : Gens \cup {"none"}, expected : Gens \cup {"none"},
               got : Gens \cup {"none"}, missing : BOOLEAN, recovered : BOOLEAN]

\* Every variable has its type, and the flock is held by the one process that
\* is past try_lock_exclusive.
TypeOK == /\ file \in Gens /\ cert \in Gens
          /\ ring \in [Gens -> {"absent", "present", "trusted"}]
          /\ lock \in {"none", "torn", "dead", "legacy"} \cup Procs
          /\ guard \in Procs \cup {"free"} /\ proc \in [Procs -> Recoveries]
          /\ legacy \in BOOLEAN /\ overtaken \in BOOLEAN
          /\ crashes \in Nat /\ perils \subseteq Perils /\ vouched \subseteq Gens
          /\ \A p \in Procs : guard = p <=> proc[p].pc \notin {"idle", "guard"}

\* Recoveries exclude each other, through crashes and the reclaiming of stale
\* locks; and they exclude an older helper, whoever is inside owns KEY_LOCK, unless
\* one has taken the lock of a dead process over between a recovery's look at it
\* and its remove_file (runtime.rs:349-396, 362-372).
Exclusive == \A p \in Procs : proc[p].pc \in Inside =>
               guard = p /\ (overtaken \/ (lock = p /\ ~legacy))

\* A key gets trusted only if the fingerprint file has named it, whatever the
\* certificate file holds and whenever the server changes either of them, and
\* only if its certificate is sound (signing_key.rs:456-516).
TrustIsVerified == [][\A g \in Gens : ring[g] # "trusted" /\ ring'[g] = "trusted"
                        => g \in Sound /\ g \in vouched]_vars

\* A recovery that succeeded leaves the key trusted: nobody's rollback takes it
\* away meanwhile.  One that failed leaves no key behind that it brought, unless
\* commands are given up in the middle (signing_key.rs:540-632).
OutcomeHolds == \A p \in Procs : proc[p].pc = "unlock" =>
                  IF proc[p].recovered THEN ring[proc[p].got] = "trusted"
                  ELSE \/ proc[p].missing => ring[proc[p].got] = "absent"
                       \/ "lost" \in perils

\* Unless a command is given up in the middle, a trusted key stays trusted: the
\* rollback of a recovery that found it missing does not hit the same key of a
\* recovery that came after it (was_missing, signing_key.rs:536-547).
TrustedKept == [][\A g \in Gens : ring[g] = "trusted"
                    => ring'[g] = "trusted" \/ "lost" \in perils]_vars

\* The lock of a process that died keeps nobody out, unless the lock names
\* nobody, or its pid somebody else (runtime.rs:362-372).
StaleLockReclaimed ==
  [][\A p \in Procs : proc[p].pc = "look" /\ proc'[p].pc = "leave"
       => lock = "legacy" \/ perils \cap {"torn", "pidreuse"} # {}]_vars
=============================================================================

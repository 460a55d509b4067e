# Verification of flufflinux-update

TLA+ models of flufflinux-update (FLU), the updater of FluffLinux: a module of
KDE System Settings, a privileged helper, a worker run by systemd and an observer
in the user's session. TLC checks the models on small instances. TLAPS proves
the properties that matter most for all values of the constants.

| Module | Models | Lines of code |
| --- | --- | --- |
| `UpdateSession` | helper, worker, systemd unit, pacman, STATE and `db.lck` | `flu-service/src/helper.rs`, `worker.rs`, `flufflinux-update.service` |
| `UpdateLifecycle` | what STATE promises to its readers (abstract specification) | phases of `worker.rs`, `helper.rs` |
| `Panel` | the panel's controller thread | `flu-core/src/desktop.rs` |
| `CheckPlanner` | a check: `check_updates`, the planner and its pacman | `flu-service/src/helper.rs`, `Process::answer` in `flu-core/src/runtime.rs` |
| `ConflictCheck` | may a package take the place of another one? | `flu-core/src/conflict.rs` |
| `VerifiedPlanner` | `CheckPlanner` with `ConflictCheck` as its judge | `helper.rs` |
| `ProcessIO` | a child, its pipe, the reader thread, the channel, the callers | `Process`, `run` in `runtime.rs`, `execute` in `desktop.rs` |
| `DownloadRate` | the speed over three samples | `DownloadRate` in `worker.rs` |
| `WorkerIO` | the loops of `download` and `install` over both | `worker.rs` |
| `KeyRecovery` | `recover_key`, `RecoveryLock`, `recover` | `flu-core/src/runtime.rs`, `signing_key.rs` |
| `Notifier` | presence of panels, the notifier's loop | `flu-core/src/notifications.rs` |
| `NotifierWatched` | `Notifier` with what the user has seen in a panel | |
| `MC*` | constants and symmetry for TLC | |
| `UpdateSessionProofs`, `CheckPlannerProofs`, `VerifiedPlannerProofs`, `KeyRecoveryProofs`, `PanelProofs`, `NotifierProofs`, `ProcessIOProofs`, `WorkerIOProofs` | theorems and their proofs | |

Paths below are relative to `src/rust/` unless they begin with `src/`.
`PROJECT.json` ties every definition to its lines, every property to a
mutation of the code that breaks it, and every hazard to its properties.

## 1. Inventory

### Parts, their state and their operations

**Update session** (`flu-service`). The helper is started through polkit, one process per call:
`check`, `install`, `cancel`, `remove`. `install` writes a new operation to
STATE (`/etc/pacman.d`, a JSON file replaced by rename) and starts
`flufflinux-update.service`. The worker of that unit goes
through three stages, prepare (`pacman -Sy`), download and install, one pacman
each. It publishes whole copies of its state, recovers signing keys,
renames conflicting files (25 at most) and retries. `cancel` stops the unit
while it downloads. All of them look for a running pacman in `/proc` and
remove a stale `db.lck`.
*Correct when:* STATE tells the truth about success and failure, an update ends,
nobody loses a lock he holds, a new operation is not overwritten by an old worker.

**Panel's controller** (`flu-core/src/desktop.rs`). One thread owns the model
that the pages show. It works off a channel of commands, blocks in helper
calls, is told of changes in `/etc/pacman.d` through the same channel and reads
STATE. `ignore_terminal` hides a result that belongs to the past.
*Correct when:* the panel shows the update there is, does not show an
earlier one, leaves an update that has ended, reports errors, and removes only
what the user has consented to.

**Key recovery** (`runtime.rs`, `signing_key.rs`). Fetches a fingerprint and a
certificate, inspects the certificate in a GnuPG home of its own, adds it to pacman's
keyring, reads it back, trusts it, rolls it back on failure. `RecoveryLock` is a flock
(`KEY_LOCK.guard`) with a pid file (`KEY_LOCK`) for older helpers.
*Correct when:* recoveries exclude each other also after crashes, only a verified
key is trusted, a failure leaves nothing behind and destroys nothing.

**Notifier and panel presence** (`notifications.rs`). Panels announce over D-Bus
whether they are visible; the notifier is activated by that call, reads STATE
twice a second, shows progress as a job view while no panel is visible, and
the result of an operation once.
*Correct when:* no result is lost or told twice, no history is replayed, nothing that
the notifier knows of stays on the screen behind a panel.

**Check planner** (`check_updates`, `plan_transaction`, `removal_result` in
`helper.rs`, `Policy`). A check synchronizes a private database and starts a planner, which
answers the questions of a `pacman -Su` that must not install anything, finds the
packages in the way and reports or removes them by class. After a removal, the check plans
again (128 rounds at most); after a recovered key, the planner starts over once.
*Correct when:* a check installs nothing, removes what may be removed only and names it in its output,
stops its pacman on every way out, and ends.

**Conflict verification** (`conflict.rs`). When pacman asks whether it may remove an
installed package for an incoming one, `verified_fluffnet` looks up what pacman has chosen,
fetches FluffNet's database anew into a private directory with signatures required, compares
the two, downloads the archive and reads who made it. 60 s for a command, 90 s for all.
*Correct when:* a yes is given for exactly the package that FluffNet offers and signs.

**Process input and output** (`runtime.rs`, `worker.rs`, `desktop.rs`). `Process` starts a child
with one pipe for its output, a thread that reads the pipe and a channel of 32 chunks;
`finished` waits for the end of both the child and its output. `run` and the panel's `execute`
have a deadline, the loops of the worker do not. These answer pacman's questions, count
packages from its output and from `pacman.log`, and sample the package cache for the speed.
*Correct when:* no output is lost but for what a loop may forget, a deadline is one, nothing stays behind, pacman and
worker never wait for each other, and what the panel is shown is true.

**Smaller parts.** Classification of failures (patterns over pacman's output); battery warning
(a D-Bus query); GUI bridge and QML; Qt shim; locale; packaging. They keep no
state that other parts see; see section 6.

### How they interact

    panel --(polkit: a helper call, blocking, <= 300 s)--> helper
    helper --STATE, systemctl start/stop--> unit --> worker --> pacman --> db.lck
    worker --STATE--> panel (watcher, Refresh in the channel), notifier (polls)
    worker, helper check --KEY_LOCK, KEY_LOCK.guard--> key recovery --> keyring
    panel --D-Bus SetVisible--> notifier --D-Bus--> job views, notifications

### What is hard

- No lock covers STATE: helpers and worker read, decide and write in separate steps.
- The worker or the machine may stop at any step; STATE, `db.lck` and `KEY_LOCK`
  stay behind.
- A command that `run` has given up may have had its effect.
- The controller's view of STATE is old while it blocks in a call, and commands
  wait in its channel meanwhile.
- A click was made on an older model than the one it is applied to.
- D-Bus calls fail, or have their effect and lose their reply.
- Retries (keys, conflicting files) publish earlier phases over and over.
- The end of a process and the end of its output are two events, and the second one may
  be somebody else's doing.
- A chunk of output ends anywhere: in a question, in a number, in a line.
- What a database said when pacman chose a package need not be what FluffNet says now.

The hazards are listed one by one, at their lines, in `PROJECT.json`.

## 2. Modules and the code they model

### UpdateSession

| State | Code |
| --- | --- |
| `state` | STATE: phase, `operation_id`, `worker_pid` (0 for none) |
| `lock` | `db.lck`: free, the pacman that made it, or stale |
| `pac` | pacman of each helper, of the unit, and one nobody here started |
| `unit` | the systemd unit; `KillMode=control-group` |
| `worker` | program counter, stage, its copy of STATE, `attempted_keys`, recovered files |
| `helper` | each call: program counter and the STATE it read or wrote |

A process advances in the steps in which it reads or writes what another one can see:
`InstallRead`, `InstallScan`, `InstallUnlock`, `InstallWrite`, `InstallStart` are the
parts of `start_installation` in their order, with every early return;
`CancelRead` ... `CancelWrite` and `RemoveScan` ... `RemoveReap` those of
`cancel_installation` and `remove_package`; `WorkerStep` the control of `worker.rs`
from `Worker::new` to the exit. The worker ignores a failed
write of STATE (`Written`), the helper does not. STATE is replaced by rename, so reading
it is one step. Progress, sizes, rates and the log are
left out; `PublishProgress` keeps that a whole copy is written again and again.

`Request` has no guard but the bounds. Neither the panel (`desktop.rs:734-760`) nor
`remove_package` (`helper.rs:122-132`) asks whether an update is under way, so a package may be removed
beside a working worker.

What goes wrong outside the program is chosen by `Perils`: `external` (another
pacman), `timeout` (systemctl given up after it did its work), `pidreuse`, `diskfull`,
`haste` (a helper runs in the short time between the exec of a worker and its first
publish, or between its last publish and its exit). Without `haste` a helper reads
STATE when there is no worker, or the one there is has published; the models say where that
matters.

`UpdateLifecycle` is the abstract specification: operations begin one after the other,
phases go forward only, `complete` comes from `installing` alone, and a cancellation
may overwrite an end. `UpdateSession` is shown to implement it
(`ImplementsLifecycle`), and `Panel` and `Notifier` are built on it, so that they
are driven by what the session is shown to do.

### CheckPlanner

| State | Code |
| --- | --- |
| `check` | `check_updates`: where it is, its round, `recovered` |
| `plan` | `plan_transaction`: where it is, `signing_retry`, validity of the policy, `parsed`, `final_answered`, the blockers and the package to be removed, the exit code |
| `pac` | pacman: the questions it has printed, the answers in its pipe, whether the pipe is closed, what its output says |
| `ext`, `inWay` | a pacman of somebody else; the packages still installed |
| `removed`, `reported`, `killed`, `touched` | histories for the properties; `reported` are the packages that the output of the helper names |

The planner and its pacman run side by side. pacman prints a question and waits for the pipe;
the planner searches the output behind `parsed` (`Unparsed`), writes an answer (`Wrote`, which fails on
a closed pipe) and moves on (`Parsed`), except for the last question, which
`final_answered` remembers. One action for each answer, `Abort` for the four ways into
`abort_planner`, `Finished` for everything after the loop. The output is abstracted to a *fault*
(none, a key that may be recovered, another one), which is what `may_recover_key` and
`classify` make of it, to `ok` (exit status 0 and a usable database), and to the packages it
names. The verdict on a conflict is the choice between `AnswerVerified` and
`RemovalPrompt`, which `VerifiedPlanner` makes; `recover_key` is the choice of its result, since a second failure of
a `fluffnet` key is final and a key of another repository is never recovered
(`flu-core/src/signing_key.rs:352`). The `db.lck` of the private database is
left out, and the removal of the system's one is `UpdateSession`'s. With `slow`,
`run` kills a planner after 150 s: its pacman reads the end of its input, and a removal
under way is done or not. Policy files may not change during a check in the model, but
whether they can be read may.

### ConflictCheck and VerifiedPlanner

`ver` is the place in `verified_fluffnet` and what it has found there, `chosen` what pacman's
own database offers, `published` what FluffNet's servers offer. A *build* stands for name, version and digest,
that is for the line that the code compares. `CommandFails` is every early return that
does not depend on the world: a command that fails or is given up, more than one line,
a directory that cannot be made. `Publishes` may come between any two steps.

`VerifiedPlanner` composes the two modules: it conjoins each action of `CheckPlanner` with what it means to
the verification. `AnswerVerified` needs an approval, `RemovalPrompt` a refusal or a
question of another form, and the planner does nothing else meanwhile, but pacman may end and
the planner may be killed. Nothing of `CheckPlanner` is written a second time. When a planner
is killed, a pacman of its verification that lives on counts as one of somebody else.

### ProcessIO

| State | Code |
| --- | --- |
| `call`, `pc`, `killable`, `late` | which caller it is, where it is, whether it may kill the child, its deadline |
| `eof`, `status` | the fields of `Process` |
| `child`, `held`, `waiting`, `answers` | the child; another one holds its pipe; it reads its input; what is in there |
| `stream`, `taken`, `reader`, `chan`, `got`, `output` | what was written so far, and how far the reader, the channel and the caller have got |
| `dropped` | what a loop of the worker has dropped from the front of its output (`append_bounded`, 8 MiB) |

Output is one sequence, and everybody who passes it on is a position in it, so that a reader
may take any part of what is in the pipe. A pipe that is full blocks the child, a full channel
the reader. `held` becomes true at the end of a child that leaves a program behind, and
at the start of one in the panel, whose host may start a program of its own between `pipe` and
`FD_CLOEXEC`. A helper that `pkexec` has made root cannot be killed by the panel (`killable`).
`Stop` and `Reap` are the two halves of `stop()`.

### DownloadRate and WorkerIO

`DownloadRate` is arithmetic over records. `WorkerIO` extends it and `ProcessIO` with the
cache, the clock, `pacman.log` and the counters of the worker. A sample looks twice
at the cache (`LookForWhole`, `LookForPart`), since `cached_bytes` does. A chunk is looked at by
`LookAtChunk`: the first known question behind the last answered one, and within the last `MaxOutput` of the output, is answered,
numbers in lines that are complete are counted, and the log may be read. `Retry` spawns again after a recovered key or
conflict; it assumes that pacman reports these before it begins the first package (`begun = 0`), so the retry of an
attempt that has counted packages already is not covered.

What is left out, since no property tells it apart: what a download prints (the loop over it is the same);
programs left behind that write, except for the calls of other parts; ticks and bytes while the loop does not wait for
pacman; terabytes (the code saturates where the model has numbers without a bound).

### Panel

`m` is the published model without texts and sizes, `ignore` is `ignore_terminal`,
`queue` the channel, `pc` tells in which call the thread is blocked. Each command is
one action, followed by the turn's `LoopTail`; a helper call is split where STATE changes
inside it. `Offered` says which buttons the pages enable. The environment may write STATE
at every step of the controller. The order `Open`, `Watch` is the code's: STATE is read before
the directory is watched. What is written in between is lost until something else is written or read;
`slips` remembers it (`missed`), and `InSync` excepts it. Consecutive notifications are one (`Notified`), since the second one
reads nothing new.

### KeyRecovery

A key is known by the generation of the certificate it belongs to; `Sound` holds the
generations whose primary, subkey and binding signatures pass `verify`. `file` and `cert` on the
server change at any time and one by one. `LockStep` is `RecoveryLock::acquire`
and `drop`, `RecoverStep` is `recover` with its rollback. `Crash` kills a
process anywhere.

`LegacyLocks` and `LegacyUnlocks` are an older helper (`legacy`) that knows the pid file alone, through `QLockFile`. It takes over the file
of a dead process, but never a file for its age, as its stale lock time was 0
(`src/tests/signingkeyrecoverytest.cpp:1512`), and removes the file by its name when it is done, or dies. So it may take over the
very lock that a recovery has found to be a dead process's (`runtime.rs:362-371`) and is about to remove (`:372`). The recovery then removes
the lock of a live process, makes its own, and both work side by side. `overtaken` remembers that this has
happened. The comment at `runtime.rs:331-332`, an older running helper "is respected", does not hold there. What an older helper does to the keyring is not
modelled, nor a child of a killed `pacman-key` that acts after the rollback.

### Notifier

`nt` is the loop's position with `Lifecycle` and `pending_finish`, `pres` is
`Presentation`, `listed` and `dead` are the entries of `Presence` by open and closed
connections. What is really on the screen are `view` and `note`, the progress and the result of which the notifier got the path or the id,
and `stray`, how many of each there are that nobody knows of: when the reply to `requestView` or `Notify` is `lost`, what it put on the screen is
one of these, and so is a notification that is still there when the notifier ends. `Tick`, `ReadState` and the
`Present...` actions are one turn of the loop. A D-Bus call is `ok`, `failed` or `lost` (done,
without a reply). `late` are the panels that have turned since `watch_panel` loaded what its `SetVisible`
is going to say; `Announce` delivers the loaded value (`Says`), and the next turn of `watch_panel` corrects it.

`NotifierWatched` adds `seen`, whether some panel has shown the end of the operation, which only the run
notifier_close_race asks for.

*Outside assumptions.* CloseNotification of an id that has gone succeeds, as the desktop's
server answers. The job server takes a view away when the connection that asked for it is closed, and all of them when it ends;
notifications stay. The bus stays: losing it ends the session. pacman creates `db.lck`
exclusively and unlinks it by path. systemd waits for a stop before a start.

## 3. Runs

Twelve runs. Bounds are the constants `MaxOps` (installations, or the packages of one), `MaxCrashes`,
`MaxFileRecoveries` (25 in the code), `MaxRounds` (128 in the code), `MaxPrompts` (questions of a
pacman), `MaxQueue` (clicks in the channel), `MaxFaults` (D-Bus
calls gone wrong), `MaxEnds` (restarts), `MaxWritten`, `MaxAnswers`, `MaxOutput`, `MaxArrived`, `MaxTime`,
`MaxAttempts` (see worker_io), and the sets of helpers, keys, packages, builds,
generations and windows.

### Runs that pass

**session_serial** (81,200 states). One helper at a time installs, cancels and removes, the latter also while a worker works; two keys,
two file recoveries, two operations, one crash or reboot; no perils. Checks `TypeOK`,
`PhaseMatchesWorker` (an end in STATE means a quiet pacman, an active phase a unit that runs),
`UpdateLockKept` (no installation, cancellation or recovery of files takes the lock of a live pacman, while no package is being removed),
`NoTakeover`, the refinement `ImplementsLifecycle` and the liveness `Settles` and `CrashRepaired` (what a crash left behind keeps no
later update from being begun and ended).
Two operations are enough for an old and a new one to be confused, two keys for one failing
after the other, two files for a retry of a retry. These properties belong to a
quiet environment: with a second pacman or a removal, a lock may be lost (see session_lock_race), and
with two helpers at once, STATE may well be overwritten.

**session_concurrent** (2,966,000 states, symmetric). Two helpers overlap at every step under all
five perils: `CompleteIsReal` and `KeyTriedOnce`. One key is
enough: the attempts of different keys do not meet. Crashes and file recoveries are left to
session_serial, and both together with the perils to the proofs.

**planner** (236,000 states; module `VerifiedPlanner`). One check after the other, two rounds, two questions of pacman before the last
one, four packages (two automatic, one of each other class), other pacmans, planners that are killed:
`DryRun`, `StrictestDecides`, `RemovalsReported`, `RefusedByOthersOnly`, `CheckEnds`, and `ConsentVerified`
with three builds (one that may be installed, one that FluffNet only signed, one of somebody else). Two rounds
are a first one and the last one. Two questions leave a yes behind for the last one if answers and
questions get out of step. Two automatic packages let one be removed while another one is in the way.

**key_recovery** (1,975,000 states). Two recoveries, an older helper, two generations of which one is
sound, two crashes, every subset of perils chosen at the start: `Exclusive`, `OutcomeHolds`,
`TrustIsVerified`, `TrustedKept`, `StaleLockReclaimed`. `Exclusive` says that recoveries exclude each other always, and an older helper
until `overtaken`. Two crashes let the lock of
a dead process be found by a process that dies as well.

**panel** (206,000 states). All commands, one click under way, one package, two operations, another panel that
installs and cancels: `InSync`, `OldResultHidden`, `PanelSettles`. Two
operations are an old result and a new update.

**notifier** (481,000 states). One window that comes, turns away and goes (and comes back while its
last connection is still listed), two operations, one fault, one restart of the job server
or the notifier: `ToldOnce`, `NotReplayed`, `HiddenBehindPanel`, `ResultShown`,
`ProgressShown`. `HiddenBehindPanel` counts what stays behind a panel because nobody knows of it: at most one for each
lost reply and each end of the notifier. A second window only adds entries to a set whose emptiness is all that is used.

**worker_io** (262,500 states). The calls of `run` and `execute` and the two loops, one of them per behaviour. A
pipe of two tokens and a channel of one chunk are full after one line, four tokens in all let a question or
a numbered line be cut at any place with something before or after it. `MaxOutput` is two, so that `run` meets its limit and the loops
drop what is before their last two tokens. Two attempts, packages to install,
a file that comes in, is renamed or thrown away, a clock with four ticks (one more than the window of three samples holds) at any
moments of waiting. `WholeOutput`,
`CallEnds` and `ThreadEnds` are about `ProcessIO`; `QuestionAnswered`, `InstallCounted` and `RateHonest` about the loops.
`RateHonest` excepts a window in which a sample missed a file: if pacman renames it between the two looks, `cached_bytes`
finds neither, and its bytes are counted as new by the next sample.

### Runs that find a disagreement

Each checks one statement of the repository about itself. TLC's trace is the
shortest way to break it.

- **session_cancel_race**, `InstallProtected`: `src/README.md:33` protects the
  installation phase, but `cancel_installation` reads `downloading` and stops the unit in a
  later step; the worker may have started to install.
- **session_lock_race**, `LiveLockKept` with `external`: the comment at
  `flu-service/src/worker.rs:510` forbids to clear the lock of a live pacman, but the scan
  and the removal are two steps. The same two steps occur in four places. For the removal of a package no other
  pacman is needed: with installations and removals by one helper and no perils at all, TLC finds that `RemoveScan`
  comes before the worker starts the pacman of its next stage and `RemoveUnlock` (`helper.rs:131`) after it. That is why session_serial
  checks `UpdateLockKept` and not `LiveLockKept`.
- **panel_fast_end**, `FastSettles`: the comment at `helper.rs:434` promises that a very fast
  update is told from an old result; the controller looks at the phase and not at the
  operation, and stays in `starting`.
- **panel_consent_race**, `RemovalConsented`: the answer to a removal dialog carries no package.
  With a check queued before the answer, the consent is used for another package.
- **notifier_close_race** (module `NotifierWatched`), `EndReported`: an update that ends after the panel was
  turned away from, before the panel's announcement has come, is shown by neither.

Two more were met without a run of their own. One is the older helper that loses its lock in spite of `runtime.rs:331-332`,
see KeyRecovery above: with `overtaken` struck from `Exclusive`, key_recovery finds it. The other one needs no interleaving: the message of a failed cancellation
(`desktop.rs:712`) is overwritten in the same turn of the loop, whose tail reads STATE again
(`CancelFails`, then `LoopTail`, in `Panel`), while `src/po/README.md:70` lists it as a text that is shown.

## 4. Fairness and liveness

- `UpdateSession`: weak fairness of the worker, of systemd, of each pacman and of each
  helper call, that is of processes that are running. `PublishProgress` gets none, nor do
  users, crashes, reboots and other pacmans. That pacman ends is an assumption the
  code shares: the download has no timeout. `Settles` is stated for
  behaviours without a crash: a worker that is killed leaves an active phase in STATE,
  and nobody writes an end until the next installation. That this one is not refused, and ends, is `CrashRepaired`,
  for an installation that is asked for when no pacman runs, and no further crash. No fairness is asked of
  a particular outcome (success or failure, of pacman or of a key), so an endless retry would
  be a counterexample.
- `CheckPlanner`: weak fairness of the check, of the planner and of pacman, which are running
  processes; none of the 150 s (`PlanKilled`), so `CheckEnds` shows that a check ends by its own
  limits: 120 s are among the ways into `Abort`, but a planner that never runs into them ends too.
  In `VerifiedPlanner` the steps of a verification are steps of the planner. It ends in any case, since each of its commands does
  (`CallEnds`); FluffNet is not obliged to publish anything.
- `ProcessIO`, `WorkerIO`: weak fairness of the caller and of the reader, which are threads, of time, and of a child
  that has an answer to read. No child owes an end and nobody who holds a pipe lets go of it: hence the two cases of `CallEnds`,
  and the exception of a helper that may not be killed.
- `Panel`: weak fairness of the controller (a helper call returns, at the latest after
  300 s) and of the worker, whose part `Settles` shows. `PanelSettles` excepts an update
  that ended before the helper call that began it returned: that case is `FastSettles`, which fails.
- `Notifier`: weak fairness of its loop. Faults and restarts are bounded. `ResultShown` and
  `ProgressShown` are given up when a panel becomes visible, or the operation or the
  notifier ends.

Deadlock is checked in every run but worker_io, where a call that is done may leave nothing to do: in the
others users and the environment may always act.

## 5. Theorems

All proofs are checked to the last leaf. They assume `SessionAssumption`,
`PlannerAssumption`, `ConflictAssumption`, `RecoveryAssumption`, `PanelAssumption`, `NotifierAssumption`,
`ProcessAssumption`, `RateAssumption`, `WorkerAssumption` and `LinesAssumption`: the named sets do not overlap or are subsets, bounds are
naturals, and pacman writes the five kinds of lines that `WorkerIO` names. They hold for any number of helpers, keys, packages, questions, rounds, builds, processes,
generations, panels, operations, crashes, faults, tokens and attempts, in particular in the cases TLC leaves out
(three helpers at once, all perils together with two helpers, a pipe of 64 KiB and 32 chunks). Four theorems of `UpdateSessionProofs` have
hypotheses of their own, on the number of helpers and on perils, which are listed with them; all others hold for every set of perils.

**UpdateSessionProofs**
- `TypeCorrect == Spec => []TypeOK`, with the bound on recovered files in it.
- `SuccessIsReal == Spec => []CompleteIsReal`. "STATE says complete only of an
  operation that was installed" is not inductive: the worker publishes a copy that it
  has had for long, and takes the success from an exit status that it has not reaped yet.
  `SuccessInv` adds both: a copy that says `complete`, and a pacman that has exited
  well in the install stage, stand for an operation in `installed`. A helper's copy
  needs nothing, since it is written back as `failed` or `cancelled` only. Steps
  that leave the worker alone are dealt with by `SuccessFrame`, and those after which no worker
  waits by `SuccessNoWait`.
- `KeysTriedOnce == Spec => []KeyTriedOnce`, through `KeyInv`: a key that a living worker has not
  noted was not tried. Starting a worker resets both.
- `UnitTellsTruth == Spec => []UnitInv`: systemd does not say "inactive" before the worker and its pacman are gone.
  What follows rests on it.
- `NoTakeoverHolds`, for one helper at a time (`OneHelper`) without `haste`: `Spec => NoTakeover`. The step is a helper's that
  has decided to install; `OpInv` says that no worker lives where it has (`Decided`). For that the pid in STATE must be the living
  worker's: so no copy of STATE that a helper is going to write back may be of another operation or carry the pid of a worker that
  has not published yet, and a worker's own copy agrees with STATE.
- `LockKeptHolds`, for one helper at a time, without `haste`, `timeout` (`Prompt`) and `external` (`Alone`):
  `Spec => UpdateLockKept`. `CallInv` says that what a helper has seen stays true until it acts on it (no pacman of the unit,
  the unit down, no update under way), and that worker and pacman work under an active phase. `LockInv`: there is no pacman of somebody else. Hence, while no package
  is removed, the only pacman is the unit's (`UnitsAlone`), and the two unlocks of a helper come where `CallInv` leaves none,
  that of the worker where it has reaped its own (`NobodyAtUnlock`). With a removal under way none of this holds, see session_lock_race.
- `PhaseMatchesHolds`, for one helper at a time and no peril but `pidreuse`: `Spec => []PhaseMatchesWorker`. `EndInv` names, for
  every active phase without a crash, who will end it: a worker that has not ended, a helper about to start one or to report that it
  could not, a cancellation whose unit is down or stopping.
- `RefinesLifecycle`, for `Prompt` without `diskfull`: `Spec => ImplementsLifecycle`, the refinement of `UpdateLifecycle`. `LifeInv`
  says how far each stage has brought STATE, and that a cancellation under way has seen a download, to whose beginning nothing
  leads back; each step is then a step of the life cycle or leaves phase and operation alone (`LifeStep`).

These hypotheses are the "one at a time" of `session_serial`. TLC finds a counterexample on a small instance when one of them is
dropped: two helpers at once and `haste` break all four properties; `timeout` and `diskfull` break `PhaseMatchesWorker`
and the refinement; `external` breaks `UpdateLockKept` and `PhaseMatchesWorker`. For `NoTakeover` no other hypothesis is needed. The one that may be spare is
`timeout` for `UpdateLockKept`: TLC finds no counterexample with it, but `CallInv`, from which the proof is made, is false then. What the theorems add to
the run is the rest: any number of operations, keys, recovered files and crashes, and the perils not named, which session_serial leaves out.

**CheckPlannerProofs**
- `TypeCorrect`. That no check plans more often than `MaxRounds` needs `RoundInv`: wherever the next
  round may begin, one is left.
- `DryRunHolds == Spec => []DryRun`. `PipeInv`: pacman works with an empty pipe, and where it waits
  there is at most one answer, no yes if the question is the last one. It is kept because the planner
  answers only questions it has not passed, and `SearchInv` ties `parsed` to what pacman has printed:
  equal while pacman works, one behind while it waits without an answer.
- `RefusedByOthersHolds == Spec => RefusedByOthersOnly`, from `ReapInv`: the pacman is gone wherever
  a scan may come.
- `StrictestHolds == Spec => []StrictestDecides`, through `StrictestClass`.
- `ReportHolds == Spec => []RemovalsReported`, from `ReportInv`: what is removed is in the output of the helper or in the
  result that the planner hands over. What the panel shows of that output is another matter: it shows the note only without an error and
  with updates to offer (`desktop.rs:407-418`), reads no names when the check was stopped before (`562-576`), and forgets them with the next check.

**VerifiedPlannerProofs**
- `ImplementsPlanner == VerifiedSpec => Spec`: the composition does what `CheckPlanner` allows, so that all of its theorems hold
  of it; `VerifiedDryRun` is the one stated.
- `ConsentHolds == VerifiedSpec => ConsentVerified`. Two things have to be carried: what each place in the verification
  knows of the chosen build (`Knowledge`: after the comparison, that it is the one that was offered and signed), and that
  a yes in the pipe of a pacman that waits at a conflict was put there by an approval for that very question (`YesInv`).
  The second one rests on `TalkInv` of `CheckPlannerProofs`.

**ProcessIOProofs**
- `TypeCorrect`, `WholeOutputHolds == ProcSpec => []WholeOutput`. The positions are ordered, from what the caller has received over the
  chunks of the channel to what the reader has taken (`Flow`); a reader that is gone by itself has taken everything, and nobody can write
  any more (`Ended`); `eof` says that the caller has received what the reader took (`AtEnd`). `Tailed` adds that what a loop has dropped
  is always what comes before the last `MaxOutput` of what it received: bounding after each chunk comes to the same as bounding once (`BoundedTwice`).

**WorkerIOProofs**
- `ImplementsProcess == Spec => ProcSpec` and, with it, `WorkerReadsAll == Spec => []WholeOutput`: after a loop
  the worker holds the end of the output, without gaps, and all of it up to `MaxOutput`.
- `InstallCountedHolds == Spec => []InstallCounted`. `CountInv` follows both sources: the output has a line for each package pacman
  began (`OutputTells`), a number is counted or, cut off from its line, remembered in `pending` (`Counted`), and what was counted in the log and
  what is new there are together what was finished, unless it was rotated (`LogTells`). Nothing beyond that is ever counted
  (`NoneInvented`). At the end `AtEnd` of `ProcessIOProofs` is needed: what is counted last is the rest of the whole output.
- `RateHonestHolds == Spec => []RateHonest`. `Linked` ties each of the samples to the two points of the history it lies between, `Window`
  the last point to the present: the cache has grown since by what came in less what was lost. A sample appends to both
  and drops the oldest of both (`LinkAppended`, `LinkTail`); `WindowSums` adds up three links at most, and `Quotient` is the division.
- `WorkerTypeCorrect == Spec => []TypeOK`.

**KeyRecoveryProofs**
- `TypeCorrect`, with the uniqueness of the holder of the flock.
- `Exclusion == Spec => []Exclusive`. That recoveries exclude each other is the flock's doing. For an older
  helper, the process that signs the lock must find the file it made, which names nobody, and the one that reclaims a lock the file of
  a dead process. `LockInv` says so, until `overtaken`; it is kept because only the holder of the flock
  touches the file while it names nobody (`OneHolder`), and an older helper takes none but an absent one and a dead
  process's.
- `TrustVerified == Spec => TrustIsVerified`. `TrustInv` carries what `Inspect` has compared
  (the certificate's primary is the expected one and sound, and the expected one was named by the
  server) to `TrustKey`, while the server changes its files.
- `StaleHolds == Spec => StaleLockReclaimed`. `LockOwned`
  says whose lock it is: one that names a living recovery is that of one inside, and a torn one is being
  signed or was left by a crash. With `OneHolder`
  only a torn file or a reused pid turns the next recovery away.
- `OutcomeCorrect == Spec => []OutcomeHolds`, `TrustStays == Spec => TrustedKept`. `RingInv` says, at each
  step of a recovery, what of `FindKey`'s answer still holds in the keyring: the key it missed is absent
  until it adds it and untrusted until it trusts it. It is inductive because nobody else changes the keyring
  while a recovery is inside (`RingStays`, from the flock), and it is why the rollback deletes nothing
  that was trusted.

**PanelProofs**
- `TypeCorrect`, with what a dialog and a removal name.
- `HidesOldResult == Spec => OldResultHidden`. `Past` says when the panel looks past STATE
  (`ignore_terminal`): while it shows no update, while it shows why one did not start, and all through an
  installation it asks for. `Reading` is what one call of `apply_install` does to it.
- `StaysInSync == Spec => []InSync`. `Sync`: unless a Refresh is on its way, the model agrees with STATE at every place
  of the thread, not only where it waits. It needs `Past`, and that a command which is taken from the channel takes no Refresh with it.
  Within an installation the model runs ahead of STATE; there `Sync` says that nothing is under way before the helper
  has begun, and that a Refresh is on its way afterwards.

**NotifierProofs**
- `TypeCorrect`, through the full types of the notifier's records (`Shape`).
- `HidesBehind == Spec => []HiddenBehindPanel`, through `Screen`, the notifier knows of the progress and the result whose path and id it got,
  and `Strays`, which counts the rest: a stray view or result was put there by a call that lost its reply, or its notifier has ended.
- `TellsOnce == Spec => []ToldOnce`. `Tally` counts: what was told of an operation is covered by faults alone as
  long as the notifier may still tell of it (`MayTell`), and by one more from then on. It is kept because
  `MayTell` never comes back (`MayTellFalls`), not even with a restart, which forgets what was told: a new
  notifier tells only of what it has seen run. That in turn rests on `Memory`.
- `HistoryIsSilent == Spec => NotReplayed`, from `Memory`: what was found at the first reading is neither
  watched nor pending.

Model-checked only: liveness under fairness, which the prover does not reach (`Settles`, `CheckEnds`,
`CrashRepaired`, `PanelSettles`, `ResultShown`, `ProgressShown`, `CallEnds`, `ThreadEnds`, `QuestionAnswered`). Every invariant and every
action property of the passing runs is a theorem, and so is the refinement.

## 6. Not modelled, and why

- *Classification of failures.* Pure parsing of pacman's text. The
  session and the planner choose among what it can return. The same holds of the labels, lines and
  metadata in `conflict.rs`.
- *fetch_artifact.* One call with a timeout and a limit; `KeyRecovery` takes its result.
- *Remaining time, sizes, the worker's log.* Shown or written and not used.
- *GUI bridge, QML, Qt shim, locale, battery, packaging.* Layout, text, one query,
  build rules. `Offered` keeps which button is enabled when.
- *Texts, sizes, package lists* in `Panel` and `Notifier`. No guard depends on them but
  "there are updates", which `avail` keeps.
- *Protected removals.* Whether an installation may follow a check that found a protected
  package (`desktop.rs:670`) is a hazard without a property; the model has the
  behaviour, but no text of the repository states what is meant.

## 7. Plan

The order is by what the system must not get wrong.

1. Done: `UpdateSession`, `UpdateLifecycle`, their runs and first proofs.
2. Done: `KeyRecovery`, `Panel`, `Notifier` and their proofs.
3. Done: `CheckPlanner`, its run and `CheckPlannerProofs`.
4. Done: `ProcessIO`, `DownloadRate`, `WorkerIO`; `ConflictCheck` and its composition with the planner; their proofs.
5. Left: the outcomes of a check as an abstract
   specification that `CheckPlanner` implements and `Panel!CheckReturns` takes its choice from.
6. Done: the session with one helper at a time: `NoTakeover`, `UpdateLockKept`, `PhaseMatchesWorker` and, from their
   invariants, the refinement of `UpdateLifecycle`; `InstallCounted` and `RateHonest` of `WorkerIO`.

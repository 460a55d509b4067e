------------------------------ MODULE WorkerIO ------------------------------
(***************************************************************************)
(* What the worker makes of pacman's output (flu-service/src/worker.rs):   *)
(* the loops of download() and install() over ProcessIO, the speed that is *)
(* sampled from the package cache, the questions that are answered and the *)
(* installed packages that are counted from the output and from            *)
(* /var/log/pacman.log.  One package is downloaded; an attempt that failed *)
(* and was recovered is made again.                                        *)
(*                                                                         *)
(* Pacman writes lines; the reader may cut them anywhere.                  *)
(***************************************************************************)
EXTENDS ProcessIO, DownloadRate, FiniteSets
LOCAL INSTANCE FiniteSetsExt

CONSTANTS Jobs,        \* "download", "install", or "other" calls
          Size,        \* size of the package
          Pieces,      \* the bytes that may come in at once
          MaxArrived,  \* bound: bytes that come in, again after a loss perhaps
          MaxTime,     \* bound: ticks of the clock
          MaxOps,      \* packages pacman installs
          MaxAttempts  \* bound: attempts of a job

ASSUME WorkerAssumption ==
  /\ Jobs \subseteq {"download", "install", "other"}
  /\ Size \in Nat /\ Pieces \subseteq 1..Size
  /\ MaxArrived \in Nat /\ MaxTime \in Nat
  /\ MaxOps \in Nat /\ MaxAttempts \in Nat \ {0}

VARIABLES
  job, attempts,
  now, part, whole,   \* the clock; the .part file's bytes, it was renamed
  look,               \* a sample has not found the whole file
  rate, speed,
  arrived, lost,      \* history: bytes that came in; were thrown away
  points,             \* history: the samples of the attempt's window
  begun, logged,      \* packages pacman began, finished (and logged)
  logLen, logOffset, logCompleted,          \* pacman.log, what was read of it
  parsed, pending, answered,                \* positions; an unfinished line
  outputCompleted, shown                    \* the counters
cacheVars   == <<now, part, whole, arrived, lost>>
rateVars    == <<look, rate, speed, points>>
pacmanVars  == <<begun, logged, logLen>>
countVars   == <<logOffset, logCompleted, parsed, pending, answered,
                 outputCompleted, shown>>
workerVars  == <<job, attempts, cacheVars, rateVars, pacmanVars, countVars>>
vars        == <<procVars, workerVars>>

\* History: what a sample would find now, if it misses no file.
Point == [t |-> now, arrived |-> arrived, lost |-> lost, seen |-> TRUE]

Cached == IF whole THEN Size ELSE part

Init ==
  /\ ProcInit
  /\ job \in Jobs /\ (job = "other" <=> call # "loop") /\ attempts = 1
  /\ now = 0 /\ part \in {0} \cup Pieces /\ (job # "download" => part = 0) /\ whole = FALSE
  /\ arrived = 0 /\ lost = 0
  /\ look = FALSE /\ rate = NewRate(part, 0) /\ speed = 0
  /\ points = <<[t |-> 0, arrived |-> 0, lost |-> 0, seen |-> TRUE]>>
  /\ begun = 0 /\ logged = 0 /\ logLen = 1
  /\ logOffset = 1 /\ logCompleted = 0 /\ parsed = 0 /\ pending = FALSE
  /\ answered = 0 /\ outputCompleted = 0 /\ shown = 0

-----------------------------------------------------------------------------
(* Pacman.                                                                 *)

Text     == <<"text">>
Question == <<"quest", "ion">>         \* one that installation_answer() knows
Riddle   == <<"riddle">>               \* one that it does not
Numbered == <<"(i/n)", "upgrading">>   \* the package about to be installed
Unnumbered == <<"package">>            \* the same without its number

ASSUME LinesAssumption == Lines \subseteq {Text, Question, Riddle, Numbered, Unnumbered}

PacmanWrites ==
  \E line \in Lines \ {Question, Riddle} :
    /\ ChildWrites(line)
    /\ job = "install" <=> line # Text
    /\ job # "download"   \* what it prints is as in the other loop
    /\ begun' = begun + (IF line = Text THEN 0 ELSE 1) /\ begun' <= MaxOps
    /\ UNCHANGED <<job, attempts, cacheVars, rateVars, logged, logLen, countVars>>

\* A download is made with --noconfirm; other programs ask what nobody answers.
PacmanAsks == /\ \E line \in Lines \cap {Question, Riddle} :
                   /\ ChildAsks(line)
                   /\ job = "install" \/ (job = "other" /\ line = Riddle)
              /\ UNCHANGED workerVars
PacmanLogs == /\ child = "running" /\ ~waiting /\ logged < begun
              /\ logged' = logged + 1 /\ logLen' = logLen + 1
              /\ UNCHANGED <<procVars, job, attempts, cacheVars, rateVars, begun, countVars>>
LogRotated == /\ job = "install" /\ logLen = logged + 1 /\ logLen' = 0
              /\ UNCHANGED <<procVars, job, attempts, cacheVars, rateVars, begun, logged,
                             countVars>>

\* The cache and the clock go on while the loop waits for pacman's output,
\* between the two looks of a sample and between attempts; elsewhere nobody looks
\* at them.
Downloading == job = "download" /\ child = "running" /\ (pc = "receive" \/ look)
Recovering  == job = "download" /\ pc = "done" /\ attempts < MaxAttempts

Arrives == /\ Downloading /\ ~whole
           /\ \/ \E piece \in Pieces :
                   /\ part + piece <= Size /\ part' = part + piece
                   /\ arrived < MaxArrived /\ arrived' = arrived + piece
                   /\ UNCHANGED <<whole, lost>>
              \/ part = Size /\ whole' = TRUE /\ part' = 0 /\ UNCHANGED <<arrived, lost>>
              \/ part > 0 /\ part' = 0 /\ lost' = lost + part /\ UNCHANGED <<whole, arrived>>
           /\ UNCHANGED <<procVars, job, attempts, now, rateVars, pacmanVars, countVars>>
ClockTicks == /\ Downloading \/ Recovering
              /\ now < MaxTime /\ now' = now + 1
              /\ UNCHANGED <<procVars, job, attempts, part, whole, arrived, lost,
                             rateVars, pacmanVars, countVars>>

\* Everything else about processes does not concern the worker.
Others == /\ \/ job = "other" /\ \E line \in Lines \cap {Text} : HolderWrites(line)
             \/ ChildResumes \/ ChildExits \/ HolderEnds
             \/ ReaderStep \/ TimePasses
          /\ UNCHANGED workerVars
Environment == \/ PacmanWrites \/ PacmanAsks \/ PacmanLogs \/ LogRotated
               \/ Arrives \/ ClockTicks \/ Others

-----------------------------------------------------------------------------
(* download().                                                             *)

Due == now - rate.last_sample >= Second

\* The sample found so many bytes; it has missed the file if that was renamed
\* after the look at its whole name and before the one at its partial name.
TakeSample(bytes) ==
  /\ rate' = Sampled(rate, bytes, now) /\ speed' = Speed(rate')
  /\ points' = Append(IF Len(points) > 3 THEN Tail(points) ELSE points,
                      [Point EXCEPT !.seen = bytes = Cached])
  /\ look' = FALSE /\ Work
  /\ UNCHANGED <<job, attempts, cacheVars, pacmanVars, countVars>>

NoSample     == job = "download" /\ ~Due /\ ~look /\ Work /\ UNCHANGED workerVars
LookForWhole == /\ job = "download" /\ pc = "work" /\ Due /\ ~look
                /\ IF whole THEN TakeSample(Size)
                   ELSE /\ look' = TRUE
                        /\ UNCHANGED <<procVars, job, attempts, cacheVars, rate, speed,
                                       points, pacmanVars, countVars>>
LookForPart  == job = "download" /\ look /\ TakeSample(part)

-----------------------------------------------------------------------------
(* install().                                                              *)

\* install_progress(): never back, never beyond the packages there are.
Progress(completed) == Min({Max({shown, completed}), MaxOps})

OpsUpTo(i) == Cardinality({k \in 1..i : stream[k] \in {"(i/n)", "package"}})

\* Mutant: the beginning of a line is forgotten with its chunk.
NumbersInChunk(from, to) ==
  {OpsUpTo(k) : k \in {k \in from + 1 .. to : stream[k] = "upgrading" /\ k > from + 1}}

\* process_install_output(): the highest number in a line that ends in this
\* chunk, begun in it or in an earlier one.
NumbersIn(from, to) ==
  {OpsUpTo(k) : k \in {k \in from + 1 .. to :
                         stream[k] = "upgrading" /\ (k > from + 1 \/ pending)}}

\* read_install_log(): from the beginning, if the file was truncated.
NewInLog == logLen - (IF logLen < logOffset THEN 0 ELSE logOffset)

\* The chunk is counted; every 250 ms, and at the end, the log is read.
Count(readLog) ==
  /\ outputCompleted' = Max({outputCompleted} \cup NumbersIn(parsed, got))
  /\ parsed' = got
  /\ pending' = IF got > parsed THEN stream[got] = "(i/n)" ELSE pending
  /\ logOffset' = IF readLog THEN logLen ELSE logOffset
  /\ logCompleted' = IF readLog THEN logCompleted + NewInLog ELSE logCompleted
  /\ shown' = Progress(Max({outputCompleted', logCompleted'}))

\* Mutant: only the chunk is searched, not what was left of earlier ones.
QuestionInChunk ==
  {k \in parsed + 1 .. got - 1 : k > answered /\ stream[k] = "quest"}

\* A complete question behind the last one that was answered, in what
\* append_bounded has left of the prompts.
QuestionSeen ==
  {k \in Bounded(answered, got) + 1 .. got - 1 : stream[k] = "quest"}

LookAtChunk ==
  /\ job = "install" /\ pc = "work"
  /\ IF got > parsed /\ QuestionSeen # {}
     THEN Answer /\ answered' = Min(QuestionSeen) + 1
     ELSE Work /\ UNCHANGED answered
  /\ IF pc' = "stopping"
     THEN UNCHANGED <<logOffset, logCompleted, parsed, pending, outputCompleted, shown>>
     ELSE \E readLog \in BOOLEAN : Count(readLog)
  /\ UNCHANGED <<job, attempts, cacheVars, rateVars, pacmanVars>>

\* The end of the attempt; a stopped one is not counted any more.
LeaveLoop ==
  /\ Leave
  /\ IF job = "install" /\ result = "finished"
     THEN Count(TRUE) /\ UNCHANGED answered ELSE UNCHANGED countVars
  /\ UNCHANGED <<job, attempts, cacheVars, rateVars, pacmanVars>>

-----------------------------------------------------------------------------

\* Mutant: the speed goes on from the attempt before.
WindowKept == UNCHANGED <<rate, speed>>

\* The speed of a new attempt starts with the bytes that are there.
FreshWindow == rate' = NewRate(Cached, now) /\ speed' = 0

\* A key or a file conflict was recovered, which pacman reports before it
\* installs anything: spawn again.  The log is read on from its present end.
Retry ==
  /\ Again /\ attempts < MaxAttempts /\ attempts' = attempts + 1 /\ begun = 0
  /\ IF job = "download" THEN FreshWindow ELSE UNCHANGED <<rate, speed>>
  /\ points' = <<Point>>
  /\ parsed' = 0 /\ pending' = FALSE /\ answered' = 0 /\ shown' = 0 /\ logOffset' = logLen
  /\ UNCHANGED <<job, cacheVars, look, pacmanVars, logCompleted, outputCompleted>>

CallerGoesOn == /\ Spawn \/ CheckFinished \/ Receive \/ Stop \/ Reap
                /\ UNCHANGED workerVars

WorkerStep == \/ CallerGoesOn \/ NoSample \/ LookForWhole \/ LookForPart
              \/ LookAtChunk \/ LeaveLoop

Next == Environment \/ WorkerStep \/ Retry
Spec == Init /\ [][Next]_vars

\* Threads run, time passes and pacman reads what it has asked for.  Nobody
\* owes an end, and no recovery a new attempt.
Fairness == /\ WF_vars(WorkerStep) /\ WF_vars(ReaderStep /\ UNCHANGED workerVars)
            /\ WF_vars(TimePasses /\ UNCHANGED workerVars)
            /\ WF_vars(ChildResumes /\ UNCHANGED workerVars)
FairSpec == Spec /\ Fairness

-----------------------------------------------------------------------------

TypeOK ==
  /\ ProcTypeOK
  /\ job \in Jobs /\ attempts \in 1..MaxAttempts
  /\ now \in 0..MaxTime /\ part \in 0..Size /\ whole \in BOOLEAN /\ look \in BOOLEAN
  /\ speed \in Nat /\ Len(rate.samples) <= 3
  /\ begun \in 0..MaxOps /\ logged \in 0..begun
  /\ logCompleted \in Nat /\ shown \in 0..MaxOps
  /\ parsed <= got /\ answered <= got /\ pending \in BOOLEAN

\* Every question that pacman asks and the worker knows is answered, cut by the
\* reader or not: pacman and the loop of install() never wait for each other
\* (worker.rs:548-557).
QuestionAnswered == (job = "install" /\ waiting /\ stream[Len(stream)] = "ion") ~> ~waiting

\* The panel is never told of a package that pacman has not begun, and at the
\* end of pacman of every one that it numbered in its output or finished in its
\* log, wherever the chunks were cut and whenever the log was read, unless the
\* log was rotated (worker.rs:395-444, 565-566).
InstallCounted ==
  job = "install" =>
    /\ shown <= begun
    /\ pc = "done" /\ result = "finished" =>
         /\ \A k \in DOMAIN stream : stream[k] = "upgrading" => shown >= OpsUpTo(k)
         /\ logLen = logged + 1 => shown >= logged

\* The speed that is shown is what came in during the last three samples, over
\* the time they took: bytes that were in the cache before the attempt, and the
\* time before it, count for nothing, and a late tick does not make it faster
\* (worker.rs:74-75, 333-334); unless one of them missed a file that was
\* renamed between its two looks (worker.rs:296-298).
RateHonest ==
  LET first == points[1]
      final == points[Len(points)]
      span  == final.t - first.t
      came  == Second * (final.arrived - first.arrived)
  IN  /\ span = 0 => speed = 0
      /\ (\A k \in DOMAIN points : points[k].seen) /\ span > 0
         => /\ speed * span <= came
            /\ final.lost = first.lost => speed * span > came - span
=============================================================================

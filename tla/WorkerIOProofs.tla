--------------------------- MODULE WorkerIOProofs ---------------------------
(***************************************************************************)
(* The worker's loops use their process as ProcessIO describes: what is    *)
(* proved of ProcessIO holds of them, that everything pacman wrote has     *)
(* been received when its output is at its end among it.  From this, that  *)
(* the packages are counted truly; and from the window that goes on from   *)
(* sample to sample, that the speed is what came in.                       *)
(***************************************************************************)
EXTENDS WorkerIO, ProcessIOProofs, FiniteSetTheorems,
        WellFoundedInduction, SequenceTheorems
LOCAL INSTANCE FiniteSetsExt

\* What pacman and the threads do.
LEMMA EnvironmentSteps == Environment => ProcNext \/ UNCHANGED procVars
<1>1. PacmanWrites => ChildStep BY DEF PacmanWrites, ChildStep
<1>2. PacmanAsks => ChildStep BY DEF PacmanAsks, ChildStep
<1>3. PacmanLogs \/ LogRotated \/ Arrives \/ ClockTicks => UNCHANGED procVars
      BY DEF PacmanLogs, LogRotated, Arrives, ClockTicks
<1>4. Others => ChildStep \/ ReaderStep \/ TimePasses BY DEF Others, ChildStep
<1> QED BY <1>1, <1>2, <1>3, <1>4 DEF Environment, ProcNext

\* What the loops do with what they received is their step "work".
LEMMA WorkerSteps == WorkerStep => ProcNext \/ UNCHANGED procVars
<1>1. CallerGoesOn => CallerStep BY DEF CallerGoesOn, CallerStep
<1>2. NoSample => CallerStep BY DEF NoSample, CallerStep
<1>3. LookForWhole \/ LookForPart => CallerStep \/ UNCHANGED procVars
      BY DEF LookForWhole, LookForPart, TakeSample, CallerStep
<1>4. LookAtChunk => CallerStep BY DEF LookAtChunk, CallerStep
<1>5. LeaveLoop => CallerStep BY DEF LeaveLoop, CallerStep
<1> QED BY <1>1, <1>2, <1>3, <1>4, <1>5 DEF WorkerStep, ProcNext

\* The loops of download() and install(), and the attempts they make, refine the
\* life of a process and its output (worker.rs:335-377, 543-592).
THEOREM ImplementsProcess == Spec => ProcSpec
<1>1. Init => ProcInit BY DEF Init
<1>2. [Next]_vars => [ProcNext]_procVars
  <2>1. Retry => ProcNext BY DEF Retry, ProcNext
  <2>2. UNCHANGED vars => UNCHANGED procVars BY DEF vars
  <2> QED BY EnvironmentSteps, WorkerSteps, <2>1, <2>2 DEF Next
<1> QED BY <1>1, <1>2, PTL DEF Spec, ProcSpec

\* When the output of a download or of an installation is handed to the
\* classification of failures nothing of it is left in the pipe or the channel:
\* it is all that pacman wrote or, of more than MAX_OUTPUT, exactly the end
\* (worker.rs:339-361, 559-592, 632-641).
THEOREM WorkerReadsAll == Spec => []WholeOutput
  BY ImplementsProcess, WholeOutputHolds, PTL
-----------------------------------------------------------------------------
(* What the worker's variables are, beyond TypeOK.                         *)

Sample == [bytes : Nat, elapsed : Nat \ {0}]
Mark   == [t : Nat, arrived : Nat, lost : Nat, seen : BOOLEAN]

\* The job and its caller, and what is counted of pacman's output and its log.
CountTypes ==
  /\ job \in Jobs /\ (job = "other" <=> call # "loop") /\ attempts \in 1..MaxAttempts
  /\ begun \in 0..MaxOps /\ logged \in 0..begun
  /\ logLen \in Nat /\ logOffset \in Nat /\ logCompleted \in Nat
  /\ parsed \in 0..got /\ answered \in 0..got /\ pending \in BOOLEAN
  /\ outputCompleted \in Nat /\ shown \in 0..MaxOps

\* The cache, the clock and what was sampled of them.
RateTypes ==
  /\ now \in 0..MaxTime /\ part \in 0..Size /\ whole \in BOOLEAN /\ look \in BOOLEAN
  /\ arrived \in Nat /\ lost \in Nat /\ speed \in Nat
  /\ rate \in [last_bytes : Nat, last_sample : Nat, samples : Seq(Sample)]
  /\ points \in Seq(Mark) /\ Len(points) \in 1..4 /\ Len(rate.samples) = Len(points) - 1

\* Only a download looks at the cache, and between its two looks it is due for
\* a sample.
Idle == /\ job # "download" => part = 0 /\ ~whole /\ now = 0 /\ ~look
                               /\ speed = 0 /\ Len(points) = 1
        /\ look => pc = "work" /\ Due

-----------------------------------------------------------------------------
(* The packages that are counted.                                          *)

\* The output numbers or names each package that pacman began, and a number
\* stands before what is done with the package.
OutputTells ==
  /\ OpsUpTo(Len(stream)) = begun
  /\ \A k \in DOMAIN stream : stream[k] = "upgrading" => k > 1 /\ stream[k - 1] = "(i/n)"

\* The log has a line of each package that was finished, after its beginning and
\* up to its rotation; what was counted in it and what is new in it are no more
\* than these, and all of these if it was not rotated.
LogTells ==
  /\ logLen <= logged + 1
  /\ logCompleted + NewInLog <= logged
  /\ logLen = logged + 1 => logOffset = logCompleted + 1 /\ logOffset <= logLen

\* Of the output up to parsed each number was counted, but one whose line is not
\* complete, which is remembered.
Counted ==
  /\ pending = (parsed > 0 /\ stream[parsed] = "(i/n)")
  /\ \A k \in 1..parsed : stream[k] = "upgrading" => outputCompleted >= OpsUpTo(k)

\* Nothing is counted that pacman has not begun.
NoneInvented == outputCompleted <= begun /\ shown <= begun

AllShown ==
  pc = "done" /\ result = "finished" =>
    /\ \A k \in DOMAIN stream : stream[k] = "upgrading" => shown >= OpsUpTo(k)
    /\ logLen = logged + 1 => shown >= logged

CountInv == job = "install" =>
              OutputTells /\ LogTells /\ Counted /\ NoneInvented /\ AllShown

-----------------------------------------------------------------------------
(* The speed that is shown.                                                *)

\* The second point lies so many ticks after the first, and so many bytes came in
\* between them, less those that were lost.
After(ticks, a, b) == b.t = a.t + ticks /\ a.arrived <= b.arrived /\ a.lost <= b.lost
Came(bytes, a, b)  == /\ bytes <= b.arrived - a.arrived
                      /\ a.lost = b.lost => bytes = b.arrived - a.arrived

\* Between two points lies a sample of the time; of the bytes, unless one of them
\* missed the file.
Linked(s, p) ==
  /\ Len(p) = Len(s) + 1
  /\ \A k \in 1..Len(s) :
       /\ After(s[k].elapsed, p[k], p[k + 1])
       /\ p[k].seen /\ p[k + 1].seen => Came(s[k].bytes, p[k], p[k + 1])

\* The window of samples ends at the last point, where the cache was what it is
\* now, but for what came in and was lost since.
Window ==
  LET final == points[Len(points)]
  IN  /\ Linked(rate.samples, points)
      /\ rate.last_sample = final.t /\ final.t <= now
      /\ final.arrived <= arrived /\ final.lost <= lost
      /\ final.seen => (Cached - arrived) + lost =
                         (rate.last_bytes - final.arrived) + final.lost

RateInv == (job = "download" => Window) /\ speed = Speed(rate)

USE DEF callerVars, childVars, readerVars, Goto

-----------------------------------------------------------------------------
(* Lemmas of arithmetic and of finite sets of numbers.                     *)

\* A set of numbers has a least one, and a greatest one if it is bounded.
LEMMA Least == ASSUME NEW S \in SUBSET Nat, S # {} PROVE \E m \in S : \A k \in S : m <= k
<1>1. PICK m \in S : \A k \in S : ~(<<k, m>> \in OpToRel(<, Nat))
      BY WFMin, NatLessThanWellFounded
<1>2. \A k \in S : ~(k < m) BY <1>1 DEF OpToRel
<1> QED BY <1>2

LEMMA Greatest ==
  ASSUME NEW S \in SUBSET Nat, S # {}, NEW n \in Nat, \A k \in S : k <= n
  PROVE  \E m \in S : \A k \in S : m >= k
<1> DEFINE Below == {n - k : k \in S}
<1>1. Below \in SUBSET Nat /\ Below # {} OBVIOUS
<1>2. PICK d \in Below : \A k \in Below : d <= k BY <1>1, Least
<1>3. PICK m \in S : d = n - m OBVIOUS
<1>4. ASSUME NEW k \in S PROVE m >= k
  <2>1. n - k \in Below OBVIOUS
  <2>2. d <= n - k BY <1>2, <2>1
  <2>3. m \in Nat /\ k \in Nat OBVIOUS
  <2> QED BY <1>3, <2>2, <2>3
<1> QED BY <1>4

LEMMA SameSuccessor == \A m, n \in Nat : m + 1 = n + 1 => m = n
  OBVIOUS

LEMMA MinIsLeast == ASSUME NEW S \in SUBSET Nat, S # {}
                    PROVE  Min(S) \in S /\ \A k \in S : Min(S) <= k
  BY Least DEF Min

LEMMA MaxIsGreatest == ASSUME NEW S \in SUBSET Nat, S # {}, NEW n \in Nat, \A k \in S : k <= n
                       PROVE  Max(S) \in S /\ \A k \in S : Max(S) >= k
  BY Greatest DEF Max

LEMMA MaxOfTwo == ASSUME NEW a \in Nat, NEW b \in Nat
                  PROVE  Max({a, b}) \in {a, b} /\ Max({a, b}) >= a /\ Max({a, b}) >= b
  BY DEF Max

\* What is shown is between what was shown and what was counted, but for the
\* packages there are.
LEMMA ProgressBetween ==
  ASSUME NEW completed \in Nat, shown \in 0..MaxOps
  PROVE  /\ Progress(completed) \in 0..MaxOps
         /\ \A n \in Nat : shown <= n /\ completed <= n => Progress(completed) <= n
         /\ \A n \in Nat : n <= completed /\ n <= MaxOps => Progress(completed) >= n
<1> DEFINE m == Max({shown, completed})
<1>1. MaxOps \in Nat BY WorkerAssumption
<1>2. m \in {shown, completed} /\ m >= shown /\ m >= completed BY <1>1, MaxOfTwo
<1>3. Min({m, MaxOps}) \in {m, MaxOps} /\ Min({m, MaxOps}) <= m /\ Min({m, MaxOps}) <= MaxOps
      BY <1>1, <1>2, MinIsLeast
<1> QED BY <1>1, <1>2, <1>3 DEF Progress

\* Division rounds down by less than one.
LEMMA Quotient == ASSUME NEW a \in Nat, NEW b \in Nat \ {0}
                  PROVE  a \div b \in Nat /\ (a \div b) * b <= a /\ (a \div b) * b > a - b
  OBVIOUS

-----------------------------------------------------------------------------
(* The packages that the output tells of.                                  *)

LEMMA OpsFinite == ASSUME NEW i \in Nat
                   PROVE  /\ IsFiniteSet({k \in 1..i : stream[k] \in {"(i/n)", "package"}})
                          /\ OpsUpTo(i) \in Nat
<1>1. IsFiniteSet(1..i) BY FS_Interval
<1> QED BY <1>1, FS_Subset, FS_CardinalityType DEF OpsUpTo

LEMMA OpsMonotone == ASSUME NEW i \in Nat, NEW j \in Nat, i <= j
                     PROVE  OpsUpTo(i) <= OpsUpTo(j)
<1> DEFINE Ops(n) == {k \in 1..n : stream[k] \in {"(i/n)", "package"}}
<1>1. IsFiniteSet(Ops(j)) BY OpsFinite
<1>2. Ops(i) \in SUBSET Ops(j) OBVIOUS
<1> QED BY <1>1, <1>2, FS_Subset DEF OpsUpTo

\* What is appended adds its own packages to those before.
LEMMA OpsOfLine ==
  ASSUME stream \in Seq(Tokens), NEW line \in Seq(Tokens), stream' = stream \o line
  PROVE  /\ \A i \in 0..Len(stream) : OpsUpTo(i)' = OpsUpTo(i)
         /\ \A k \in 1..Len(stream) : stream'[k] = stream[k]
         /\ \A k \in 1..Len(line) : stream'[Len(stream) + k] = line[k]
         /\ Len(stream') = Len(stream) + Len(line)
         /\ line = Numbered \/ line = Unnumbered
              => OpsUpTo(Len(stream))' = OpsUpTo(Len(stream)) + 1
         /\ line \in {Text, Question, Riddle}
              => OpsUpTo(Len(stream))' = OpsUpTo(Len(stream))
<1> DEFINE Ops(n) == {k \in 1..n : stream[k] \in {"(i/n)", "package"}}
           len    == Len(stream)
<1>1. /\ len \in Nat /\ Len(line) \in Nat /\ Len(stream') = len + Len(line)
      /\ \A k \in 1..len : stream'[k] = stream[k]
      /\ \A k \in 1..Len(line) : stream'[len + k] = line[k]
      OBVIOUS
<1>2. \A i \in 0..len : Ops(i)' = Ops(i) BY <1>1
<1>3. \A i \in 0..len : OpsUpTo(i)' = OpsUpTo(i) BY <1>2 DEF OpsUpTo
<1>4. IsFiniteSet(Ops(len)) /\ Cardinality(Ops(len)) \in Nat BY <1>1, OpsFinite DEF OpsUpTo
<1>5. ASSUME line = Numbered PROVE OpsUpTo(len)' = OpsUpTo(len) + 1
  <2>1. Len(line) = 2 /\ line[1] = "(i/n)" /\ line[2] = "upgrading" BY <1>5 DEF Numbered
  <2>2. stream'[len + 1] = "(i/n)" /\ stream'[len + 2] = "upgrading" BY <1>1, <2>1
  <2>3. Ops(len)' = Ops(len) \cup {len + 1} BY <1>1, <2>1, <2>2
  <2>4. len + 1 \notin Ops(len) BY <1>1
  <2>5. Cardinality(Ops(len) \cup {len + 1}) = Cardinality(Ops(len)) + 1
        BY <1>4, <2>4, FS_AddElement
  <2> QED BY <2>3, <2>5 DEF OpsUpTo
<1>6. ASSUME line = Unnumbered PROVE OpsUpTo(len)' = OpsUpTo(len) + 1
  <2>1. Len(line) = 1 /\ line[1] = "package" BY <1>6 DEF Unnumbered
  <2>2. stream'[len + 1] = "package" BY <1>1, <2>1
  <2>3. Ops(len)' = Ops(len) \cup {len + 1} BY <1>1, <2>1, <2>2
  <2>4. len + 1 \notin Ops(len) BY <1>1
  <2>5. Cardinality(Ops(len) \cup {len + 1}) = Cardinality(Ops(len)) + 1
        BY <1>4, <2>4, FS_AddElement
  <2> QED BY <2>3, <2>5 DEF OpsUpTo
<1>7. ASSUME line \in {Text, Question, Riddle} PROVE OpsUpTo(len)' = OpsUpTo(len)
  <2>1. \A k \in 1..Len(line) : line[k] \in {"text", "quest", "ion", "riddle"}
    <3>1. CASE line = Text
      <4>1. Len(line) = 1 /\ line[1] = "text" BY <3>1 DEF Text
      <4> QED BY <4>1
    <3>2. CASE line = Question
      <4>1. Len(line) = 2 /\ line[1] = "quest" /\ line[2] = "ion" BY <3>2 DEF Question
      <4> QED BY <4>1
    <3>3. CASE line = Riddle
      <4>1. Len(line) = 1 /\ line[1] = "riddle" BY <3>3 DEF Riddle
      <4> QED BY <4>1
    <3> QED BY <1>7, <3>1, <3>2, <3>3
  <2>2. \A k \in len + 1 .. Len(stream') : stream'[k] \notin {"(i/n)", "package"}
    <3> SUFFICES ASSUME NEW k \in len + 1 .. Len(stream')
                 PROVE  stream'[k] \notin {"(i/n)", "package"} OBVIOUS
    <3>1. k - len \in 1..Len(line) /\ stream'[k] = line[k - len] BY <1>1
    <3> QED BY <2>1, <3>1
  <2>3. Ops(len)' = Ops(len) BY <1>1, <2>2
  <2> QED BY <2>3 DEF OpsUpTo
<1> QED BY <1>1, <1>3, <1>5, <1>6, <1>7
-----------------------------------------------------------------------------
(* The steps of the counters.                                              *)

\* A step that counts nothing leaves the counters true, whatever it receives.
LEMMA CountsKept ==
  ASSUME IInv, CountTypes, CountInv,
         UNCHANGED <<job, call, attempts, begun, logged, logLen, logOffset, logCompleted,
                     parsed, pending, outputCompleted, shown>>,
         got' \in Nat, got' >= got, answered' = answered \/ answered' \in 0..got,
         job = "install" => UNCHANGED stream,
         pc' = "done" /\ result' = "finished" => pc = "done" /\ result = "finished"
  PROVE  CountTypes' /\ CountInv'
<1>1. got \in Nat BY DEF IInv, ProcTypeOK
<1>2. CountTypes' BY <1>1 DEF CountTypes
<1>3. CountInv'
  <2> SUFFICES ASSUME job = "install"
               PROVE  (OutputTells /\ LogTells /\ Counted /\ NoneInvented /\ AllShown)'
      BY DEF CountInv
  <2>1. stream' = stream /\ \A k : OpsUpTo(k)' = OpsUpTo(k) BY DEF OpsUpTo
  <2>2. OutputTells' BY <2>1 DEF CountInv, OutputTells
  <2>3. LogTells' BY DEF CountInv, LogTells, NewInLog
  <2>4. Counted' BY <2>1 DEF CountInv, Counted
  <2>5. NoneInvented' BY DEF CountInv, NoneInvented
  <2>6. AllShown' BY <2>1 DEF CountInv, AllShown
  <2> QED BY <2>2, <2>3, <2>4, <2>5, <2>6
<1> QED BY <1>2, <1>3

\* What pacman writes, of a package or not, is counted later.
LEMMA WritesUncounted ==
  ASSUME IInv, CountTypes, CountInv, PacmanWrites \/ PacmanAsks
  PROVE  CountTypes' /\ CountInv'
<1>1. PICK line \in Lines :
        /\ Writes(line) /\ child = "running"
        /\ UNCHANGED <<child, held, answers, callerVars, readerVars>>
        /\ UNCHANGED <<job, attempts, logged, logLen, countVars>>
        /\ begun' \in 0..MaxOps
        /\ \/ line \notin {Question, Riddle} /\ (job = "install" <=> line # Text)
              /\ begun' = begun + (IF line = Text THEN 0 ELSE 1)
           \/ line \in {Question, Riddle} /\ begun' = begun
  <2>1. CASE PacmanWrites
    <3>1. PICK line \in Lines \ {Question, Riddle} :
            /\ ChildWrites(line) /\ (job = "install" <=> line # Text)
            /\ begun' = begun + (IF line = Text THEN 0 ELSE 1) /\ begun' <= MaxOps
            /\ UNCHANGED <<job, attempts, cacheVars, rateVars, logged, logLen, countVars>>
          BY <2>1 DEF PacmanWrites
    <3>2. begun' \in 0..MaxOps BY <3>1, WorkerAssumption DEF CountTypes
    <3> QED BY <3>1, <3>2 DEF ChildWrites
  <2>2. CASE PacmanAsks
    <3>1. PICK line \in Lines \cap {Question, Riddle} : ChildAsks(line)
          BY <2>2 DEF PacmanAsks
    <3>2. UNCHANGED <<job, attempts, begun, logged, logLen, countVars>>
          BY <2>2 DEF PacmanAsks, workerVars, pacmanVars
    <3>3. begun' \in 0..MaxOps BY <3>2 DEF CountTypes
    <3> QED BY <3>1, <3>2, <3>3 DEF ChildAsks
  <2> QED BY <2>1, <2>2
<1>2. line \in Seq(Tokens) /\ line \in {Text, Question, Riddle, Numbered, Unnumbered}
      BY ProcessAssumption, LinesAssumption
<1>3. stream \in Seq(Tokens) /\ stream' = stream \o line BY <1>1 DEF IInv, ProcTypeOK, Writes
<1>4. got \in Nat /\ Len(stream) \in Nat /\ got <= Len(stream)
      BY DEF IInv, ProcTypeOK, Order
<1>5. CountTypes'
  <2>1. begun <= begun' /\ begun' \in Nat /\ logged' \in 0..begun'
        BY <1>1, WorkerAssumption DEF CountTypes
  <2>2. job' = job /\ call' = call /\ attempts' = attempts /\ got' = got /\ logLen' = logLen
        BY <1>1
  <2>3. UNCHANGED countVars BY <1>1
  <2> QED BY <1>1, <2>1, <2>2, <2>3 DEF CountTypes, countVars
<1>6. CountInv'
  <2> SUFFICES ASSUME job = "install"
               PROVE  (OutputTells /\ LogTells /\ Counted /\ NoneInvented /\ AllShown)'
      BY <1>1 DEF CountInv
  <2>1. /\ \A i \in 0..Len(stream) : OpsUpTo(i)' = OpsUpTo(i)
        /\ \A k \in 1..Len(stream) : stream'[k] = stream[k]
        /\ \A k \in 1..Len(line) : stream'[Len(stream) + k] = line[k]
        /\ Len(stream') = Len(stream) + Len(line)
        /\ line = Numbered \/ line = Unnumbered
             => OpsUpTo(Len(stream))' = OpsUpTo(Len(stream)) + 1
        /\ line \in {Text, Question, Riddle}
             => OpsUpTo(Len(stream))' = OpsUpTo(Len(stream))
        BY <1>2, <1>3, OpsOfLine
  <2>0. \A k \in 1..Len(stream) : stream'[k] = stream[k] BY <2>1
  <2>2. OutputTells'
    <3>1. OpsUpTo(Len(stream)) = begun BY DEF CountInv, OutputTells
    <3>2. Text \notin {Question, Riddle} BY DEF Text, Question, Riddle
    <3>3. OpsUpTo(Len(stream))' = begun' BY <1>1, <1>2, <2>1, <3>1, <3>2
    <3>4. ASSUME NEW k \in 1..Len(stream'), stream'[k] = "upgrading"
          PROVE  k > 1 /\ stream'[k - 1] = "(i/n)"
      <4>1. CASE k \in 1..Len(stream)
        <5>1. stream[k] = "upgrading" /\ k \in DOMAIN stream
              BY <2>0, <3>4, <4>1, <1>3
        <5>2. k > 1 /\ stream[k - 1] = "(i/n)" BY <5>1 DEF CountInv, OutputTells
        <5> QED BY <1>4, <2>0, <4>1, <5>2
      <4>2. CASE k \notin 1..Len(stream)
        <5>1. k - Len(stream) \in 1..Len(line) /\ stream'[k] = line[k - Len(stream)]
              BY <1>2, <1>3, <1>4, <2>1, <4>2
        <5>2. CASE line = Numbered
          <6>1. Len(line) = 2 /\ line[1] = "(i/n)" BY <5>2 DEF Numbered
          <6>2. k = Len(stream) + 2 BY <1>4, <3>4, <5>1, <6>1
          <6>3. stream'[Len(stream) + 1] = line[1] BY <2>1, <6>1
          <6>4. k - 1 = Len(stream) + 1 BY <1>4, <6>2
          <6> QED BY <1>4, <6>1, <6>3, <6>4
        <5>3. CASE line = Unnumbered
          <6>1. Len(line) = 1 /\ line[1] = "package" BY <5>3 DEF Unnumbered
          <6> QED BY <3>4, <5>1, <6>1
        <5>4. CASE line = Text
          <6>1. Len(line) = 1 /\ line[1] = "text" BY <5>4 DEF Text
          <6> QED BY <3>4, <5>1, <6>1
        <5>5. CASE line = Question
          <6>1. Len(line) = 2 /\ line[1] = "quest" /\ line[2] = "ion" BY <5>5 DEF Question
          <6> QED BY <3>4, <5>1, <6>1
        <5>6. CASE line = Riddle
          <6>1. Len(line) = 1 /\ line[1] = "riddle" BY <5>6 DEF Riddle
          <6> QED BY <3>4, <5>1, <6>1
        <5> QED BY <1>2, <5>2, <5>3, <5>4, <5>5, <5>6
      <4> QED BY <4>1, <4>2
    <3>5. stream' \in Seq(Tokens) BY <1>2, <1>3
    <3> QED BY <3>3, <3>4, <3>5 DEF OutputTells
  <2>3. LogTells' BY <1>1 DEF CountInv, LogTells, NewInLog, countVars
  <2>4. Counted'
    <3>1. parsed' = parsed /\ pending' = pending /\ outputCompleted' = outputCompleted
          BY <1>1 DEF countVars
    <3>2. parsed \in 0..Len(stream) BY <1>4 DEF CountTypes
    <3>3. \A k \in 1..parsed : stream'[k] = stream[k] /\ OpsUpTo(k)' = OpsUpTo(k)
          BY <1>4, <2>1, <3>2
    <3>4. pending = (parsed > 0 /\ stream'[parsed] = "(i/n)")
          BY <3>2, <3>3 DEF CountInv, Counted
    <3>5. \A k \in 1..parsed : stream'[k] = "upgrading" => outputCompleted >= OpsUpTo(k)'
          BY <3>3 DEF CountInv, Counted
    <3> QED BY <3>1, <3>4, <3>5 DEF Counted
  <2>5. NoneInvented'
    <3>1. begun <= begun' /\ begun \in Nat /\ begun' \in Nat
          BY <1>1, WorkerAssumption DEF CountTypes
    <3>2. outputCompleted \in Nat /\ shown \in Nat BY WorkerAssumption DEF CountTypes
    <3> QED BY <1>1, <3>1, <3>2 DEF CountInv, NoneInvented, countVars
  <2>6. AllShown'
    <3>1. result # "finished" BY <1>1 DEF IInv, Given
    <3> QED BY <1>1, <3>1 DEF AllShown
  <2> QED BY <2>2, <2>3, <2>4, <2>5, <2>6
<1> QED BY <1>5, <1>6

\* A line more in the log is new in it; a log that was rotated has no more than
\* what was finished since.
LEMMA LogUncounted ==
  ASSUME IInv, CountTypes, CountInv, PacmanLogs \/ LogRotated
  PROVE  CountTypes' /\ CountInv'
<1>1. /\ UNCHANGED <<procVars, job, attempts, begun, countVars>>
      /\ \/ child = "running" /\ logged < begun /\ logged' = logged + 1 /\ logLen' = logLen + 1
         \/ logLen = logged + 1 /\ logLen' = 0 /\ logged' = logged
      BY DEF PacmanLogs, LogRotated
<1>0. /\ got' = got /\ call' = call /\ stream' = stream /\ pc' = pc /\ result' = result
      /\ child' = child
      BY <1>1 DEF procVars
<1>2. begun \in Nat /\ logged \in Nat /\ logLen \in Nat /\ logOffset \in Nat
      /\ logCompleted \in Nat
      BY WorkerAssumption DEF CountTypes
<1>3. CountTypes'
  <2>1. logged' \in 0..begun /\ logLen' \in Nat BY <1>1, <1>2 DEF CountTypes
  <2>2. job' = job /\ attempts' = attempts /\ begun' = begun BY <1>1
  <2>3. UNCHANGED countVars BY <1>1
  <2> QED BY <1>0, <2>1, <2>2, <2>3 DEF CountTypes, countVars
<1>4. CountInv'
  <2> SUFFICES ASSUME job = "install"
               PROVE  (OutputTells /\ LogTells /\ Counted /\ NoneInvented /\ AllShown)'
      BY <1>1 DEF CountInv
  <2>1. stream' = stream /\ \A k : OpsUpTo(k)' = OpsUpTo(k) BY <1>0 DEF OpsUpTo
  <2>2. OutputTells' BY <1>1, <2>1 DEF CountInv, OutputTells
  <2>3. LogTells'
    <3>1. logOffset' = logOffset /\ logCompleted' = logCompleted BY <1>1 DEF countVars
    <3> QED BY <1>1, <1>2, <3>1 DEF CountInv, LogTells, NewInLog
  <2>4. Counted' BY <1>1, <2>1 DEF CountInv, Counted, countVars
  <2>5. NoneInvented' BY <1>1 DEF CountInv, NoneInvented, countVars
  <2>6. AllShown'
    <3>1. CASE child = "running"
      <4>1. result # "finished" BY <3>1 DEF IInv, Given
      <4> QED BY <1>0, <4>1 DEF AllShown
    <3>2. CASE logLen' = 0 /\ logged' = logged
      <4>1. logLen' # logged' + 1 BY <1>2, <3>2
      <4>2. shown' = shown BY <1>1 DEF countVars
      <4> QED BY <1>0, <2>1, <4>1, <4>2 DEF CountInv, AllShown
    <3> QED BY <1>1, <3>1, <3>2
  <2> QED BY <2>2, <2>3, <2>4, <2>5, <2>6
<1> QED BY <1>3, <1>4
\* No number in a chunk is that of a package which pacman has not begun.
LEMMA NumbersBounded ==
  ASSUME NEW from \in Nat, NEW to \in Nat
  PROVE  NumbersIn(from, to) \in SUBSET Nat /\ \A n \in NumbersIn(from, to) : n <= OpsUpTo(to)
<1>1. \A k \in from + 1 .. to : k \in Nat /\ k <= to OBVIOUS
<1>2. \A k \in from + 1 .. to : OpsUpTo(k) \in Nat /\ OpsUpTo(k) <= OpsUpTo(to)
      BY <1>1, OpsFinite, OpsMonotone
<1> QED BY <1>2 DEF NumbersIn

\* What is counted of a chunk and of the log is true, and is shown.
LEMMA CountTrue ==
  ASSUME IInv, CountTypes, CountInv, job = "install", NEW readLog \in BOOLEAN, Count(readLog),
         UNCHANGED <<begun, logged, logLen, stream, got>>
  PROVE  /\ outputCompleted' \in Nat /\ logCompleted' \in Nat /\ logOffset' \in Nat
         /\ parsed' = got /\ pending' \in BOOLEAN /\ shown' \in 0..MaxOps
         /\ OutputTells' /\ LogTells' /\ Counted' /\ NoneInvented'
         /\ \A n \in 0..MaxOps : n <= outputCompleted' \/ n <= logCompleted' => n <= shown'
         /\ readLog => logOffset' = logLen
<1> DEFINE numbers == NumbersIn(parsed, got)
<1>1. /\ outputCompleted' = Max({outputCompleted} \cup numbers)
      /\ parsed' = got
      /\ pending' = IF got > parsed THEN stream[got] = "(i/n)" ELSE pending
      /\ logOffset' = IF readLog THEN logLen ELSE logOffset
      /\ logCompleted' = IF readLog THEN logCompleted + NewInLog ELSE logCompleted
      /\ shown' = Progress(Max({outputCompleted', logCompleted'}))
      BY DEF Count
<1>2. /\ OutputTells /\ LogTells /\ Counted /\ NoneInvented BY DEF CountInv
<1>3. /\ MaxOps \in Nat /\ begun \in Nat /\ begun <= MaxOps /\ logged \in Nat /\ logged <= begun
      /\ logLen \in Nat /\ logOffset \in Nat /\ logCompleted \in Nat
      /\ outputCompleted \in Nat /\ shown \in Nat /\ shown <= MaxOps
      BY WorkerAssumption DEF CountTypes
<1>4. /\ got \in Nat /\ Len(stream) \in Nat /\ got <= Len(stream)
      /\ parsed \in Nat /\ parsed <= got /\ DOMAIN stream = 1..Len(stream)
      BY DEF IInv, ProcTypeOK, Order, CountTypes
<1>5. \A k : OpsUpTo(k)' = OpsUpTo(k) BY DEF OpsUpTo
<1>6. numbers \in SUBSET Nat /\ \A n \in numbers : n <= begun
  <2>1. OpsUpTo(got) <= begun /\ OpsUpTo(got) \in Nat
        BY <1>2, <1>4, OpsMonotone, OpsFinite DEF OutputTells
  <2>2. numbers \in SUBSET Nat /\ \A n \in numbers : n <= OpsUpTo(got)
        BY <1>4, NumbersBounded
  <2> QED BY <1>3, <2>1, <2>2
<1>7. /\ outputCompleted' \in Nat /\ outputCompleted <= outputCompleted'
      /\ outputCompleted' <= begun /\ \A n \in numbers : n <= outputCompleted'
  <2> DEFINE all == {outputCompleted} \cup numbers
  <2>1. all \in SUBSET Nat /\ all # {} /\ \A n \in all : n <= begun
        BY <1>2, <1>3, <1>6 DEF NoneInvented
  <2>2. Max(all) \in all /\ \A n \in all : Max(all) >= n BY <1>3, <2>1, MaxIsGreatest
  <2> QED BY <1>1, <2>1, <2>2
<1>8. NewInLog \in Nat BY <1>3 DEF NewInLog
<1>9. /\ logOffset' \in Nat /\ logCompleted' \in Nat /\ logCompleted' <= logged
      /\ readLog => logOffset' = logLen
      BY <1>1, <1>2, <1>3, <1>8 DEF LogTells
<1>10. LogTells' BY <1>1, <1>2, <1>3, <1>8 DEF LogTells, NewInLog
<1>11. OutputTells' BY <1>2, <1>5 DEF OutputTells
<1>12. Counted' /\ pending' \in BOOLEAN
  <2>1. pending' = (parsed' > 0 /\ stream[parsed'] = "(i/n)")
    <3>1. CASE got > parsed BY <1>1, <1>4, <3>1
    <3>2. CASE ~(got > parsed)
      <4>1. got = parsed BY <1>4, <3>2
      <4> QED BY <1>1, <1>2, <3>2, <4>1 DEF Counted
    <3> QED BY <3>1, <3>2
  <2>2. ASSUME NEW k \in 1..got, stream[k] = "upgrading" PROVE outputCompleted' >= OpsUpTo(k)
    <3>. k \in Nat BY <1>4
    <3>0. OpsUpTo(k) \in Nat BY OpsFinite
    <3>1. CASE k <= parsed
      <4>1. outputCompleted >= OpsUpTo(k) BY <1>2, <1>4, <2>2, <3>1 DEF Counted
      <4> QED BY <1>3, <1>7, <3>0, <4>1
    <3>2. CASE k > parsed + 1
      <4>1. OpsUpTo(k) \in numbers BY <1>4, <2>2, <3>2 DEF NumbersIn
      <4> QED BY <1>7, <3>0, <4>1
    <3>3. CASE k = parsed + 1
      <4>0. k \in DOMAIN stream BY <1>4
      <4>1. k > 1 /\ stream[k - 1] = "(i/n)" BY <1>2, <2>2, <4>0 DEF OutputTells
      <4>2. k - 1 = parsed BY <1>4, <3>3
      <4>3. pending
        <5>1. parsed > 0 /\ stream[parsed] = "(i/n)" BY <1>4, <4>1, <4>2
        <5>2. pending = (parsed > 0 /\ stream[parsed] = "(i/n)") BY <1>2 DEF Counted
        <5> QED BY <5>1, <5>2, Zenon
      <4>4. OpsUpTo(k) \in numbers BY <1>4, <2>2, <3>3, <4>3 DEF NumbersIn
      <4> QED BY <1>7, <3>0, <4>4
    <3> QED BY <1>4, <3>1, <3>2, <3>3
  <2>3. pending' \in BOOLEAN BY <2>1
  <2>4. \A k \in 1..parsed' : stream'[k] = "upgrading" => outputCompleted' >= OpsUpTo(k)'
        BY <1>1, <1>5, <2>2
  <2> QED BY <2>1, <2>3, <2>4 DEF Counted
<1> DEFINE both == Max({outputCompleted', logCompleted'})
<1>13. both \in Nat /\ both <= begun /\ both >= outputCompleted' /\ both >= logCompleted'
       BY <1>3, <1>7, <1>9, MaxOfTwo
<1>14. /\ shown' \in 0..MaxOps /\ shown' <= begun
       /\ \A n \in Nat : n <= both /\ n <= MaxOps => shown' >= n
  <2>1. /\ Progress(both) \in 0..MaxOps
        /\ \A n \in Nat : shown <= n /\ both <= n => Progress(both) <= n
        /\ \A n \in Nat : n <= both /\ n <= MaxOps => Progress(both) >= n
        BY <1>3, <1>13, ProgressBetween
  <2>2. shown <= begun BY <1>2 DEF NoneInvented
  <2> QED BY <1>1, <1>3, <1>13, <2>1, <2>2
<1>15. NoneInvented' BY <1>7, <1>14 DEF NoneInvented
<1>16. \A n \in 0..MaxOps : n <= outputCompleted' \/ n <= logCompleted' => n <= shown'
       BY <1>3, <1>7, <1>9, <1>13, <1>14
<1> QED BY <1>1, <1>7, <1>9, <1>10, <1>11, <1>12, <1>14, <1>15, <1>16
\* The steps that count nothing: the clock, the cache, the reader and the process
\* go on, and the caller receives.
LEMMA KeepSteps ==
  ASSUME IInv, CountTypes,
         Arrives \/ ClockTicks \/ Others \/ CallerGoesOn \/ NoSample \/ LookForWhole \/ LookForPart
  PROVE  /\ UNCHANGED <<job, call, attempts, begun, logged, logLen, countVars>>
         /\ got' \in Nat /\ got' >= got
         /\ job = "install" => UNCHANGED stream
         /\ pc' = "done" /\ result' = "finished" => pc = "done" /\ result = "finished"
<1>1. got \in Nat BY DEF IInv, ProcTypeOK
<1>2. ASSUME UNCHANGED procVars, UNCHANGED <<job, attempts, begun, logged, logLen, countVars>>
      PROVE  /\ UNCHANGED <<job, call, attempts, begun, logged, logLen, countVars>>
             /\ got' \in Nat /\ got' >= got
             /\ job = "install" => UNCHANGED stream
             /\ pc' = "done" /\ result' = "finished" => pc = "done" /\ result = "finished"
      BY <1>1, <1>2 DEF procVars
<1>3. CASE Arrives \/ ClockTicks BY <1>2, <1>3 DEF Arrives, ClockTicks, pacmanVars
<1>4. CASE Others
  <2>1. UNCHANGED <<job, attempts, begun, logged, logLen, countVars>>
        BY <1>4 DEF Others, workerVars, pacmanVars
  <2>2. UNCHANGED <<call, got, result>> /\ pc' = pc
        BY <1>4 DEF Others, HolderWrites, ChildResumes, ChildExits, HolderEnds, ReaderStep,
                    ReaderReads, ReaderSends, ReaderEnds, TimePasses
  <2>3. job = "install" => UNCHANGED stream
        BY <1>4 DEF Others, ChildResumes, ChildExits, HolderEnds, ReaderStep,
                    ReaderReads, ReaderSends, ReaderEnds, TimePasses
  <2> QED BY <1>1, <2>1, <2>2, <2>3
<1>5. CASE CallerGoesOn
  <2>1. UNCHANGED <<job, attempts, begun, logged, logLen, countVars>>
        BY <1>5 DEF CallerGoesOn, workerVars, pacmanVars
  <2>2. CASE Spawn
    <3>1. result' = "unstarted" \/ pc' \in {"receive", "check"} BY <2>2 DEF Spawn
    <3>2. UNCHANGED <<call, got, stream>> BY <2>2 DEF Spawn
    <3> QED BY <1>1, <2>1, <3>1, <3>2
  <2>3. CASE CheckFinished BY <1>1, <2>1, <2>3 DEF CheckFinished
  <2>4. CASE Receive
    <3>1. got' \in Nat /\ got' >= got
      <4>1. CASE chan # <<>> /\ got' = Head(chan)
        <5>1. Head(chan) = chan[1] /\ Head(chan) \in Nat /\ 1 \in 1..Len(chan)
              BY <4>1 DEF IInv, ProcTypeOK
        <5> QED BY <4>1, <5>1 DEF IInv, Order
      <4> QED BY <1>1, <2>4, <4>1 DEF Receive, Received
    <3> QED BY <2>1, <2>4, <3>1 DEF Receive
  <2>5. CASE Stop BY <1>1, <2>1, <2>5 DEF Stop
  <2>6. CASE Reap BY <1>1, <2>1, <2>6 DEF Reap
  <2> QED BY <1>5, <2>2, <2>3, <2>4, <2>5, <2>6 DEF CallerGoesOn
<1>6. CASE NoSample \/ LookForWhole \/ LookForPart
  <2>1. UNCHANGED <<job, attempts, begun, logged, logLen, countVars>>
        BY <1>6 DEF NoSample, LookForWhole, LookForPart, TakeSample, workerVars, pacmanVars
  <2>2. Work \/ UNCHANGED procVars
        BY <1>6 DEF NoSample, LookForWhole, LookForPart, TakeSample
  <2>3. CASE Work BY <1>1, <2>1, <2>3 DEF Work
  <2> QED BY <1>2, <2>1, <2>2, <2>3
<1> QED BY <1>3, <1>4, <1>5, <1>6

\* A chunk is looked at for a question, and counted unless the loop is left.
LEMMA LookCounts ==
  ASSUME IInv, CountTypes, CountInv, LookAtChunk PROVE CountTypes' /\ CountInv'
<1>1. job = "install" /\ pc = "work" /\ UNCHANGED <<job, attempts, begun, logged, logLen>>
      BY DEF LookAtChunk, pacmanVars
<1>2. \/ Answer /\ answered' = Min(QuestionSeen) + 1 /\ QuestionSeen # {}
      \/ Work /\ answered' = answered
  <2>1. IF got > parsed /\ QuestionSeen # {}
        THEN Answer /\ answered' = Min(QuestionSeen) + 1
        ELSE Work /\ UNCHANGED answered
        BY DEF LookAtChunk
  <2>2. CASE got > parsed /\ QuestionSeen # {} BY <2>1, <2>2
  <2>3. CASE ~(got > parsed /\ QuestionSeen # {}) BY <2>1, <2>3
  <2> QED BY <2>2, <2>3
<1>3. UNCHANGED <<call, got, result, stream>> /\ pc' \in {"check", "stopping"}
      BY <1>2 DEF Answer, Work
<1>4. got \in Nat /\ answered \in 0..got /\ answered \in Nat
      BY DEF IInv, ProcTypeOK, CountTypes
<1>5. answered' \in 0..got
  <2>1. CASE answered' = Min(QuestionSeen) + 1 /\ QuestionSeen # {}
    <3>1. QuestionSeen \in SUBSET Nat /\ \A k \in QuestionSeen : k <= got - 1
      <4>1. Bounded(answered, got) \in Nat
            BY <1>4, ProcessAssumption DEF Bounded
      <4> QED BY <1>4, <4>1 DEF QuestionSeen
    <3>2. Min(QuestionSeen) \in QuestionSeen BY <2>1, <3>1, MinIsLeast
    <3>3. PICK k \in QuestionSeen : answered' = k + 1 BY <2>1, <3>2
    <3>4. k \in Nat /\ k <= got - 1 BY <3>1
    <3> QED BY <1>4, <3>3, <3>4
  <2> QED BY <1>2, <1>4, <2>1
<1>6. CASE pc' = "stopping"
  <2>1. UNCHANGED <<logOffset, logCompleted, parsed, pending, outputCompleted, shown>>
        BY <1>6 DEF LookAtChunk
  <2> QED BY <1>1, <1>3, <1>4, <1>5, <1>6, <2>1, CountsKept
<1>7. CASE pc' # "stopping"
  <2>1. PICK readLog \in BOOLEAN : Count(readLog) BY <1>7 DEF LookAtChunk
  <2>2. /\ outputCompleted' \in Nat /\ logCompleted' \in Nat /\ logOffset' \in Nat
        /\ parsed' = got /\ pending' \in BOOLEAN /\ shown' \in 0..MaxOps
        /\ OutputTells' /\ LogTells' /\ Counted' /\ NoneInvented'
        BY <1>1, <1>3, <2>1, CountTrue
  <2>3. AllShown' BY <1>3 DEF AllShown
  <2>4. CountTypes' BY <1>1, <1>3, <1>4, <1>5, <2>2 DEF CountTypes
  <2> QED BY <2>2, <2>3, <2>4 DEF CountInv
<1> QED BY <1>6, <1>7

\* At the end of the output everything has been received, and is counted.
LEMMA LeaveCounts ==
  ASSUME IInv, CountTypes, CountInv, LeaveLoop PROVE CountTypes' /\ CountInv'
<1>1. /\ pc' = "done" /\ UNCHANGED <<call, got, result, stream>>
      /\ UNCHANGED <<job, attempts, begun, logged, logLen>>
      BY DEF LeaveLoop, Leave, pacmanVars
<1>2. got \in Nat /\ Len(stream) \in Nat BY DEF IInv, ProcTypeOK
<1>3. CASE ~(job = "install" /\ result = "finished")
  <2>1. UNCHANGED countVars BY <1>3 DEF LeaveLoop
  <2>2. CASE job = "install"
    <3>1. result' # "finished" BY <1>1, <1>3, <2>2
    <3> QED BY <1>1, <1>2, <2>1, <3>1, CountsKept DEF countVars
  <2>3. CASE job # "install"
    <3>1. CountInv' BY <1>1, <2>3 DEF CountInv
    <3> QED BY <1>1, <2>1, <3>1 DEF CountTypes, countVars
  <2> QED BY <2>2, <2>3
<1>4. CASE job = "install" /\ result = "finished"
  <2>1. Count(TRUE) /\ answered' = answered BY <1>4 DEF LeaveLoop
  <2>2. /\ outputCompleted' \in Nat /\ logCompleted' \in Nat /\ logOffset' \in Nat
        /\ parsed' = got /\ pending' \in BOOLEAN /\ shown' \in 0..MaxOps
        /\ OutputTells' /\ LogTells' /\ Counted' /\ NoneInvented'
        /\ \A n \in 0..MaxOps : n <= outputCompleted' \/ n <= logCompleted' => n <= shown'
        /\ logOffset' = logLen
        BY <1>1, <1>4, <2>1, CountTrue
  <2>3. got = Len(stream) BY <1>4 DEF IInv, Given, AtEnd
  <2>4. /\ MaxOps \in Nat /\ begun \in Nat /\ begun <= MaxOps /\ logged \in 0..begun
        /\ logLen \in Nat /\ outputCompleted' <= begun
        BY <1>1, <2>2, WorkerAssumption DEF CountTypes, NoneInvented
  <2>5. ASSUME NEW k \in 1..Len(stream), stream[k] = "upgrading" PROVE shown' >= OpsUpTo(k)
    <3> k \in Nat BY <1>2
    <3>1. OpsUpTo(k) \in Nat BY OpsFinite
    <3>2. OpsUpTo(k)' = OpsUpTo(k) BY <1>1 DEF OpsUpTo
    <3>3. outputCompleted' >= OpsUpTo(k) BY <1>1, <2>2, <2>3, <2>5, <3>2 DEF Counted
    <3>4. OpsUpTo(k) \in 0..MaxOps BY <2>2, <2>4, <3>1, <3>3
    <3> QED BY <2>2, <2>4, <3>3, <3>4
  <2>6. logLen = logged + 1 => shown' >= logged
    <3>1. logLen' = logged' + 1 => logOffset' = logCompleted' + 1 BY <2>2 DEF LogTells
    <3>2. logOffset' = logLen /\ logCompleted' \in Nat BY <2>2
    <3>3. ASSUME logLen = logged + 1 PROVE logCompleted' = logged
      <4>1. logLen' = logged' + 1 BY <1>1, <3>3
      <4>2. logged + 1 = logCompleted' + 1 BY <3>1, <3>2, <3>3, <4>1
      <4>3. logged \in Nat BY <2>4
      <4> QED BY <3>2, <4>2, <4>3, SameSuccessor, Zenon
    <3> QED BY <2>2, <2>4, <3>3
  <2>7. AllShown'
    <3>1. stream \in Seq(Tokens) BY DEF IInv, ProcTypeOK
    <3>2. \A k : OpsUpTo(k)' = OpsUpTo(k) BY <1>1 DEF OpsUpTo
    <3> QED BY <1>1, <2>5, <2>6, <3>1, <3>2 DEF AllShown
  <2>8. CountTypes'
    <3>1. parsed' \in 0..got' /\ answered' \in 0..got'
          BY <1>1, <1>2, <2>1, <2>2 DEF CountTypes
    <3> QED BY <1>1, <2>2, <3>1 DEF CountTypes
  <2> QED BY <2>2, <2>7, <2>8 DEF CountInv
<1> QED BY <1>3, <1>4

\* Before a new attempt pacman has begun nothing, so nothing was counted.
LEMMA RetryCounts ==
  ASSUME IInv, CountTypes, CountInv, Retry PROVE CountTypes' /\ CountInv'
<1>1. /\ pc' = "start" /\ result' = "none" /\ got' = 0 /\ stream' = <<>> /\ call' = call
      /\ begun = 0 /\ attempts < MaxAttempts /\ attempts' = attempts + 1
      /\ parsed' = 0 /\ pending' = FALSE /\ answered' = 0 /\ shown' = 0 /\ logOffset' = logLen
      /\ UNCHANGED <<job, begun, logged, logLen, logCompleted, outputCompleted>>
      BY DEF Retry, Again, pacmanVars
<1>2. /\ MaxOps \in Nat /\ MaxAttempts \in Nat /\ attempts \in 1..MaxAttempts
      /\ logged = 0 /\ logLen \in Nat /\ logCompleted \in Nat /\ logOffset \in Nat
      /\ outputCompleted \in Nat
      BY <1>1, WorkerAssumption DEF CountTypes
<1>3. CountTypes'
  <2>1. /\ attempts' \in 1..MaxAttempts /\ parsed' \in 0..got' /\ answered' \in 0..got'
        /\ shown' \in 0..MaxOps /\ logOffset' \in Nat
        BY <1>1, <1>2
  <2>0. pending' \in BOOLEAN BY <1>1
  <2>2. job' = job /\ call' = call /\ begun' = begun /\ logged' = logged /\ logLen' = logLen
        /\ logCompleted' = logCompleted /\ outputCompleted' = outputCompleted
        BY <1>1
  <2> QED BY <2>0, <2>1, <2>2 DEF CountTypes
<1>4. CountInv'
  <2> SUFFICES ASSUME job = "install"
               PROVE  (OutputTells /\ LogTells /\ Counted /\ NoneInvented /\ AllShown)'
      BY <1>1 DEF CountInv
  <2>1. OutputTells'
    <3>1. Len(stream') = 0 /\ DOMAIN stream' = {} BY <1>1
    <3>2. {k \in 1..0 : stream'[k] \in {"(i/n)", "package"}} = {} OBVIOUS
    <3>3. OpsUpTo(Len(stream))' = 0 BY <3>1, <3>2, FS_EmptySet DEF OpsUpTo
    <3> QED BY <1>1, <3>1, <3>3 DEF OutputTells
  <2>2. LogTells' BY <1>1, <1>2 DEF CountInv, LogTells, NewInLog
  <2>3. Counted'
    <3>1. parsed' = 0 /\ ~(parsed' > 0) BY <1>1
    <3>2. pending' = (parsed' > 0 /\ stream'[parsed'] = "(i/n)") BY <1>1, <3>1, Zenon
    <3> QED BY <3>1, <3>2 DEF Counted
  <2>4. NoneInvented' BY <1>1, <1>2 DEF CountInv, NoneInvented
  <2>5. AllShown' BY <1>1 DEF AllShown
  <2> QED BY <2>1, <2>2, <2>3, <2>4, <2>5
<1> QED BY <1>3, <1>4

LEMMA CountInit == Init => CountTypes /\ CountInv
<1> SUFFICES ASSUME Init PROVE CountTypes /\ CountInv OBVIOUS
<1>1. /\ got = 0 /\ stream = <<>> /\ pc = "start"
      /\ job \in Jobs /\ (job = "other" <=> call # "loop") /\ attempts = 1
      /\ begun = 0 /\ logged = 0 /\ logLen = 1
      /\ logOffset = 1 /\ logCompleted = 0 /\ parsed = 0 /\ pending = FALSE
      /\ answered = 0 /\ outputCompleted = 0 /\ shown = 0
      BY DEF Init, ProcInit
<1>2. CountTypes
  <2>1. pending \in BOOLEAN BY <1>1
  <2>2. attempts \in 1..MaxAttempts /\ shown \in 0..MaxOps /\ begun \in 0..MaxOps
        BY <1>1, WorkerAssumption
  <2> QED BY <1>1, <2>1, <2>2 DEF CountTypes
<1>3. OutputTells
  <2>1. Len(stream) = 0 /\ DOMAIN stream = {} BY <1>1
  <2>2. {k \in 1..0 : stream[k] \in {"(i/n)", "package"}} = {} OBVIOUS
  <2>3. OpsUpTo(Len(stream)) = 0 BY <2>1, <2>2, FS_EmptySet DEF OpsUpTo
  <2> QED BY <1>1, <2>1, <2>3 DEF OutputTells
<1>4. LogTells /\ NoneInvented /\ AllShown
      BY <1>1 DEF LogTells, NewInLog, NoneInvented, AllShown
<1>5. Counted
  <2>1. parsed = 0 /\ ~(parsed > 0) BY <1>1
  <2>2. pending = (parsed > 0 /\ stream[parsed] = "(i/n)") BY <1>1, <2>1, Zenon
  <2> QED BY <2>1, <2>2 DEF Counted
<1> QED BY <1>2, <1>3, <1>4, <1>5 DEF CountInv

LEMMA CountNext ==
  IInv /\ CountTypes /\ CountInv /\ [Next]_vars => CountTypes' /\ CountInv'
<1> SUFFICES ASSUME IInv, CountTypes, CountInv, [Next]_vars PROVE CountTypes' /\ CountInv'
    OBVIOUS
<1>1. CASE Arrives \/ ClockTicks \/ Others \/ CallerGoesOn \/ NoSample \/ LookForWhole
           \/ LookForPart
      BY <1>1, KeepSteps, CountsKept DEF countVars
<1>2. CASE UNCHANGED vars
  <2>1. got \in Nat /\ got' = got BY <1>2 DEF vars, procVars, IInv, ProcTypeOK
  <2>2. /\ UNCHANGED <<job, call, attempts, begun, logged, logLen, countVars>>
        /\ UNCHANGED <<stream, pc, result>>
        BY <1>2 DEF vars, procVars, workerVars, pacmanVars
  <2> QED BY <2>1, <2>2, CountsKept DEF countVars
<1> QED BY <1>1, <1>2, WritesUncounted, LogUncounted, LookCounts, LeaveCounts, RetryCounts
        DEF Next, Environment, WorkerStep

LEMMA Counts == Spec => [](CountTypes /\ CountInv)
<1>1. Spec => []IInv BY ImplementsProcess, Invariant, PTL
<1> QED BY <1>1, CountInit, CountNext, PTL DEF Spec

\* The panel is never told of a package that pacman has not begun, and in the end of
\* all that it numbered or finished, however the chunks were cut
\* (worker.rs:395-444, 565-566).
THEOREM InstallCountedHolds == Spec => []InstallCounted
<1>1. CountTypes /\ CountInv => InstallCounted
      BY DEF CountInv, NoneInvented, AllShown, InstallCounted
<1> QED BY <1>1, Counts, PTL
-----------------------------------------------------------------------------
(* The speed.                                                              *)

\* The values of a sequence of samples are numbers, and 0 beyond it.
LEMMA SampleValues ==
  ASSUME NEW s \in Seq(Sample)
  PROVE  /\ \A k \in 1..Len(s) : /\ s[k] \in Sample
                                 /\ Value(Bytes(s), k) = s[k].bytes
                                 /\ Value(Elapsed(s), k) = s[k].elapsed
         /\ \A k \in Nat : Value(Bytes(s), k) \in Nat /\ Value(Elapsed(s), k) \in Nat
         /\ \A k \in Nat : k > Len(s) => Value(Bytes(s), k) = 0 /\ Value(Elapsed(s), k) = 0
<1>1. DOMAIN s = 1..Len(s) /\ Len(s) \in Nat /\ \A k \in 1..Len(s) : s[k] \in Sample
      BY LenProperties, ElementOfSeq
<1>2. \A k \in 1..Len(s) : s[k].bytes \in Nat /\ s[k].elapsed \in Nat BY <1>1 DEF Sample
<1>3. /\ DOMAIN Bytes(s) = 1..Len(s) /\ DOMAIN Elapsed(s) = 1..Len(s)
      /\ \A k \in 1..Len(s) : Bytes(s)[k] = s[k].bytes /\ Elapsed(s)[k] = s[k].elapsed
      BY <1>1 DEF Bytes, Elapsed
<1> QED BY <1>1, <1>2, <1>3 DEF Value

\* The speed of a window is its bytes over its time, rounded down.
LEMMA SpeedOf ==
  ASSUME NEW s \in Seq(Sample), Len(s) \in 1..3
  PROVE  LET bytes == Total(Bytes(s))
             time  == Total(Elapsed(s))
         IN  /\ bytes \in Nat /\ time \in Nat \ {0}
             /\ \A r : r.samples = s =>
                  /\ Speed(r) \in Nat
                  /\ Speed(r) * time <= bytes * Second
                  /\ Speed(r) * time > bytes * Second - time
<1> DEFINE bytes == Total(Bytes(s))
           time  == Total(Elapsed(s))
           b(k)  == Value(Bytes(s), k)
           e(k)  == Value(Elapsed(s), k)
           came  == bytes * Second
<1>1. 1 \in 1..Len(s) OBVIOUS
<1>2. s[1] \in Sample /\ e(1) = s[1].elapsed BY <1>1, SampleValues
<1>3. e(1) \in Nat \ {0} BY <1>2 DEF Sample
<1>4. b(1) \in Nat /\ b(2) \in Nat /\ b(3) \in Nat /\ e(2) \in Nat /\ e(3) \in Nat
      BY SampleValues
<1>5. bytes = b(1) + b(2) + b(3) /\ time = e(1) + e(2) + e(3) BY DEF Total
<1>6. bytes \in Nat /\ time \in Nat \ {0}
  <2> HIDE DEF bytes, time, b, e
  <2> QED BY <1>3, <1>4, <1>5
<1>7. came \in Nat
  <2> HIDE DEF bytes
  <2> QED BY <1>6, RateAssumption
<1>8. /\ came \div time \in Nat /\ (came \div time) * time <= came
      /\ (came \div time) * time > came - time
  <2> HIDE DEF came, time
  <2> QED BY <1>6, <1>7, Quotient
<1>9. ASSUME NEW r, r.samples = s PROVE Speed(r) = came \div time
  <2>1. s # <<>> BY <1>1
  <2> QED BY <1>9, <2>1 DEF Speed
<1> QED BY <1>6, <1>8, <1>9

LEMMA MarkFields == ASSUME NEW a \in Mark
                    PROVE  a.t \in Nat /\ a.arrived \in Nat /\ a.lost \in Nat
  BY DEF Mark

LEMMA Join ==
  ASSUME NEW a \in Mark, NEW b \in Mark, NEW c \in Mark,
         NEW ticks1 \in Nat, NEW ticks2 \in Nat, NEW bytes1 \in Nat, NEW bytes2 \in Nat,
         After(ticks1, a, b), After(ticks2, b, c)
  PROVE  /\ After(ticks1 + ticks2, a, c)
         /\ Came(bytes1, a, b) /\ Came(bytes2, b, c) => Came(bytes1 + bytes2, a, c)
<1>1. /\ a.t \in Nat /\ a.arrived \in Nat /\ a.lost \in Nat
      /\ b.t \in Nat /\ b.arrived \in Nat /\ b.lost \in Nat
      /\ c.t \in Nat /\ c.arrived \in Nat /\ c.lost \in Nat
      BY MarkFields
<1> QED BY <1>1 DEF After, Came

\* The sums of a window, which has three samples at most, are those between its
\* first point and its last.
LEMMA WindowSums ==
  ASSUME RateTypes, Window, Len(points) > 1
  PROVE  LET first == points[1]
             final == points[Len(points)]
         IN  /\ first \in Mark /\ final \in Mark
             /\ After(Total(Elapsed(rate.samples)), first, final)
             /\ (\A k \in DOMAIN points : points[k].seen)
                  => Came(Total(Bytes(rate.samples)), first, final)
<1> DEFINE s    == rate.samples
           n    == Len(s)
           p(k) == points[k]
           b(k) == s[k].bytes
           e(k) == s[k].elapsed
           seen == \A k \in DOMAIN points : points[k].seen
<1>1. s \in Seq(Sample) /\ points \in Seq(Mark) BY DEF RateTypes
<1>2. n \in 1..3 /\ Len(points) = n + 1 BY <1>1 DEF RateTypes
<1>3. \A k \in 1..n : /\ b(k) \in Nat /\ e(k) \in Nat
                      /\ Value(Bytes(s), k) = b(k) /\ Value(Elapsed(s), k) = e(k)
      BY <1>1, SampleValues DEF Sample
<1>4. \A k \in Nat : k > n => Value(Bytes(s), k) = 0 /\ Value(Elapsed(s), k) = 0
      BY <1>1, SampleValues
<1>5. DOMAIN points = 1..n + 1 /\ \A k \in 1..n + 1 : p(k) \in Mark
      BY <1>1, <1>2, LenProperties, ElementOfSeq
<1>6. \A k \in 1..n : After(e(k), p(k), p(k + 1)) BY DEF Window, Linked
<1>7. \A k \in 1..n : seen => Came(b(k), p(k), p(k + 1))
  <2> SUFFICES ASSUME NEW k \in 1..n, seen PROVE Came(b(k), p(k), p(k + 1)) OBVIOUS
  <2>1. k \in DOMAIN points /\ k + 1 \in DOMAIN points BY <1>2, <1>5
  <2> QED BY <2>1 DEF Window, Linked
<1>8. CASE n = 1
  <2>1. 1 \in 1..n /\ {1, 2} \subseteq 1..n + 1 /\ 1 + 1 = 2 BY <1>8
  <2>2. Total(Bytes(s)) = b(1) /\ Total(Elapsed(s)) = e(1)
        BY <1>3, <1>4, <1>8 DEF Total
  <2>3. After(e(1), p(1), p(2)) /\ (seen => Came(b(1), p(1), p(2))) BY <1>6, <1>7, <2>1
  <2>4. p(1) \in Mark /\ p(2) \in Mark /\ p(2) = points[Len(points)]
        BY <1>2, <1>5, <1>8, <2>1
  <2> HIDE DEF b, e, p, seen
  <2> QED BY <2>2, <2>3, <2>4 DEF p, seen
<1>9. CASE n = 2
  <2>1. {1, 2} \subseteq 1..n /\ {1, 2, 3} \subseteq 1..n + 1 /\ 1 + 1 = 2 /\ 2 + 1 = 3
        BY <1>9
  <2>2. /\ b(1) \in Nat /\ b(2) \in Nat /\ e(1) \in Nat /\ e(2) \in Nat
        /\ p(1) \in Mark /\ p(2) \in Mark /\ p(3) \in Mark /\ p(3) = points[Len(points)]
        BY <1>2, <1>3, <1>5, <1>9, <2>1
  <2>3. Total(Bytes(s)) = b(1) + b(2) /\ Total(Elapsed(s)) = e(1) + e(2)
        BY <1>3, <1>4, <1>9, <2>1, <2>2 DEF Total
  <2>4. /\ After(e(1), p(1), p(2)) /\ After(e(2), p(2), p(3))
        /\ seen => Came(b(1), p(1), p(2)) /\ Came(b(2), p(2), p(3))
        BY <1>6, <1>7, <2>1
  <2> HIDE DEF b, e, p, seen
  <2>5. After(e(1) + e(2), p(1), p(3)) /\ (seen => Came(b(1) + b(2), p(1), p(3)))
        BY <2>2, <2>4, Join
  <2> QED BY <2>2, <2>3, <2>5 DEF p, seen
<1>10. CASE n = 3
  <2>1. /\ {1, 2, 3} \subseteq 1..n /\ {1, 2, 3, 4} \subseteq 1..n + 1
        /\ 1 + 1 = 2 /\ 2 + 1 = 3 /\ 3 + 1 = 4
        BY <1>10
  <2>2. /\ b(1) \in Nat /\ b(2) \in Nat /\ b(3) \in Nat
        /\ e(1) \in Nat /\ e(2) \in Nat /\ e(3) \in Nat
        /\ p(1) \in Mark /\ p(2) \in Mark /\ p(3) \in Mark /\ p(4) \in Mark
        /\ p(4) = points[Len(points)]
        BY <1>2, <1>3, <1>5, <1>10, <2>1
  <2>3. /\ Total(Bytes(s)) = b(1) + b(2) + b(3)
        /\ Total(Elapsed(s)) = e(1) + e(2) + e(3)
        BY <1>3, <1>10, <2>1 DEF Total
  <2>4. /\ After(e(1), p(1), p(2)) /\ After(e(2), p(2), p(3)) /\ After(e(3), p(3), p(4))
        /\ seen => Came(b(1), p(1), p(2)) /\ Came(b(2), p(2), p(3)) /\ Came(b(3), p(3), p(4))
        BY <1>6, <1>7, <2>1
  <2> HIDE DEF b, e, p, seen
  <2> DEFINE bytes == b(1) + b(2)
             ticks == e(1) + e(2)
  <2>5. After(ticks, p(1), p(3)) /\ (seen => Came(bytes, p(1), p(3)))
        BY <2>2, <2>4, Join
  <2>6. bytes \in Nat /\ ticks \in Nat BY <2>2
  <2>7. Total(Bytes(s)) = bytes + b(3) /\ Total(Elapsed(s)) = ticks + e(3) BY <2>3
  <2> HIDE DEF bytes, ticks
  <2>8. After(ticks + e(3), p(1), p(4)) /\ (seen => Came(bytes + b(3), p(1), p(4)))
        BY <2>2, <2>4, <2>5, <2>6, Join
  <2> QED BY <2>2, <2>7, <2>8 DEF p, seen
<1> QED BY <1>2, <1>8, <1>9, <1>10
LEMMA Scale == ASSUME NEW a \in Nat, NEW b \in Nat, NEW c \in Nat, a <= b
               PROVE  a * c <= c * b
  OBVIOUS

\* The window shows what RateHonest says of the speed.
LEMMA WindowHonest == ASSUME RateTypes, Idle, RateInv PROVE RateHonest
<1> DEFINE first == points[1]
           final == points[Len(points)]
           span  == final.t - first.t
           came  == Second * (final.arrived - first.arrived)
<1>1. points \in Seq(Mark) /\ Len(points) \in 1..4 /\ rate.samples \in Seq(Sample)
      /\ Len(rate.samples) = Len(points) - 1
      BY DEF RateTypes
<1>2. first \in Mark BY <1>1, ElementOfSeq
<1>3. CASE ~(Len(points) > 1)
  <2>0. Len(points) = 1
    <3>1. \A n \in 1..4 : n > 1 \/ n = 1 OBVIOUS
    <3> QED BY <1>1, <1>3, <3>1
  <2>1. Len(rate.samples) = 0 BY <1>1, <2>0
  <2>2. rate.samples = <<>> BY <1>1, <2>1, EmptySeq
  <2>3. speed = 0 BY <2>2 DEF RateInv, Speed
  <2>4. final = first BY <2>0
  <2>5. span = 0 BY <1>2, <2>4, MarkFields
  <2> QED BY <2>3, <2>5 DEF RateHonest
<1>4. CASE Len(points) > 1
  <2> DEFINE bytes == Total(Bytes(rate.samples))
             time  == Total(Elapsed(rate.samples))
  <2>1. Window
    <3>1. job = "download" BY <1>1, <1>4 DEF Idle
    <3> QED BY <3>1 DEF RateInv
  <2>2. /\ final \in Mark /\ After(time, first, final)
        /\ (\A k \in DOMAIN points : points[k].seen) => Came(bytes, first, final)
        BY <1>4, <2>1, WindowSums
  <2>3. /\ bytes \in Nat /\ time \in Nat \ {0} /\ speed \in Nat
        /\ speed * time <= bytes * Second /\ speed * time > bytes * Second - time
    <3>1. Len(rate.samples) \in 1..3 BY <1>1, <1>4
    <3>2. speed = Speed(rate) BY DEF RateInv
    <3> QED BY <1>1, <3>1, <3>2, SpeedOf
  <2>4. /\ first.t \in Nat /\ final.t \in Nat /\ first.arrived \in Nat /\ final.arrived \in Nat
        BY <1>2, <2>2, MarkFields
  <2>5. span = time /\ first.arrived <= final.arrived BY <2>2, <2>3, <2>4 DEF After
  <2>6. ASSUME \A k \in DOMAIN points : points[k].seen
        PROVE  /\ speed * span <= came
               /\ final.lost = first.lost => speed * span > came - span
    <3> DEFINE all == final.arrived - first.arrived
    <3>1. all \in Nat /\ bytes <= all BY <2>2, <2>4, <2>5, <2>6 DEF Came
    <3>2. final.lost = first.lost => bytes = all BY <2>2, <2>6 DEF Came
    <3>3. came = Second * all OBVIOUS
    <3> HIDE DEF all, bytes, time, span, came
    <3>4. bytes * Second <= Second * all BY <2>3, <3>1, RateAssumption, Scale
    <3>5. bytes * Second \in Nat /\ speed * time \in Nat /\ Second * all \in Nat
          BY <2>3, <3>1, RateAssumption
    <3>6. speed * span <= came BY <2>3, <2>5, <3>3, <3>4, <3>5
    <3>7. bytes = all => bytes * Second = came BY <2>3, <3>3, RateAssumption
    <3>8. final.lost = first.lost => speed * span > came - span
          BY <2>3, <2>5, <3>2, <3>7
    <3> QED BY <3>6, <3>8
  <2>7. span # 0 BY <2>3, <2>5
  <2> QED BY <2>6, <2>7 DEF RateHonest
<1> QED BY <1>3, <1>4

\* A sample and a point more at the end of a window, or less at its beginning.
LEMMA LinkAppended ==
  ASSUME NEW s \in Seq(Sample), NEW p \in Seq(Mark), Linked(s, p),
         NEW e \in Sample, NEW x \in Mark, After(e.elapsed, p[Len(p)], x),
         p[Len(p)].seen /\ x.seen => Came(e.bytes, p[Len(p)], x)
  PROVE  Linked(Append(s, e), Append(p, x))
<1> DEFINE a == Append(s, e)
           q == Append(p, x)
<1>1. /\ Len(a) = Len(s) + 1 /\ a[Len(s) + 1] = e /\ \A k \in 1..Len(s) : a[k] = s[k]
      /\ Len(q) = Len(p) + 1 /\ q[Len(p) + 1] = x /\ \A k \in 1..Len(p) : q[k] = p[k]
      BY AppendProperties
<1>2. Len(s) \in Nat /\ Len(p) = Len(s) + 1 BY DEF Linked
<1> HIDE DEF a, q
<1>3. ASSUME NEW k \in 1..Len(a)
      PROVE  /\ After(a[k].elapsed, q[k], q[k + 1])
             /\ q[k].seen /\ q[k + 1].seen => Came(a[k].bytes, q[k], q[k + 1])
  <2>1. CASE k <= Len(s)
    <3>1. a[k] = s[k] /\ q[k] = p[k] /\ q[k + 1] = p[k + 1] BY <1>1, <1>2, <2>1
    <3>2. k \in 1..Len(s) BY <1>1, <1>2, <2>1
    <3> QED BY <3>1, <3>2 DEF Linked
  <2>2. CASE k > Len(s)
    <3>1. k = Len(s) + 1 BY <1>1, <1>2, <2>2
    <3>2. a[k] = e /\ q[k] = p[Len(p)] /\ q[k + 1] = x BY <1>1, <1>2, <3>1
    <3> QED BY <3>2
  <2> QED BY <1>1, <1>2, <2>1, <2>2
<1>4. Len(q) = Len(a) + 1 BY <1>1, <1>2
<1> QED BY <1>3, <1>4 DEF Linked, a, q

LEMMA LinkTail ==
  ASSUME NEW s \in Seq(Sample), NEW p \in Seq(Mark), Linked(s, p), Len(s) > 0
  PROVE  Linked(Tail(s), Tail(p))
<1> DEFINE a == Tail(s)
           q == Tail(p)
<1>1. Len(s) \in Nat /\ Len(p) = Len(s) + 1 /\ s # <<>> /\ p # <<>> BY DEF Linked
<1>2. /\ Len(a) = Len(s) - 1 /\ \A k \in 1..Len(a) : a[k] = s[k + 1]
      /\ Len(q) = Len(p) - 1 /\ \A k \in 1..Len(q) : q[k] = p[k + 1]
      BY <1>1, HeadTailProperties
<1> HIDE DEF a, q
<1>3. ASSUME NEW k \in 1..Len(a)
      PROVE  /\ After(a[k].elapsed, q[k], q[k + 1])
             /\ q[k].seen /\ q[k + 1].seen => Came(a[k].bytes, q[k], q[k + 1])
  <2>1. k + 1 \in 1..Len(s) /\ k \in 1..Len(q) /\ k + 1 \in 1..Len(q) BY <1>1, <1>2
  <2>2. a[k] = s[k + 1] /\ q[k] = p[k + 1] /\ q[k + 1] = p[(k + 1) + 1] BY <1>2, <2>1
  <2> QED BY <2>1, <2>2 DEF Linked
<1>4. Len(q) = Len(a) + 1 BY <1>1, <1>2
<1> QED BY <1>3, <1>4 DEF Linked, a, q

LEMMA TailOfAppend ==
  ASSUME NEW S, NEW p \in Seq(S), NEW x \in S, Len(p) > 0
  PROVE  Append(Tail(p), x) = Tail(Append(p, x))
<1> DEFINE a == Append(Tail(p), x)
           b == Tail(Append(p, x))
<1>1. p # <<>> OBVIOUS
<1>2. /\ Tail(p) \in Seq(S) /\ Len(Tail(p)) = Len(p) - 1
      /\ \A k \in 1..Len(Tail(p)) : Tail(p)[k] = p[k + 1]
      BY <1>1, HeadTailProperties
<1>3. /\ a \in Seq(S) /\ Len(a) = Len(Tail(p)) + 1 /\ a[Len(Tail(p)) + 1] = x
      /\ \A k \in 1..Len(Tail(p)) : a[k] = Tail(p)[k]
      BY <1>2, AppendProperties
<1>4. /\ Append(p, x) \in Seq(S) /\ Append(p, x) # <<>> /\ Len(Append(p, x)) = Len(p) + 1
      /\ Append(p, x)[Len(p) + 1] = x /\ \A k \in 1..Len(p) : Append(p, x)[k] = p[k]
      BY AppendProperties
<1>5. /\ b \in Seq(S) /\ Len(b) = Len(Append(p, x)) - 1
      /\ \A k \in 1..Len(b) : b[k] = Append(p, x)[k + 1]
      BY <1>4, HeadTailProperties
<1>6. Len(p) \in Nat /\ Len(a) = Len(p) /\ Len(b) = Len(p) BY <1>2, <1>3, <1>4, <1>5
<1> HIDE DEF a, b
<1>7. ASSUME NEW k \in 1..Len(a) PROVE a[k] = b[k]
  <2>1. CASE k < Len(p)
    <3>1. a[k] = p[k + 1] BY <1>2, <1>3, <1>6, <2>1
    <3>2. b[k] = p[k + 1] BY <1>4, <1>5, <1>6, <2>1
    <3> QED BY <3>1, <3>2
  <2>2. CASE ~(k < Len(p))
    <3>1. k = Len(p) BY <1>6, <2>2
    <3>2. a[k] = x BY <1>2, <1>3, <1>6, <3>1
    <3>3. b[k] = x BY <1>4, <1>5, <1>6, <3>1
    <3> QED BY <3>2, <3>3
  <2> QED BY <2>1, <2>2
<1>8. a = b BY <1>3, <1>5, <1>6, <1>7, SeqEqual
<1> QED BY <1>8 DEF a, b
\* A window of one point shows no speed.
LEMMA EmptyWindow ==
  ASSUME NEW bytes \in Nat, NEW time \in Nat
  PROVE  /\ NewRate(bytes, time) \in [last_bytes : Nat, last_sample : Nat, samples : Seq(Sample)]
         /\ Len(NewRate(bytes, time).samples) = 0 /\ Speed(NewRate(bytes, time)) = 0
         /\ NewRate(bytes, time).last_bytes = bytes
         /\ NewRate(bytes, time).last_sample = time
         /\ NewRate(bytes, time).samples = <<>>
<1>1. NewRate(bytes, time).samples = <<>> BY DEF NewRate
<1>2. <<>> \in Seq(Sample) /\ Len(<<>>) = 0 BY EmptySeq
<1> QED BY <1>1, <1>2 DEF NewRate, Speed

LEMMA OnePoint ==
  ASSUME NEW x \in Mark
  PROVE  /\ <<x>> \in Seq(Mark) /\ Len(<<x>>) = 1 /\ <<x>>[1] = x /\ Linked(<<>>, <<x>>)
<1>1. Len(<<>>) = 0 BY EmptySeq
<1>2. <<x>> \in Seq(Mark) /\ Len(<<x>>) = 1 /\ <<x>>[1] = x OBVIOUS
<1> QED BY <1>1, <1>2 DEF Linked

LEMMA LastPoint == RateTypes => points[Len(points)] \in Mark
<1> SUFFICES ASSUME RateTypes PROVE points[Len(points)] \in Mark OBVIOUS
<1>1. points \in Seq(Mark) /\ Len(points) \in 1..4 BY DEF RateTypes
<1>2. Len(points) \in 1..Len(points) BY <1>1
<1> QED BY <1>1, <1>2, ElementOfSeq

\* What neither looks nor changes the cache, the clock and the window.
LEMMA RateKept ==
  ASSUME RateTypes, Idle, RateInv, UNCHANGED <<job, cacheVars, rateVars>>, look => pc' = pc
  PROVE  RateTypes' /\ Idle' /\ RateInv'
<1>1. /\ UNCHANGED <<now, part, whole, arrived, lost>> /\ UNCHANGED <<look, rate, speed, points>>
      BY DEF cacheVars, rateVars
<1>2. RateTypes' BY <1>1 DEF RateTypes
<1>3. Idle' BY <1>1 DEF Idle, Due
<1>4. RateInv' BY <1>1 DEF RateInv, Window, Cached
<1> QED BY <1>2, <1>3, <1>4

LEMMA Together == \A p, q, a, l \in Nat :
                    /\ ((p + q) - (a + q)) + l = (p - a) + l
                    /\ (0 - a) + (l + p) = (p - a) + l
  OBVIOUS

\* What comes in, is renamed or is lost: the cache and what was counted of it move
\* together.
LEMMA ArrivesRate == ASSUME RateTypes, Idle, RateInv, Arrives PROVE RateTypes' /\ Idle' /\ RateInv'
<1>1. /\ job = "download" /\ ~whole
      /\ UNCHANGED <<procVars, job, now, rate, speed, look, points>>
      BY DEF Arrives, Downloading, rateVars
<1>2. /\ part \in 0..Size /\ Size \in Nat /\ part \in Nat /\ arrived \in Nat /\ lost \in Nat
      BY WorkerAssumption DEF RateTypes
<1>0. whole \in BOOLEAN BY DEF RateTypes
<1>3. /\ part' \in 0..Size /\ whole' \in BOOLEAN /\ arrived' \in Nat /\ lost' \in Nat
      /\ arrived <= arrived' /\ lost <= lost'
      /\ (Cached' - arrived') + lost' = (Cached - arrived) + lost
  <2>1. CASE \E piece \in Pieces :
               /\ part + piece <= Size /\ part' = part + piece
               /\ arrived' = arrived + piece /\ UNCHANGED <<whole, lost>>
    <3>1. PICK piece \in Nat :
               /\ part + piece <= Size /\ part' = part + piece
               /\ arrived' = arrived + piece /\ UNCHANGED <<whole, lost>>
          BY <2>1, WorkerAssumption
    <3>2. Cached' = part + piece /\ Cached = part BY <1>1, <3>1 DEF Cached
    <3>3. ((part + piece) - (arrived + piece)) + lost = (part - arrived) + lost
          BY <1>2, Together
    <3>4. (Cached' - arrived') + lost' = (Cached - arrived) + lost BY <3>1, <3>2, <3>3
    <3>5. part' \in 0..Size /\ arrived' \in Nat /\ arrived <= arrived' BY <1>2, <3>1
    <3>6. whole' = whole /\ lost' = lost BY <3>1
    <3>7. whole' \in BOOLEAN BY <1>0, <3>6
    <3>8. lost' \in Nat /\ lost <= lost' BY <1>2, <3>6
    <3> QED BY <3>4, <3>5, <3>7, <3>8
  <2>2. CASE part = Size /\ whole' = TRUE /\ part' = 0 /\ UNCHANGED <<arrived, lost>>
    <3>1. Cached' = Size /\ Cached = Size BY <1>1, <2>2 DEF Cached
    <3> QED BY <1>1, <1>2, <2>2, <3>1
  <2>3. CASE part > 0 /\ part' = 0 /\ lost' = lost + part /\ UNCHANGED <<whole, arrived>>
    <3>1. Cached' = 0 /\ Cached = part BY <1>1, <2>3 DEF Cached
    <3>2. (0 - arrived) + (lost + part) = (part - arrived) + lost BY <1>2, Together
    <3>3. (Cached' - arrived') + lost' = (Cached - arrived) + lost BY <2>3, <3>1, <3>2
    <3>4. part' \in 0..Size /\ lost' \in Nat /\ lost <= lost' BY <1>2, <2>3
    <3>5. whole' = whole /\ arrived' = arrived BY <2>3
    <3>6. whole' \in BOOLEAN BY <1>0, <3>5
    <3>7. arrived' \in Nat /\ arrived <= arrived' BY <1>2, <3>5
    <3> QED BY <3>3, <3>4, <3>6, <3>7
  <2> QED BY <2>1, <2>2, <2>3 DEF Arrives
<1>4. RateTypes' BY <1>1, <1>3 DEF RateTypes
<1>5. Idle'
  <2>1. pc' = pc BY <1>1 DEF procVars
  <2> QED BY <1>1, <2>1 DEF Idle, Due
<1>6. RateInv'
  <2> DEFINE final == points[Len(points)]
  <2>1. Window /\ speed = Speed(rate) BY <1>1 DEF RateInv
  <2>2. final \in Mark BY LastPoint
  <2>3. final.arrived \in Nat /\ final.lost \in Nat BY <2>2, MarkFields
  <2>4. final.arrived <= arrived' /\ final.lost <= lost' BY <1>2, <1>3, <2>1, <2>3 DEF Window
  <2>5. Window' BY <1>1, <1>3, <2>1, <2>4 DEF Window
  <2> QED BY <1>1, <2>1, <2>5 DEF RateInv
<1> QED BY <1>4, <1>5, <1>6

LEMMA TicksRate == ASSUME RateTypes, Idle, RateInv, ClockTicks PROVE RateTypes' /\ Idle' /\ RateInv'
<1>1. /\ job = "download" /\ now < MaxTime /\ now' = now + 1
      /\ UNCHANGED <<procVars, job, part, whole, arrived, lost, rate, speed, look, points>>
      BY DEF ClockTicks, Downloading, Recovering, rateVars
<1>2. now' \in 0..MaxTime /\ now \in Nat /\ now' \in Nat BY <1>1, WorkerAssumption DEF RateTypes
<1>3. RateTypes' BY <1>1, <1>2 DEF RateTypes
<1>4. Idle'
  <2>1. pc' = pc BY <1>1 DEF procVars
  <2>2. rate.last_sample \in Nat BY DEF RateTypes
  <2>3. Due => Due' BY <1>1, <1>2, <2>2, RateAssumption DEF Due
  <2> QED BY <1>1, <2>1, <2>3 DEF Idle
<1>5. RateInv'
  <2>1. Window /\ speed = Speed(rate) BY <1>1 DEF RateInv
  <2>2. Cached' = Cached BY <1>1 DEF Cached
  <2>3. points[Len(points)].t <= now'
    <3>1. points[Len(points)].t = rate.last_sample BY <2>1 DEF Window
    <3>2. rate.last_sample \in Nat BY DEF RateTypes
    <3>3. rate.last_sample <= now BY <2>1, <3>1 DEF Window
    <3> QED BY <1>1, <1>2, <3>1, <3>2, <3>3
  <2>4. Window' BY <1>1, <2>1, <2>2, <2>3 DEF Window
  <2> QED BY <1>1, <2>1, <2>4 DEF RateInv
<1> QED BY <1>3, <1>4, <1>5

\* A new attempt has a window of one point, at what is in the cache.
LEMMA RetryRate == ASSUME RateTypes, Idle, RateInv, Retry PROVE RateTypes' /\ Idle' /\ RateInv'
<1>1. /\ pc = "done" /\ UNCHANGED <<job, now, part, whole, arrived, lost, look>>
      /\ points' = <<Point>>
      /\ IF job = "download" THEN rate' = NewRate(Cached, now) /\ speed' = 0
         ELSE UNCHANGED <<rate, speed>>
      BY DEF Retry, Again, cacheVars, FreshWindow
<1>2. ~look BY <1>1 DEF Idle
<1>3. Cached \in Nat /\ now \in Nat /\ arrived \in Nat /\ lost \in Nat
      BY WorkerAssumption DEF Cached, RateTypes
<1>4. /\ Point \in Mark /\ Point.t = now /\ Point.arrived = arrived /\ Point.lost = lost
      BY <1>3 DEF Point, Mark
<1>5. /\ points' \in Seq(Mark) /\ Len(points') = 1 /\ points'[1] = Point
      /\ Linked(<<>>, points')
      BY <1>1, <1>4, OnePoint
<1>6. CASE job = "download"
  <2>1. rate' = NewRate(Cached, now) /\ speed' = 0 BY <1>1, <1>6
  <2>2. /\ rate' \in [last_bytes : Nat, last_sample : Nat, samples : Seq(Sample)]
        /\ rate'.samples = <<>> /\ Len(rate'.samples) = 0 /\ Speed(rate') = 0
        /\ rate'.last_bytes = Cached /\ rate'.last_sample = now
        BY <1>3, <2>1, EmptyWindow
  <2>3. RateTypes' BY <1>1, <1>5, <2>1, <2>2 DEF RateTypes
  <2>4. Idle' BY <1>1, <1>2, <1>6 DEF Idle
  <2>5. Window'
    <3>1. points'[Len(points')] = Point BY <1>5
    <3>2. Cached' = Cached BY <1>1 DEF Cached
    <3>3. (Cached - arrived) + lost = (Cached - arrived) + lost OBVIOUS
    <3> QED BY <1>1, <1>3, <1>4, <1>5, <2>2, <3>1, <3>2, <3>3 DEF Window
  <2> QED BY <2>1, <2>2, <2>3, <2>4, <2>5 DEF RateInv
<1>7. CASE job # "download"
  <2>1. rate' = rate /\ speed' = speed /\ Len(points) = 1 BY <1>1, <1>7 DEF Idle
  <2>2. RateTypes' BY <1>1, <1>5, <2>1 DEF RateTypes
  <2>3. Idle' BY <1>1, <1>2, <1>5, <1>7, <2>1 DEF Idle
  <2> QED BY <1>1, <1>7, <2>1, <2>2, <2>3 DEF RateInv
<1> QED BY <1>6, <1>7
PointAt(bytes)  == [Point EXCEPT !.seen = bytes = Cached]
SampleAt(bytes) ==
  [bytes   |-> IF bytes - rate.last_bytes > 0 THEN bytes - rate.last_bytes ELSE 0,
   elapsed |-> now - rate.last_sample]

\* What a sample adds, against the last point: the time since then, and what the
\* cache grew by.
LEMMA SampleLinks ==
  ASSUME RateTypes, Window, Due, NEW bytes \in 0..Size
  PROVE  LET final == points[Len(points)]
             x     == PointAt(bytes)
             e     == SampleAt(bytes)
         IN  /\ e \in Sample /\ x \in Mark /\ After(e.elapsed, final, x)
             /\ final.seen /\ x.seen => Came(e.bytes, final, x)
             /\ x.t = now /\ x.arrived = arrived /\ x.lost = lost /\ x.seen = (bytes = Cached)
<1> DEFINE final == points[Len(points)]
           x     == PointAt(bytes)
           e     == SampleAt(bytes)
<1>1. /\ now \in Nat /\ arrived \in Nat /\ lost \in Nat /\ Cached \in Nat /\ bytes \in Nat
      /\ rate.last_bytes \in Nat /\ rate.last_sample \in Nat
      BY WorkerAssumption DEF RateTypes, Cached
<1>2. /\ x.t = now /\ x.arrived = arrived /\ x.lost = lost /\ x.seen = (bytes = Cached)
      /\ x = [t |-> now, arrived |-> arrived, lost |-> lost, seen |-> (bytes = Cached)]
      BY DEF Point, PointAt
<1>3. x \in Mark BY <1>1, <1>2 DEF Mark
<1>4. e.elapsed = now - rate.last_sample /\ e.elapsed \in Nat \ {0}
      BY <1>1, RateAssumption DEF Due, SampleAt
<1>5. e.bytes = (IF bytes - rate.last_bytes > 0 THEN bytes - rate.last_bytes ELSE 0)
      /\ e.bytes \in Nat
      BY <1>1 DEF SampleAt
<1>6. e \in Sample BY <1>4, <1>5 DEF Sample, SampleAt
<1>7. final \in Mark BY LastPoint
<1>8. final.t \in Nat /\ final.arrived \in Nat /\ final.lost \in Nat BY <1>7, MarkFields
<1>9. /\ rate.last_sample = final.t /\ final.arrived <= arrived /\ final.lost <= lost
      /\ final.seen => (Cached - arrived) + lost = (rate.last_bytes - final.arrived) + final.lost
      BY DEF Window
<1> HIDE DEF final, x, e
<1>10. After(e.elapsed, final, x)
  <2>1. now = final.t + (now - final.t) BY <1>1, <1>8
  <2> QED BY <1>2, <1>4, <1>9, <2>1 DEF After
<1>11. ASSUME final.seen, x.seen PROVE Came(e.bytes, final, x)
  <2>1. bytes = Cached BY <1>2, <1>11
  <2>2. (bytes - arrived) + lost = (rate.last_bytes - final.arrived) + final.lost
        BY <1>9, <1>11, <2>1
  <2>3. bytes - rate.last_bytes = (arrived - final.arrived) - (lost - final.lost)
        BY <1>1, <1>8, <2>2
  <2>4. e.bytes <= arrived - final.arrived BY <1>1, <1>5, <1>8, <1>9, <2>3
  <2>5. final.lost = lost => e.bytes = arrived - final.arrived
        BY <1>1, <1>5, <1>8, <1>9, <2>3
  <2> QED BY <1>2, <2>4, <2>5 DEF Came
<1> QED BY <1>2, <1>3, <1>6, <1>10, <1>11 DEF final, x, e

\* A sample is taken: the window goes on to the present, and forgets what is older
\* than three samples.
LEMMA SampleRate ==
  ASSUME RateTypes, Idle, RateInv, job = "download", Due, NEW bytes \in 0..Size, TakeSample(bytes)
  PROVE  RateTypes' /\ Idle' /\ RateInv'
<1> DEFINE x == PointAt(bytes)
           e == SampleAt(bytes)
           s == Append(rate.samples, e)
           p == Append(points, x)
<1>1. /\ rate' = Sampled(rate, bytes, now) /\ speed' = Speed(rate')
      /\ points' = Append(IF Len(points) > 3 THEN Tail(points) ELSE points, x)
      /\ look' = FALSE /\ UNCHANGED <<job, now, part, whole, arrived, lost>>
      BY DEF TakeSample, cacheVars, PointAt
<1>2. /\ now \in Nat /\ rate.last_sample \in Nat /\ bytes \in Nat /\ Window
      BY WorkerAssumption DEF RateTypes, RateInv
<1>3. rate' = [last_bytes |-> bytes, last_sample |-> now, samples |-> LastThree(s)]
  <2>1. ~(now <= rate.last_sample) BY <1>2, RateAssumption DEF Due
  <2> QED BY <1>1, <2>1 DEF Sampled, SampleAt
<1>4. /\ e \in Sample /\ x \in Mark /\ After(e.elapsed, points[Len(points)], x)
      /\ points[Len(points)].seen /\ x.seen => Came(e.bytes, points[Len(points)], x)
      /\ x.t = now /\ x.arrived = arrived /\ x.lost = lost /\ x.seen = (bytes = Cached)
      BY <1>2, SampleLinks
<1>5. /\ rate.samples \in Seq(Sample) /\ points \in Seq(Mark) /\ Len(points) \in 1..4
      /\ Len(rate.samples) = Len(points) - 1 /\ Linked(rate.samples, points)
      BY <1>2 DEF RateTypes, Window
<1> HIDE DEF x, e
<1>6. Linked(s, p) BY <1>4, <1>5, LinkAppended
<1>7. /\ s \in Seq(Sample) /\ Len(s) = Len(rate.samples) + 1
      /\ p \in Seq(Mark) /\ Len(p) = Len(points) + 1 /\ p[Len(p)] = x
      BY <1>4, <1>5, AppendProperties
<1> HIDE DEF s, p
<1>8. /\ rate'.samples \in Seq(Sample) /\ points' \in Seq(Mark)
      /\ Linked(rate'.samples, points') /\ Len(points') \in 2..4 /\ points'[Len(points')] = x
  <2>1. rate'.samples = LastThree(s) BY <1>3
  <2>2. CASE Len(points) > 3
    <3>0. \A n \in 1..4 : n > 3 => n = 4 OBVIOUS
    <3>1. Len(p) = 5 /\ Len(s) = 4
      <4>1. Len(points) = 4 BY <1>5, <2>2, <3>0
      <4> QED BY <1>5, <1>7, <4>1
    <3>2. rate'.samples = Tail(s) BY <2>1, <3>1 DEF LastThree
    <3>3. points' = Tail(p) BY <1>1, <1>4, <1>5, <2>2, TailOfAppend DEF p
    <3>4. s # <<>> /\ p # <<>> BY <3>1, EmptySeq
    <3>5. /\ Tail(s) \in Seq(Sample) /\ Tail(p) \in Seq(Mark) /\ Len(Tail(p)) = Len(p) - 1
          /\ \A k \in 1..Len(Tail(p)) : Tail(p)[k] = p[k + 1]
          BY <1>7, <3>4, HeadTailProperties
    <3>6. Len(Tail(p)) = 4 BY <3>1, <3>5
    <3>7. Tail(p)[4] = p[5]
      <4>1. \A q : Len(q) = 4 => 4 \in 1..Len(q) OBVIOUS
      <4>2. 4 \in 1..Len(Tail(p)) BY <3>6, <4>1
      <4>3. Tail(p)[4] = p[4 + 1] BY <3>5, <4>2
      <4>4. 4 + 1 = 5 OBVIOUS
      <4> QED BY <4>3, <4>4, Zenon
    <3>8. Linked(Tail(s), Tail(p)) BY <1>6, <1>7, <3>1, LinkTail
    <3>9. points'[Len(points')] = x
      <4>1. p[5] = x BY <1>7, <3>1
      <4>2. Len(points') = 4 BY <3>3, <3>6
      <4>3. points'[4] = x BY <3>3, <3>7, <4>1
      <4> QED BY <4>2, <4>3
    <3>10. Len(points') \in 2..4
      <4>1. \A n : n = 4 => n \in 2..4 OBVIOUS
      <4>2. Len(points') = 4 BY <3>3, <3>6
      <4> QED BY <4>1, <4>2
    <3> QED BY <3>2, <3>3, <3>5, <3>8, <3>9, <3>10
  <2>3. CASE ~(Len(points) > 3)
    <3>1. points' = p BY <1>1, <2>3 DEF p
    <3>2. Len(p) \in 2..4 BY <1>5, <1>7, <2>3
    <3>3. Len(s) \in 1..3 BY <1>5, <1>7, <2>3
    <3>4. rate'.samples = s
      <4>0. \A n \in 1..3 : ~(n > 3) OBVIOUS
      <4>1. ~(Len(s) > 3) BY <3>3, <4>0
      <4> QED BY <2>1, <4>1 DEF LastThree
    <3> QED BY <1>6, <1>7, <3>1, <3>2, <3>4
  <2> QED BY <2>2, <2>3
<1>9. Len(rate'.samples) = Len(points') - 1 /\ Len(rate'.samples) \in 1..3
  <2>1. Len(points') = Len(rate'.samples) + 1 /\ Len(rate'.samples) \in Nat BY <1>8 DEF Linked
  <2>2. \A n \in 2..4 : \A m \in Nat : n = m + 1 => m = n - 1 /\ m \in 1..3 OBVIOUS
  <2> QED BY <1>8, <2>1, <2>2
<1>10. rate' \in [last_bytes : Nat, last_sample : Nat, samples : Seq(Sample)]
       /\ rate'.last_bytes = bytes /\ rate'.last_sample = now
       BY <1>2, <1>3, <1>8
<1>11. speed' \in Nat BY <1>1, <1>8, <1>9, SpeedOf
<1>12. RateTypes'
  <2>1. Len(points') \in 1..4 BY <1>8
  <2> QED BY <1>1, <1>8, <1>9, <1>10, <1>11, <2>1 DEF RateTypes
<1>13. Idle' BY <1>1 DEF Idle
<1>14. Window'
  <2>1. Cached' = Cached BY <1>1 DEF Cached
  <2>2. /\ points'[Len(points')].t = now /\ points'[Len(points')].arrived = arrived
        /\ points'[Len(points')].lost = lost
        /\ points'[Len(points')].seen = (bytes = Cached)
        BY <1>4, <1>8
  <2>3. arrived \in Nat /\ lost \in Nat /\ now \in Nat BY WorkerAssumption DEF RateTypes
  <2>4. points'[Len(points')].seen => (Cached - arrived) + lost = (bytes - arrived) + lost
        BY <2>2
  <2> QED BY <1>1, <1>8, <1>10, <2>1, <2>2, <2>3, <2>4 DEF Window
<1> QED BY <1>1, <1>12, <1>13, <1>14 DEF RateInv
-----------------------------------------------------------------------------

\* The first attempt starts like any other: with a window of one point.
LEMMA RateInit == Init => RateTypes /\ Idle /\ RateInv
<1> SUFFICES ASSUME Init PROVE RateTypes /\ Idle /\ RateInv OBVIOUS
<1> DEFINE x == [t |-> 0, arrived |-> 0, lost |-> 0, seen |-> TRUE]
<1>1. /\ now = 0 /\ part \in {0} \cup Pieces /\ (job # "download" => part = 0) /\ whole = FALSE
      /\ arrived = 0 /\ lost = 0
      /\ look = FALSE /\ rate = NewRate(part, 0) /\ speed = 0 /\ points = <<x>>
      BY DEF Init
<1>2. part \in 0..Size /\ part \in Nat /\ now \in 0..MaxTime BY <1>1, WorkerAssumption
<1>3. x \in Mark /\ x.t = 0 /\ x.arrived = 0 /\ x.lost = 0 BY DEF Mark
<1> HIDE DEF x
<1>4. points \in Seq(Mark) /\ Len(points) = 1 /\ points[1] = x /\ Linked(<<>>, points)
      BY <1>1, <1>3, OnePoint
<1>5. /\ rate \in [last_bytes : Nat, last_sample : Nat, samples : Seq(Sample)]
      /\ rate.samples = <<>> /\ Len(rate.samples) = 0 /\ Speed(rate) = 0
      /\ rate.last_bytes = part /\ rate.last_sample = 0
      BY <1>1, <1>2, EmptyWindow
<1>6. RateTypes
  <2>1. whole \in BOOLEAN /\ look \in BOOLEAN BY <1>1
  <2>2. Len(points) \in 1..4 /\ Len(rate.samples) = Len(points) - 1 BY <1>4, <1>5
  <2> QED BY <1>1, <1>2, <1>4, <1>5, <2>1, <2>2 DEF RateTypes
<1>7. Idle BY <1>1, <1>4 DEF Idle
<1>8. Window
  <2>1. points[Len(points)] = x BY <1>4
  <2>2. Cached = part BY <1>1 DEF Cached
  <2> QED BY <1>1, <1>2, <1>3, <1>4, <1>5, <2>1, <2>2 DEF Window
<1> QED BY <1>1, <1>5, <1>6, <1>7, <1>8 DEF RateInv

\* The steps of pacman, of its process and of the loops that leave the cache, the
\* clock and the window alone; between the two looks none of them moves the loop.
LEMMA StillSteps ==
  ASSUME Idle,
         \/ PacmanWrites \/ PacmanAsks \/ PacmanLogs \/ LogRotated \/ Others
         \/ CallerGoesOn \/ NoSample \/ LookAtChunk \/ LeaveLoop \/ UNCHANGED vars
  PROVE  UNCHANGED <<job, cacheVars, rateVars>> /\ (look => pc' = pc)
<1>1. UNCHANGED <<job, cacheVars, rateVars>>
      BY DEF PacmanWrites, PacmanAsks, PacmanLogs, LogRotated, Others, CallerGoesOn, NoSample,
             LookAtChunk, LeaveLoop, vars, workerVars
<1>2. look => job = "download" /\ pc = "work" BY DEF Idle
<1>3. CASE PacmanWrites \/ PacmanAsks \/ PacmanLogs \/ LogRotated \/ UNCHANGED vars
  <2>1. pc' = pc
        BY <1>3 DEF PacmanWrites, PacmanAsks, PacmanLogs, LogRotated, ChildWrites, ChildAsks,
                    vars, procVars
  <2> QED BY <1>1, <2>1
<1>4. CASE Others
  <2>1. pc' = pc
        BY <1>4 DEF Others, HolderWrites, ChildResumes, ChildExits, HolderEnds, ReaderStep,
                    ReaderReads, ReaderSends, ReaderEnds, TimePasses
  <2> QED BY <1>1, <2>1
<1>5. CASE CallerGoesOn
  <2>1. pc # "work"
        BY <1>5 DEF CallerGoesOn, Spawn, CheckFinished, Receive, Stop, Reap
  <2> QED BY <1>1, <1>2, <2>1
<1>6. CASE NoSample \/ LookAtChunk \/ LeaveLoop
  <2>1. ~look BY <1>2, <1>6 DEF NoSample, LookAtChunk, LeaveLoop, Leave
  <2> QED BY <1>1, <2>1
<1> QED BY <1>3, <1>4, <1>5, <1>6

\* The first look of a sample finds the whole file, or there is a second one.
LEMMA LookForWholeRate ==
  ASSUME RateTypes, Idle, RateInv, LookForWhole PROVE RateTypes' /\ Idle' /\ RateInv'
<1>1. /\ job = "download" /\ pc = "work" /\ Due /\ ~look
      /\ IF whole THEN TakeSample(Size)
         ELSE /\ look' = TRUE
              /\ UNCHANGED <<procVars, job, cacheVars, rate, speed, points>>
      BY DEF LookForWhole
<1>2. CASE whole
  <2>1. Size \in 0..Size BY WorkerAssumption
  <2> QED BY <1>1, <1>2, <2>1, SampleRate
<1>3. CASE ~whole
  <2>1. /\ look' = TRUE /\ UNCHANGED <<job, pc, now, part, whole, arrived, lost>>
        /\ UNCHANGED <<rate, speed, points>>
        BY <1>1, <1>3 DEF procVars, cacheVars
  <2>2. RateTypes' BY <2>1 DEF RateTypes
  <2>3. Idle' BY <1>1, <2>1 DEF Idle, Due
  <2>4. RateInv' BY <2>1 DEF RateInv, Window, Cached
  <2> QED BY <2>2, <2>3, <2>4
<1> QED BY <1>2, <1>3

LEMMA RateNext ==
  RateTypes /\ Idle /\ RateInv /\ [Next]_vars => RateTypes' /\ Idle' /\ RateInv'
<1> SUFFICES ASSUME RateTypes, Idle, RateInv, [Next]_vars
             PROVE  RateTypes' /\ Idle' /\ RateInv'
    OBVIOUS
<1>1. CASE \/ PacmanWrites \/ PacmanAsks \/ PacmanLogs \/ LogRotated \/ Others
           \/ CallerGoesOn \/ NoSample \/ LookAtChunk \/ LeaveLoop \/ UNCHANGED vars
      BY <1>1, StillSteps, RateKept
<1>2. CASE LookForPart
  <2>1. job = "download" /\ Due /\ part \in 0..Size /\ TakeSample(part)
        BY <1>2 DEF LookForPart, Idle, RateTypes
  <2> QED BY <2>1, SampleRate
<1> QED BY <1>1, <1>2, ArrivesRate, TicksRate, LookForWholeRate, RetryRate
        DEF Next, Environment, WorkerStep

LEMMA Rates == Spec => [](RateTypes /\ Idle /\ RateInv)
  BY RateInit, RateNext, PTL DEF Spec

\* The speed that the panel shows is what came in during the last three samples,
\* over the time they took: neither what was in the cache before the attempt nor a
\* late tick makes it faster, as long as no sample of them missed a file that was
\* renamed between its two looks (worker.rs:67-113, 290-301, 333-334).
THEOREM RateHonestHolds == Spec => []RateHonest
  BY Rates, WindowHonest, PTL

\* What the worker counts stays within the packages and positions there are, and
\* its window never holds more than three samples (worker.rs:67-113, 395-444).
THEOREM WorkerTypeCorrect == Spec => []TypeOK
<1>1. Spec => []IInv BY ImplementsProcess, Invariant, PTL
<1>2. IInv /\ CountTypes /\ RateTypes => TypeOK
  <2> SUFFICES ASSUME IInv, CountTypes, RateTypes PROVE TypeOK OBVIOUS
  <2>1. ProcTypeOK /\ got \in Nat BY DEF IInv, ProcTypeOK
  <2>2. Len(rate.samples) <= 3
    <3>1. \A n \in 1..4 : n - 1 <= 3 OBVIOUS
    <3>2. Len(points) \in 1..4 /\ Len(rate.samples) = Len(points) - 1 BY DEF RateTypes
    <3> QED BY <3>1, <3>2
  <2>3. parsed <= got /\ answered <= got BY <2>1 DEF CountTypes
  <2>4. /\ job \in Jobs /\ attempts \in 1..MaxAttempts /\ begun \in 0..MaxOps
        /\ logged \in 0..begun /\ logCompleted \in Nat /\ shown \in 0..MaxOps
        /\ pending \in BOOLEAN
        BY DEF CountTypes
  <2>5. /\ now \in 0..MaxTime /\ part \in 0..Size /\ whole \in BOOLEAN /\ look \in BOOLEAN
        /\ speed \in Nat
        BY DEF RateTypes
  <2> QED BY <2>1, <2>2, <2>3, <2>4, <2>5 DEF TypeOK
<1> QED BY <1>1, <1>2, Counts, Rates, PTL
=============================================================================

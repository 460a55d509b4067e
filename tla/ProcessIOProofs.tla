-------------------------- MODULE ProcessIOProofs --------------------------
(***************************************************************************)
(* ProcessIO: types, and that the output of a finished process is whole,   *)
(* for any pipe, channel, limit of output and number of lines.             *)
(***************************************************************************)
EXTENDS ProcessIO, TLAPS

\* The last position in the channel, or the caller's own.
Sent == IF chan = <<>> THEN got ELSE chan[Len(chan)]

\* The positions follow each other through pipe, channel and caller.
Order == /\ output <= got /\ got <= taken /\ taken <= Len(stream)
         /\ \A i \in 1..Len(chan) : chan[i] <= taken
         /\ \A i \in 1..Len(chan) : got <= chan[i]
         /\ \A i, j \in 1..Len(chan) : i <= j => chan[i] <= chan[j]

\* Nothing is lost between the reader and the channel.
Flow == pc # "done" /\ reader # "sending" => taken = Sent

\* The reader ends at the end of the output, which is final then.
Ended == pc # "done" /\ reader = "gone" => taken = Len(stream) /\ WriteEndClosed

\* The caller learns of the end when it has received everything.
AtEnd == eof => reader = "gone" /\ chan = <<>> /\ got = Len(stream) /\ WriteEndClosed

\* What is received is kept until the call is given up.
Kept == pc \in {"start", "check", "receive", "work"} => output = got

\* The status is known of reaped processes only; of a new one nothing is known,
\* and nobody reads it yet.
Known == /\ status => child = "reaped"
         /\ pc = "start" => ~status /\ ~eof /\ reader = "none"

\* Results are given at the end, of reaped processes.
Given == /\ result # "none" => pc \in {"leaving", "done"}
         /\ result = "finished" => child = "reaped" /\ eof /\ output = got
         /\ result = "unfinished" => child = "reaped"

IInv == ProcTypeOK /\ Order /\ Flow /\ Ended /\ AtEnd /\ Kept /\ Known /\ Given

USE DEF callerVars, childVars, readerVars, Goto

-----------------------------------------------------------------------------

LEMMA InitHolds == ProcInit => IInv
<1> SUFFICES ASSUME ProcInit PROVE IInv OBVIOUS
<1>1. Len(stream) = 0 /\ Len(chan) = 0 BY DEF ProcInit
<1>2. ProcTypeOK
  <2>1. /\ killable \in BOOLEAN /\ late \in BOOLEAN /\ eof \in BOOLEAN /\ status \in BOOLEAN
        /\ held \in BOOLEAN /\ waiting \in BOOLEAN
        BY DEF ProcInit
  <2>2. /\ call \in Calls /\ pc = "start" /\ result = "none" /\ child = "none"
        /\ reader = "none" /\ stream = <<>> /\ chan = <<>>
        /\ got = 0 /\ output = 0 /\ dropped = 0 /\ taken = 0 /\ answers = 0
        BY DEF ProcInit
  <2>3. Len(chan) <= ChanSize BY <1>1, ProcessAssumption
  <2> QED BY <2>1, <2>2, <2>3 DEF ProcTypeOK
<1>3. Order BY <1>1 DEF ProcInit, Order
<1>4. Flow /\ Ended /\ AtEnd BY DEF ProcInit, Flow, Sent, Ended, AtEnd
<1>5. Kept /\ Known /\ Given BY DEF ProcInit, Kept, Known, Given
<1> QED BY <1>2, <1>3, <1>4, <1>5 DEF IInv

\* Steps that move nothing through the pipe, and open no end of it.
LEMMA PositionsStay ==
  ASSUME IInv, UNCHANGED <<got, output, eof, stream, readerVars>>,
         pc = "done" => pc' = "done", WriteEndClosed => WriteEndClosed'
  PROVE  Order' /\ Flow' /\ Ended' /\ AtEnd'
<1>1. Order' BY DEF IInv, Order
<1>2. Flow' BY DEF IInv, Flow, Sent
<1>3. Ended' BY DEF IInv, Ended
<1>4. AtEnd' BY DEF IInv, AtEnd
<1> QED BY <1>1, <1>2, <1>3, <1>4

\* What is appended to the stream leaves the positions where they are.
LEMMA WritesHolds ==
  ASSUME IInv, NEW line \in Lines, Writes(line), UNCHANGED <<callerVars, readerVars>>,
         UNCHANGED <<child, held, answers>>, waiting' \in BOOLEAN,
         child = "running" \/ held
  PROVE  IInv'
<1>1. line \in Seq(Tokens) BY ProcessAssumption
<1>2. stream' \in Seq(Tokens) /\ Len(stream') = Len(stream) + Len(line)
      BY <1>1 DEF Writes, IInv, ProcTypeOK
<1>3. Len(line) \in Nat /\ Len(stream) \in Nat BY <1>1 DEF IInv, ProcTypeOK
<1>4. reader # "gone" BY DEF Writes
<1>5. ProcTypeOK' BY <1>2 DEF IInv, ProcTypeOK
<1>6. Order' BY <1>2, <1>3 DEF IInv, ProcTypeOK, Order
<1>7. Flow' /\ Ended' /\ AtEnd' BY <1>4 DEF IInv, Flow, Sent, Ended, AtEnd
<1>8. Kept' /\ Known' /\ Given' BY DEF IInv, Kept, Known, Given
<1> QED BY <1>5, <1>6, <1>7, <1>8 DEF IInv

LEMMA ChildHolds == ASSUME IInv, ChildStep PROVE IInv'
<1>1. ASSUME NEW line \in Lines, ChildWrites(line) \/ ChildAsks(line) \/ HolderWrites(line)
      PROVE  IInv'
      <2>1. waiting' \in BOOLEAN BY <1>1 DEF ChildWrites, ChildAsks, HolderWrites, IInv, ProcTypeOK
      <2> QED BY <1>1, <2>1, WritesHolds DEF ChildWrites, ChildAsks, HolderWrites
<1>2. ASSUME ChildResumes PROVE IInv'
  <2>1. ProcTypeOK'
    <3>1. waiting' \in BOOLEAN /\ answers' \in Nat
      <4>1. answers > 0 /\ answers' = answers - 1 BY <1>2 DEF ChildResumes
      <4>2. answers \in Nat BY DEF IInv, ProcTypeOK
      <4>3. answers' \in Nat BY <4>1, <4>2
      <4>4. waiting' \in BOOLEAN BY <1>2 DEF ChildResumes
      <4> QED BY <4>3, <4>4
    <3>2. UNCHANGED <<child, held, stream, callerVars, readerVars>> BY <1>2 DEF ChildResumes
    <3> QED BY <3>1, <3>2 DEF IInv, ProcTypeOK
  <2>2. Order' /\ Flow' /\ Ended' /\ AtEnd'
        BY <1>2, PositionsStay DEF ChildResumes, WriteEndClosed
  <2>3. Kept' /\ Known' /\ Given' BY <1>2 DEF ChildResumes, IInv, Kept, Known, Given
  <2> QED BY <2>1, <2>2, <2>3 DEF IInv
<1>3. ASSUME ChildExits PROVE IInv'
  <2>1. ProcTypeOK'
    <3>1. child' = "exited" /\ waiting' \in BOOLEAN /\ held' \in BOOLEAN
      <4>1. held \in BOOLEAN BY DEF IInv, ProcTypeOK
      <4> QED BY <1>3, <4>1 DEF ChildExits, Exits
    <3>2. UNCHANGED <<answers, stream, callerVars, readerVars>> BY <1>3 DEF ChildExits
    <3> QED BY <3>1, <3>2 DEF IInv, ProcTypeOK
  <2>2. Order' /\ Flow' /\ Ended' /\ AtEnd'
        BY <1>3, PositionsStay DEF ChildExits, WriteEndClosed
  <2>3. Kept' /\ Known' /\ Given' BY <1>3 DEF ChildExits, Exits, IInv, Kept, Known, Given
  <2> QED BY <2>1, <2>2, <2>3 DEF IInv
<1>4. ASSUME HolderEnds PROVE IInv'
  <2>1. ProcTypeOK'
    <3>1. held' \in BOOLEAN BY <1>4 DEF HolderEnds
    <3>2. UNCHANGED <<child, waiting, answers, stream, callerVars, readerVars>>
          BY <1>4 DEF HolderEnds
    <3> QED BY <3>1, <3>2 DEF IInv, ProcTypeOK
  <2>2. Order' /\ Flow' /\ Ended' /\ AtEnd'
        BY <1>4, PositionsStay DEF HolderEnds, WriteEndClosed
  <2>3. Kept' /\ Known' /\ Given' BY <1>4 DEF HolderEnds, IInv, Kept, Known, Given
  <2> QED BY <2>1, <2>2, <2>3 DEF IInv
<1> QED BY <1>1, <1>2, <1>3, <1>4 DEF ChildStep

LEMMA ReaderHolds == ASSUME IInv, ReaderStep PROVE IInv'
<1>1. ASSUME ReaderReads PROVE IInv'
  <2>1. PICK to \in taken + 1 .. Len(stream) :
               reader = "reading" /\ reader' = "sending" /\ taken' = to
               /\ UNCHANGED <<chan, callerVars, childVars>>
        BY <1>1 DEF ReaderReads
  <2>2. taken \in Nat /\ Len(stream) \in Nat BY DEF IInv, ProcTypeOK
  <2>3. to \in Nat /\ taken < to /\ to <= Len(stream) BY <2>1, <2>2
  <2>4. ProcTypeOK' BY <2>1, <2>3 DEF IInv, ProcTypeOK
  <2>5. Order'
    <3>1. \A i \in 1..Len(chan) : chan[i] \in Nat BY DEF IInv, ProcTypeOK
    <3> QED BY <2>1, <2>2, <2>3, <3>1 DEF IInv, ProcTypeOK, Order
  <2>6. Flow' /\ Ended' /\ AtEnd' BY <2>1 DEF IInv, Flow, Sent, Ended, AtEnd
  <2>7. Kept' /\ Known' /\ Given' BY <2>1 DEF IInv, Kept, Known, Given
  <2> QED BY <2>4, <2>5, <2>6, <2>7 DEF IInv
<1>2. ASSUME ReaderSends PROVE IInv'
  <2>1. /\ chan' \in Seq(Nat) /\ chan' # <<>> /\ Len(chan') = Len(chan) + 1
        /\ chan'[Len(chan')] = taken
        /\ \A i \in 1..Len(chan) : chan'[i] = chan[i]
        BY <1>2 DEF ReaderSends, IInv, ProcTypeOK
  <2>2. Len(chan') <= ChanSize
        BY <1>2, <2>1, ProcessAssumption DEF ReaderSends, IInv, ProcTypeOK
  <2>3. ProcTypeOK' BY <1>2, <2>1, <2>2 DEF ReaderSends, IInv, ProcTypeOK
  <2>4. Order'
    <3>1. \A i \in 1..Len(chan') : chan'[i] <= taken
      <4> SUFFICES ASSUME NEW i \in 1..Len(chan') PROVE chan'[i] <= taken OBVIOUS
      <4>1. taken \in Nat /\ Len(chan) \in Nat BY DEF IInv, ProcTypeOK
      <4>2. CASE i = Len(chan') BY <2>1, <4>1, <4>2
      <4>3. CASE i # Len(chan') BY <2>1, <4>1, <4>3 DEF IInv, Order
      <4> QED BY <4>2, <4>3
    <3>2. \A i \in 1..Len(chan') : got <= chan'[i]
      <4> SUFFICES ASSUME NEW i \in 1..Len(chan') PROVE got <= chan'[i] OBVIOUS
      <4>1. got <= taken /\ Len(chan) \in Nat BY DEF IInv, ProcTypeOK, Order
      <4>2. CASE i = Len(chan') BY <2>1, <4>1, <4>2
      <4>3. CASE i # Len(chan') BY <2>1, <4>1, <4>3 DEF IInv, Order
      <4> QED BY <4>2, <4>3
    <3>3. \A i, j \in 1..Len(chan') : i <= j => chan'[i] <= chan'[j]
      <4> SUFFICES ASSUME NEW i \in 1..Len(chan'), NEW j \in 1..Len(chan'), i <= j
                   PROVE  chan'[i] <= chan'[j] OBVIOUS
      <4>1. taken \in Nat /\ Len(chan) \in Nat BY DEF IInv, ProcTypeOK
      <4>2. CASE j = Len(chan') BY <2>1, <3>1, <4>2
      <4>3. CASE j # Len(chan')
            BY <2>1, <4>1, <4>3 DEF IInv, Order
      <4> QED BY <4>2, <4>3
    <3> QED BY <1>2, <3>1, <3>2, <3>3 DEF ReaderSends, IInv, Order
  <2>5. Flow' /\ Ended' /\ AtEnd'
        BY <1>2, <2>1 DEF ReaderSends, IInv, Flow, Sent, Ended, AtEnd
  <2>6. Kept' /\ Known' /\ Given' BY <1>2 DEF ReaderSends, IInv, Kept, Known, Given
  <2> QED BY <2>3, <2>4, <2>5, <2>6 DEF IInv
<1>3. ASSUME ReaderEnds PROVE IInv'
  <2>1. ProcTypeOK' BY <1>3 DEF ReaderEnds, IInv, ProcTypeOK
  <2>2. Order' BY <1>3 DEF ReaderEnds, IInv, Order
  <2>3. Flow' BY <1>3 DEF ReaderEnds, IInv, Flow, Sent
  <2>4. Ended' BY <1>3 DEF ReaderEnds, IInv, Ended, WriteEndClosed
  <2>5. AtEnd' BY <1>3 DEF ReaderEnds, IInv, AtEnd
  <2>6. Kept' /\ Known' /\ Given' BY <1>3 DEF ReaderEnds, IInv, Kept, Known, Given
  <2> QED BY <2>1, <2>2, <2>3, <2>4, <2>5, <2>6 DEF IInv
<1> QED BY <1>1, <1>2, <1>3 DEF ReaderStep

\* A new process: nobody has written into its pipe.
LEMMA SpawnHolds == ASSUME IInv, Spawn PROVE IInv'
<1>1. ~status /\ ~eof /\ reader = "none" /\ result = "none"
      BY DEF Spawn, IInv, Known, Given
<1>2. ProcTypeOK' BY DEF Spawn, IInv, ProcTypeOK
<1>3. Order' BY DEF Spawn, IInv, Order
<1>4. Flow' BY <1>1 DEF Spawn, IInv, Flow, Sent
<1>5. Ended' /\ AtEnd' BY <1>1 DEF Spawn, Ended, AtEnd
<1>6. Kept' /\ Known' /\ Given' BY <1>1 DEF Spawn, IInv, Kept, Known, Given
<1> QED BY <1>2, <1>3, <1>4, <1>5, <1>6 DEF IInv

LEMMA CheckHolds == ASSUME IInv, CheckFinished PROVE IInv'
<1>1. ProcTypeOK' BY DEF CheckFinished, IInv, ProcTypeOK
<1>2. Order' /\ Flow' /\ Ended' /\ AtEnd'
      BY PositionsStay DEF CheckFinished, WriteEndClosed
<1>3. Known' BY DEF CheckFinished, IInv, Known
<1>4. Kept' BY DEF CheckFinished, IInv, Kept
<1>5. result = "none" /\ output = got BY DEF CheckFinished, IInv, Given, Kept
<1>6. CASE Finished
  <2>1. child' = "reaped" BY <1>6 DEF CheckFinished, Finished, IInv, Known
  <2> QED BY <1>1, <1>2, <1>3, <1>4, <1>5, <1>6, <2>1
          DEF CheckFinished, Finished, IInv, Given
<1>7. CASE ~Finished
      BY <1>1, <1>2, <1>3, <1>4, <1>5, <1>7 DEF CheckFinished, IInv, Given
<1> QED BY <1>6, <1>7

\* A chunk that is received takes the caller's position forward; the end of the
\* output is received when the channel is empty.
LEMMA ReceiveHolds == ASSUME IInv, Receive PROVE IInv'
<1>1. /\ result = "none" /\ output = got /\ pc = "receive" /\ result' = result
      BY DEF Receive, IInv, Given, Kept
<1>2. /\ pc' \in {"stopping", "work", "check"} /\ output' \in {output, got'}
      /\ pc' # "stopping" => output' = got'
      BY DEF Receive
<1>3. /\ UNCHANGED <<call, killable, late, status, taken, reader, childVars>>
      BY DEF Receive
<1>4. Known' /\ Given' /\ Kept'
      BY <1>1, <1>2, <1>3 DEF IInv, Known, Given, Kept
<1>5. ASSUME chan # <<>>, got' = Head(chan), chan' = Tail(chan), UNCHANGED eof
      PROVE  IInv'
  <2>1. /\ Len(chan) \in Nat \ {0} /\ Head(chan) = chan[1] /\ Head(chan) \in Nat
        /\ chan' \in Seq(Nat) /\ Len(chan') = Len(chan) - 1
        /\ \A i \in 1..Len(chan') : chan'[i] = chan[i + 1]
        BY <1>5 DEF IInv, ProcTypeOK
  <2>2. ~eof BY <1>5 DEF IInv, AtEnd
  <2>3. got' <= taken BY <1>5, <2>1 DEF IInv, Order
  <2>4. \A i \in 1..Len(chan') : chan'[i] <= taken BY <2>1 DEF IInv, Order
  <2>5. chan' = <<>> <=> Len(chan) = 1 BY <2>1
  <2>6. Sent' = Sent BY <1>5, <2>1, <2>5 DEF Sent
  <2>7. ProcTypeOK'
    <3>1. got' \in Nat /\ output' \in Nat BY <1>2, <1>5, <2>1 DEF IInv, ProcTypeOK
    <3>3. dropped' \in Nat
      <4>1. \A from, to \in Nat : Bounded(from, to) \in Nat
            BY ProcessAssumption DEF Bounded
      <4>2. dropped' \in {dropped, Bounded(dropped, got')} BY DEF Receive
      <4> QED BY <3>1, <4>1, <4>2 DEF IInv, ProcTypeOK
    <3>2. Len(chan') <= ChanSize
          BY <2>1, ProcessAssumption DEF IInv, ProcTypeOK
    <3> QED BY <1>1, <1>2, <1>3, <1>5, <2>1, <3>1, <3>2, <3>3 DEF IInv, ProcTypeOK
  <2>8. output' <= got' /\ got' <= taken'
    <3>1. got' \in Nat /\ got \in Nat BY <1>5, <2>1 DEF IInv, ProcTypeOK
    <3>2. got <= got' BY <1>5, <2>1 DEF IInv, Order
    <3> QED BY <1>1, <1>2, <1>3, <2>3, <3>1, <3>2
  <2>9. Order'
    <3>1. \A i \in 1..Len(chan') : got' <= chan'[i] BY <1>5, <2>1 DEF IInv, Order
    <3>2. \A i, j \in 1..Len(chan') : i <= j => chan'[i] <= chan'[j]
      <4> SUFFICES ASSUME NEW i \in 1..Len(chan'), NEW j \in 1..Len(chan'), i <= j
                   PROVE  chan'[i] <= chan'[j] OBVIOUS
      <4>1. i + 1 \in 1..Len(chan) /\ j + 1 \in 1..Len(chan) /\ i + 1 <= j + 1 BY <2>1
      <4> QED BY <2>1, <4>1 DEF IInv, Order
    <3> QED BY <1>3, <2>4, <2>8, <3>1, <3>2 DEF IInv, Order
  <2>10. Flow' /\ Ended' /\ AtEnd'
         BY <1>1, <1>3, <1>5, <2>2, <2>6 DEF IInv, Flow, Ended, AtEnd, WriteEndClosed
  <2> QED BY <1>4, <2>7, <2>9, <2>10 DEF IInv
<1>6. ASSUME chan = <<>>, eof' = (reader = "gone"), UNCHANGED <<got, chan>> PROVE IInv'
  <2>0. dropped' \in Nat
    <3>1. \A from, to \in Nat : Bounded(from, to) \in Nat
          BY ProcessAssumption DEF Bounded
    <3>2. dropped' \in {dropped, Bounded(dropped, got')} BY DEF Receive
    <3> QED BY <1>6, <3>1, <3>2 DEF IInv, ProcTypeOK
  <2>1. ProcTypeOK' BY <1>1, <1>2, <1>3, <1>6, <2>0 DEF IInv, ProcTypeOK
  <2>2. Order' BY <1>1, <1>2, <1>3, <1>6 DEF IInv, Order
  <2>3. Flow' /\ Ended'
        BY <1>1, <1>2, <1>3, <1>6 DEF IInv, Flow, Sent, Ended, WriteEndClosed
  <2>4. AtEnd'
        BY <1>1, <1>3, <1>6 DEF IInv, Flow, Sent, Ended, AtEnd, WriteEndClosed
  <2> QED BY <1>4, <2>1, <2>2, <2>3, <2>4 DEF IInv
<1> QED BY <1>5, <1>6 DEF Receive, Received

\* The steps of the caller that leave the pipe and the channel alone.
LEMMA WorkHolds == ASSUME IInv, Work \/ Answer \/ Leave \/ TimePasses PROVE IInv'
<1>1. /\ UNCHANGED <<call, killable, eof, status, got, output, dropped, result>>
      /\ UNCHANGED <<child, held, waiting, stream, readerVars>>
      /\ pc' \in {pc, "check", "stopping", "done"} /\ (pc' = pc \/ pc \in {"work", "leaving"})
      /\ pc = "leaving" => pc' \in {"leaving", "done"}
      /\ answers' \in {answers, answers + 1}
      BY DEF Work, Answer, Leave, TimePasses
<1>2. ProcTypeOK'
  <2>1. late' = late \/ late' = TRUE BY DEF Work, Answer, Leave, TimePasses
  <2>2. late' \in BOOLEAN BY <2>1 DEF IInv, ProcTypeOK
  <2>3. answers' \in Nat BY <1>1 DEF IInv, ProcTypeOK
  <2> QED BY <1>1, <2>2, <2>3 DEF IInv, ProcTypeOK
<1>3. Order' /\ Flow' /\ Ended' /\ AtEnd' BY <1>1, PositionsStay DEF WriteEndClosed
<1>4. Kept' /\ Known' /\ Given' BY <1>1 DEF IInv, Kept, Known, Given
<1> QED BY <1>2, <1>3, <1>4 DEF IInv

LEMMA StopHolds == ASSUME IInv, Stop \/ Reap PROVE IInv'
<1>1. ASSUME Stop PROVE IInv'
  <2>1. /\ pc = "stopping" /\ pc' = "reaping"
        /\ UNCHANGED <<call, killable, late, eof, status, got, output, dropped, result,
                       answers, stream, readerVars>>
        /\ \/ child = "running" /\ child' = "exited"
           \/ UNCHANGED <<child, held>>
        BY <1>1 DEF Stop, Exits
  <2>2. held' \in BOOLEAN /\ waiting' \in BOOLEAN
        BY <1>1 DEF Stop, Exits, IInv, ProcTypeOK
  <2>3. ProcTypeOK' BY <2>1, <2>2 DEF IInv, ProcTypeOK
  <2>4. Order' /\ Flow' /\ Ended' /\ AtEnd' BY <2>1, PositionsStay DEF WriteEndClosed
  <2>5. Kept' /\ Known' /\ Given' BY <2>1 DEF IInv, Kept, Known, Given
  <2> QED BY <2>3, <2>4, <2>5 DEF IInv
<1>2. ASSUME Reap PROVE IInv'
  <2>1. /\ pc = "reaping" /\ pc' = "leaving" /\ result' = "unfinished"
        /\ child # "running" /\ child' = "reaped" /\ status' = TRUE
        /\ UNCHANGED <<call, killable, late, eof, got, output, dropped,
                       held, waiting, answers, stream, readerVars>>
        BY <1>2 DEF Reap
  <2>2. ProcTypeOK' BY <2>1 DEF IInv, ProcTypeOK
  <2>3. Order' /\ Flow' /\ Ended' /\ AtEnd' BY <2>1, PositionsStay DEF WriteEndClosed
  <2>4. Kept' /\ Known' /\ Given' BY <2>1 DEF IInv, Kept, Known, Given
  <2> QED BY <2>2, <2>3, <2>4 DEF IInv
<1> QED BY <1>1, <1>2

LEMMA AgainHolds == ASSUME IInv, Again PROVE IInv'
<1>1. /\ pc' = "start" /\ eof' = FALSE /\ status' = FALSE /\ got' = 0 /\ output' = 0 /\ dropped' = 0
      /\ result' = "none" /\ child' = "none" /\ held' = FALSE /\ waiting' = FALSE
      /\ answers' = 0 /\ stream' = <<>> /\ taken' = 0 /\ reader' = "none" /\ chan' = <<>>
      /\ UNCHANGED <<call, killable, late>>
      BY DEF Again
<1>2. Len(stream') = 0 /\ Len(chan') = 0 BY <1>1
<1>3. ProcTypeOK'
  <2>1. eof' \in BOOLEAN /\ status' \in BOOLEAN /\ held' \in BOOLEAN /\ waiting' \in BOOLEAN
        BY <1>1
  <2>2. killable' \in BOOLEAN /\ late' \in BOOLEAN BY <1>1 DEF IInv, ProcTypeOK
  <2>3. stream' \in Seq(Tokens) /\ chan' \in Seq(Nat) /\ Len(chan') <= ChanSize
        BY <1>1, <1>2, ProcessAssumption
  <2>4. call' \in Calls /\ got' \in Nat /\ output' \in Nat /\ dropped' \in Nat /\ taken' \in Nat
        /\ answers' \in Nat /\ reader' = "none" /\ child' = "none"
        BY <1>1 DEF IInv, ProcTypeOK
  <2>5. pc' = "start" /\ result' = "none" BY <1>1
  <2> QED BY <2>1, <2>2, <2>3, <2>4, <2>5 DEF ProcTypeOK
<1>4. Order' BY <1>1, <1>2 DEF Order
<1>5. Flow' /\ Ended' /\ AtEnd' BY <1>1 DEF Flow, Sent, Ended, AtEnd
<1>6. Kept' /\ Known' /\ Given' BY <1>1 DEF Kept, Known, Given
<1> QED BY <1>3, <1>4, <1>5, <1>6 DEF IInv

LEMMA StutterHolds == ASSUME IInv, UNCHANGED procVars PROVE IInv'
<1>1. ProcTypeOK' BY DEF procVars, IInv, ProcTypeOK
<1>2. Order' /\ Flow' /\ Ended' /\ AtEnd' BY PositionsStay DEF procVars, WriteEndClosed
<1>3. Kept' /\ Known' /\ Given' BY DEF procVars, IInv, Kept, Known, Given
<1> QED BY <1>1, <1>2, <1>3 DEF IInv

LEMMA NextHolds == IInv /\ [ProcNext]_procVars => IInv'
  BY ChildHolds, ReaderHolds, SpawnHolds, CheckHolds, ReceiveHolds, WorkHolds,
     StopHolds, AgainHolds, StutterHolds DEF ProcNext, CallerStep

(***************************************************************************)
(* What is dropped: chunk by chunk a loop drops what the whole of its      *)
(* output would have cost at once, and the other calls nothing.            *)
(***************************************************************************)
Tailed == dropped = IF call = "loop" THEN Bounded(0, output) ELSE 0

\* What is dropped in two goes is what is dropped in one.
LEMMA BoundedTwice ==
  /\ Bounded(0, 0) = 0
  /\ \A to, more \in Nat : to <= more => Bounded(Bounded(0, to), more) = Bounded(0, more)
  BY ProcessAssumption DEF Bounded

\* Output is kept and dropped by Receive alone, and by nothing before Again.
LEMMA TailNext ==
  ASSUME IInv, Tailed, [ProcNext]_procVars
  PROVE  Tailed'
<1>1. CASE Receive
  <2>1. /\ pc = "receive" /\ call' = call
        /\ \/ UNCHANGED <<output, dropped>>
           \/ /\ output' = got'
              /\ dropped' = IF call = "loop" THEN Bounded(dropped, got') ELSE dropped
        BY <1>1 DEF Receive
  <2>2. output = got /\ got \in Nat BY <2>1 DEF IInv, Kept, ProcTypeOK
  <2>3. IInv' BY <1>1, ReceiveHolds
  <2>4. got' \in Nat BY <2>3 DEF IInv, ProcTypeOK
  <2>5. got <= got'
    <3>1. CASE UNCHANGED got BY <2>2, <3>1
    <3>2. CASE chan # <<>> /\ got' = Head(chan)
      <4>1. Head(chan) = chan[1] /\ 1 \in 1..Len(chan)
            BY <3>2 DEF IInv, ProcTypeOK
      <4> QED BY <3>2, <4>1 DEF IInv, Order
    <3> QED BY <1>1, <3>1, <3>2 DEF Receive, Received
  <2>6. Bounded(Bounded(0, output), got') = Bounded(0, got')
        BY <2>2, <2>4, <2>5, BoundedTwice
  <2>7. CASE UNCHANGED <<output, dropped>> BY <2>1, <2>7 DEF Tailed
  <2>8. CASE /\ output' = got'
             /\ dropped' = IF call = "loop" THEN Bounded(dropped, got') ELSE dropped
        BY <2>1, <2>6, <2>8 DEF Tailed
  <2> QED BY <2>1, <2>7, <2>8
<1>2. CASE Again
  <2>1. output' = 0 /\ dropped' = 0 BY <1>2 DEF Again
  <2> QED BY <2>1, BoundedTwice DEF Tailed
<1>3. CASE UNCHANGED <<call, output, dropped>>
  BY <1>3 DEF Tailed
<1>4. ChildStep \/ ReaderStep => UNCHANGED <<call, output, dropped>>
  BY DEF ChildStep, ChildWrites, ChildAsks, HolderWrites, ChildResumes, ChildExits,
     HolderEnds, ReaderStep, ReaderReads, ReaderSends, ReaderEnds
<1>5. CallerStep /\ ~Receive => UNCHANGED <<call, output, dropped>>
  BY DEF CallerStep, Spawn, CheckFinished, Work, Answer, Stop, Reap, Leave
<1>6. TimePasses \/ UNCHANGED procVars => UNCHANGED <<call, output, dropped>>
  BY DEF TimePasses, procVars
<1> QED BY <1>1, <1>2, <1>3, <1>4, <1>5, <1>6 DEF ProcNext

\* The positions of the stream determine what the caller has.
LEMMA Whole == IInv /\ Tailed => WholeOutput
<1>1. IInv => output \in Nat /\ got \in Nat /\ taken \in Nat /\ Len(stream) \in Nat
      BY DEF IInv, ProcTypeOK
<1>2. ASSUME IInv, Tailed, result = "finished"
      PROVE  /\ child = "reaped" /\ output = Len(stream)
             /\ dropped = IF call = "loop" THEN Bounded(0, Len(stream)) ELSE 0
  <2>1. output = Len(stream) BY <1>1, <1>2 DEF IInv, Given, AtEnd
  <2> QED BY <1>2, <2>1 DEF IInv, Given, Tailed
<1>3. ASSUME IInv, result = "unfinished" PROVE child = "reaped" /\ output <= Len(stream)
  BY <1>1, <1>3 DEF IInv, Given, Order
<1> QED BY <1>2, <1>3 DEF WholeOutput

LEMMA Invariant == ProcSpec => [](IInv /\ Tailed)
<1>1. ProcInit => IInv /\ Tailed
  BY InitHolds, BoundedTwice DEF ProcInit, Tailed
<1>2. IInv /\ Tailed /\ [ProcNext]_procVars => IInv' /\ Tailed'
  BY NextHolds, TailNext
<1> QED BY <1>1, <1>2, PTL DEF ProcSpec

-----------------------------------------------------------------------------

\* Every field of the process and its caller keeps its type, and the channel its
\* limit (runtime.rs:79-257, desktop.rs:361-393).
THEOREM TypeCorrect == ProcSpec => []ProcTypeOK
<1>1. IInv => ProcTypeOK BY DEF IInv
<1> QED BY <1>1, Invariant, PTL

\* However output, exit and end of the pipe race, the output of a process that
\* is reported as finished is all of it (runtime.rs:157-162, 232-257); of more
\* than MAX_OUTPUT a loop of the worker has exactly the end (worker.rs:632-641).
THEOREM WholeOutputHolds == ProcSpec => []WholeOutput
  BY Whole, Invariant, PTL
=============================================================================

----------------------------- MODULE ProcessIO -----------------------------
(***************************************************************************)
(* A child process and its output (flu-core/src/runtime.rs, Process): the  *)
(* pipe, the thread that reads it, the bounded channel, and the callers    *)
(* that wait for the end of both the process and its output: run(), the    *)
(* panel's execute() and the loops of the worker.                          *)
(*                                                                         *)
(* What was written so far is one sequence; the reader, the chunks in the  *)
(* channel and the caller are positions in it.                             *)
(***************************************************************************)
EXTENDS Naturals, Sequences

CONSTANTS Calls,      \* which of "run", "execute", "loop" is made
          Tokens,     \* what output is made of
          Lines,      \* what is written at once: sequences of tokens
          MaxWritten, \* bound: tokens written altogether
          PipeSize,   \* tokens the pipe holds
          ChanSize,   \* the channel's 32 chunks
          MaxAnswers, \* bound: answers in the child's standard input
          MaxOutput   \* MAX_OUTPUT, in tokens

ASSUME ProcessAssumption ==
  /\ Calls \subseteq {"run", "execute", "loop"}
  /\ Lines \subseteq Seq(Tokens)
  /\ MaxWritten \in Nat /\ PipeSize \in Nat \ {0} /\ ChanSize \in Nat \ {0}
  /\ MaxAnswers \in Nat /\ MaxOutput \in Nat

VARIABLES
  call,     \* the caller
  pc,       \* where it is
  killable, \* may it kill the child?  (not a helper that pkexec made root)
  late,     \* its deadline has passed, or the panel's stop flag is set
  eof, status,      \* fields of Process: output at its end, status known
  got,      \* position: received from the channel
  output,   \* position: kept as output,
  dropped,  \* position: but for what was dropped from its front
  result,   \* "none", "unstarted", "unfinished", "finished"
  child,    \* "none", "running", "exited", "reaped"
  held,     \* another process holds the pipe's write end too
  waiting,  \* the child reads its standard input
  answers,  \* answers on their way to it
  stream,   \* all that was written into the pipe
  taken,    \* position: taken out of the pipe by the reader
  reader,   \* "none", "reading", "sending", "gone"
  chan      \* the channel: the positions at which its chunks end
callerVars == <<call, pc, killable, late, eof, status, got, output, dropped, result>>
childVars  == <<child, held, waiting, answers, stream>>
readerVars == <<taken, reader, chan>>
procVars   == <<callerVars, childVars, readerVars>>

ProcInit ==
  /\ call \in Calls /\ pc = "start"
  /\ killable \in BOOLEAN /\ (call # "execute" => killable)
  /\ late = FALSE /\ eof = FALSE /\ status = FALSE
  /\ got = 0 /\ output = 0 /\ dropped = 0 /\ result = "none"
  /\ child = "none" /\ held = FALSE /\ waiting = FALSE /\ answers = 0
  /\ stream = <<>> /\ taken = 0 /\ reader = "none" /\ chan = <<>>

-----------------------------------------------------------------------------
(* The child, and others that have inherited the write end of its pipe.    *)

\* There is room for the line; the reading end is open as long as the reader runs.
Writes(line) == /\ reader # "gone"
                /\ Len(stream) + Len(line) <= MaxWritten
                /\ Len(stream) + Len(line) - taken <= PipeSize
                /\ stream' = stream \o line

ChildWrites(line) == /\ child = "running" /\ ~waiting /\ Writes(line)
                     /\ UNCHANGED <<child, held, waiting, answers, callerVars, readerVars>>

\* A question: the child waits for its standard input, which stays open until
\* stop().
ChildAsks(line) == /\ child = "running" /\ ~waiting /\ Writes(line) /\ waiting' = TRUE
                   /\ UNCHANGED <<child, held, answers, callerVars, readerVars>>

\* What it has started and left behind keeps the pipe open, and may write; as
\* long as the child runs itself that makes no difference.
HolderWrites(line) == /\ held /\ Writes(line)
                      /\ UNCHANGED <<child, held, waiting, answers, callerVars, readerVars>>
HolderEnds == /\ held /\ held' = FALSE
              /\ UNCHANGED <<child, waiting, answers, stream, callerVars, readerVars>>

ChildResumes == /\ child = "running" /\ waiting /\ answers > 0
                /\ waiting' = FALSE /\ answers' = answers - 1
                /\ UNCHANGED <<child, held, stream, callerVars, readerVars>>

\* The child is gone; a program it has started may keep the pipe.
Exits == child' = "exited" /\ waiting' = FALSE /\ held' \in {held, TRUE}

\* By itself, or since its input was closed.
ChildExits == /\ child = "running" /\ (~waiting \/ pc = "reaping") /\ Exits
              /\ UNCHANGED <<answers, stream, callerVars, readerVars>>

-----------------------------------------------------------------------------
(* The reader thread.                                                      *)

WriteEndClosed == child # "running" /\ ~held

ReaderReads == \E to \in taken + 1 .. Len(stream) :
                 /\ reader = "reading" /\ reader' = "sending" /\ taken' = to
                 /\ UNCHANGED <<chan, callerVars, childVars>>

\* Mutant: the channel has no limit.
ReaderSendsAlways == /\ reader = "sending" /\ pc # "done"
                     /\ chan' = Append(chan, taken) /\ reader' = "reading"
                     /\ UNCHANGED <<taken, callerVars, childVars>>

ReaderSends == /\ reader = "sending" /\ pc # "done" /\ Len(chan) < ChanSize
               /\ chan' = Append(chan, taken) /\ reader' = "reading"
               /\ UNCHANGED <<taken, callerVars, childVars>>

\* Mutant: the thread goes on when nobody receives any more.
ReaderEndsWithOutput == /\ reader = "reading" /\ taken = Len(stream) /\ WriteEndClosed
                        /\ reader' = "gone" /\ UNCHANGED <<taken, chan, callerVars, childVars>>

\* At the end of the output, or when nobody receives any more.
ReaderEnds == /\ \/ reader = "reading" /\ taken = Len(stream) /\ WriteEndClosed
                 \/ reader = "sending" /\ pc = "done"
              /\ reader' = "gone" /\ UNCHANGED <<taken, chan, callerVars, childVars>>

ReaderStep == ReaderReads \/ ReaderSends \/ ReaderEnds

-----------------------------------------------------------------------------
(* The caller.                                                             *)

Goto(p) == pc' = p

\* The pipe is made close-on-exec after it was made: a program that another
\* thread of the panel's host starts in between holds it too.
Spawn ==
  /\ pc = "start"
  /\ \/ /\ Goto("done") /\ result' = "unstarted"
        /\ UNCHANGED <<child, held, reader>>
     \/ /\ Goto(IF call = "execute" THEN "receive" ELSE "check")
        /\ child' = "running" /\ reader' = "reading"
        /\ held' \in {FALSE, call = "execute"} /\ UNCHANGED result
  /\ UNCHANGED <<call, killable, late, eof, status, got, output, dropped, waiting,
                 answers, stream, taken, chan>>

\* Mutant: a process is taken to be finished when it has exited.
FinishedWhenExited == (status \/ child = "exited")

\* finished(): the exit status is known, and the output at its end.
Finished == (status \/ child = "exited") /\ eof

\* Mutant: the caller goes on although its time is over.
NeverOver(overflow) == overflow

\* Time is over, the panel closed, or there is too much output.
Over(overflow) == late \/ overflow

CheckFinished ==
  /\ pc = "check"
  /\ status' = (status \/ child = "exited")
  /\ child'  = IF child = "exited" THEN "reaped" ELSE child
  /\ IF Finished
     THEN Goto("leaving") /\ result' = "finished"
     ELSE /\ Goto(IF call = "execute" /\ Over(output > MaxOutput)
                  THEN "stopping" ELSE "receive")
          /\ UNCHANGED result
  /\ UNCHANGED <<call, killable, late, eof, got, output, dropped,
                 held, waiting, answers, stream, readerVars>>

\* What a receive() brings: a chunk, the end of the output, or nothing in time.
Received == \/ chan # <<>> /\ got' = Head(chan) /\ chan' = Tail(chan) /\ UNCHANGED eof
            \/ chan = <<>> /\ eof' = (reader = "gone") /\ UNCHANGED <<got, chan>>

\* append_bounded: a loop of the worker keeps the last MAX_OUTPUT of it.
Bounded(from, to) == IF to - from > MaxOutput THEN to - MaxOutput ELSE from

Receive ==
  /\ pc = "receive" /\ Received
  /\ IF call = "run" /\ Over(got' > MaxOutput)
     THEN Goto("stopping") /\ UNCHANGED <<output, dropped>>
     ELSE /\ Goto(IF call = "loop" THEN "work" ELSE "check")
          /\ output' = got'
          /\ dropped' = IF call = "loop" THEN Bounded(dropped, got') ELSE dropped
  /\ UNCHANGED <<call, killable, late, status, result, taken, reader, childVars>>

\* The worker's loops look at what they received, and go on.
Work == /\ pc = "work" /\ Goto("check")
        /\ UNCHANGED <<call, killable, late, eof, status, got, output, dropped, result,
                       childVars, readerVars>>

\* answer(): a child that is gone cannot be written to, and the loop is left.
Answer == /\ pc = "work" /\ answers < MaxAnswers
          /\ IF child = "running" THEN answers' = answers + 1 /\ Goto("check")
             ELSE UNCHANGED answers /\ Goto("stopping")
          /\ UNCHANGED <<call, killable, late, eof, status, got, output, dropped, result,
                         child, held, waiting, stream, readerVars>>

\* stop(): the input is closed, a child not yet reaped is killed...
Stop == /\ pc = "stopping" /\ Goto("reaping")
        /\ IF child = "running" /\ killable THEN Exits
           ELSE UNCHANGED <<child, waiting, held>>
        /\ UNCHANGED <<call, killable, late, eof, status, got, output, dropped, result,
                       answers, stream, readerVars>>

\* ... and waited for, whoever ended it.
Reap == /\ pc = "reaping" /\ child # "running" /\ Goto("leaving")
        /\ child' = "reaped" /\ status' = TRUE /\ result' = "unfinished"
        /\ UNCHANGED <<call, killable, late, eof, got, output, dropped,
                       held, waiting, answers, stream, readerVars>>

\* Process is dropped: the reader has nobody to send to.
Leave == /\ pc = "leaving" /\ Goto("done")
         /\ UNCHANGED <<call, killable, late, eof, status, got, output, dropped, result,
                        childVars, readerVars>>

\* The loop of an attempt that failed is entered again, with a new process.
Again == /\ pc = "done" /\ call = "loop" /\ result = "finished"
         /\ Goto("start") /\ eof' = FALSE /\ status' = FALSE
         /\ got' = 0 /\ output' = 0 /\ dropped' = 0 /\ result' = "none"
         /\ child' = "none" /\ held' = FALSE /\ waiting' = FALSE /\ answers' = 0
         /\ stream' = <<>> /\ taken' = 0 /\ reader' = "none" /\ chan' = <<>>
         /\ UNCHANGED <<call, killable, late>>

\* Only run() and execute() look at the time.
TimePasses == /\ call # "loop" /\ ~late /\ pc \notin {"start", "done"} /\ late' = TRUE
              /\ UNCHANGED <<call, pc, killable, eof, status, got, output, dropped, result,
                             childVars, readerVars>>

ChildStep == \/ \E line \in Lines : ChildWrites(line) \/ ChildAsks(line) \/ HolderWrites(line)
             \/ ChildResumes \/ ChildExits \/ HolderEnds
CallerStep == \/ Spawn \/ CheckFinished \/ Receive \/ Work \/ Answer
              \/ Stop \/ Reap \/ Leave

ProcNext == ChildStep \/ ReaderStep \/ CallerStep \/ Again \/ TimePasses
ProcSpec == ProcInit /\ [][ProcNext]_procVars

-----------------------------------------------------------------------------
(* Safety.                                                                 *)

ProcTypeOK ==
  /\ call \in Calls
  /\ pc \in {"start", "check", "receive", "work", "stopping", "reaping", "leaving", "done"}
  /\ killable \in BOOLEAN /\ late \in BOOLEAN /\ eof \in BOOLEAN /\ status \in BOOLEAN
  /\ got \in Nat /\ output \in Nat /\ dropped \in Nat /\ taken \in Nat /\ answers \in Nat
  /\ result \in {"none", "unstarted", "unfinished", "finished"}
  /\ child \in {"none", "running", "exited", "reaped"}
  /\ held \in BOOLEAN /\ waiting \in BOOLEAN
  /\ stream \in Seq(Tokens) /\ chan \in Seq(Nat)
  /\ reader \in {"none", "reading", "sending", "gone"}
  /\ Len(chan) <= ChanSize

\* A process reported as finished has been reaped, and its output is all that
\* it and everyone it started wrote, however the reader, the channel and the
\* exit raced (runtime.rs:157-162, 232-257); but a loop of the worker has kept
\* the last MAX_OUTPUT alone (worker.rs:351, 549, 632-641).  One that was given
\* up has been reaped as well, and its output is no more than it wrote.
WholeOutput ==
  /\ result = "finished" =>
       /\ child = "reaped" /\ output = Len(stream)
       /\ dropped = IF call = "loop" THEN Bounded(0, Len(stream)) ELSE 0
  /\ result = "unfinished" => child = "reaped" /\ output <= Len(stream)

-----------------------------------------------------------------------------
(* Liveness.  Threads run and time passes; no process owes an end, nor     *)
(* anybody who holds the pipe.                                             *)

ProcFairness == /\ WF_procVars(CallerStep) /\ WF_procVars(ReaderStep)
                /\ WF_procVars(TimePasses) /\ WF_procVars(ChildResumes)
ProcFairSpec == ProcSpec /\ ProcFairness

\* A call that looks at the time ends once that is over, whoever keeps the pipe
\* open (desktop.rs:382-387, runtime.rs:233-243), or waits in stop() for a
\* child it may not kill.  Any call, the loops without a timeout too, ends when
\* the process has exited and nobody holds its pipe.
CallEnds ==
  /\ late ~> pc = "done" \/ (pc = "reaping" /\ child = "running" /\ ~killable)
  /\ (child \in {"exited", "reaped"} /\ ~held) ~> pc = "done"

\* Nothing of a call stays behind: its reader thread, blocked in a full channel
\* or not, ends when the pipe is closed or the next thing is written into it.
ThreadEnds == (pc = "done" /\ reader # "none" /\ (~held \/ taken < Len(stream)))
              ~> reader = "gone"
=============================================================================

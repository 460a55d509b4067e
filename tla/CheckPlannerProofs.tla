------------------------- MODULE CheckPlannerProofs -------------------------
(* What holds of every check, for all packages, policies and bounds.       *)
EXTENDS CheckPlanner, TLAPS

-----------------------------------------------------------------------------
(* Types.  TypeOK is not inductive by itself: that a planner is started at *)
(* most MaxRounds times rests on the test before the next round.           *)

RoundInv == check.pc \in {"scan", "trust", "sync", "query"} => check.rounds < MaxRounds

TypeInv == TypeOK /\ RoundInv

\* Nobody is there, and nothing was said.
LEMMA NobodyType == NoPlan \in PlanRecs /\ NoPacman \in PacRecs
  BY DEF NoPlan, PlanRecs, Codes, NoPacman, PacRecs, Faults

\* What a removal makes of the planner is well typed.
LEMMA RemovalType ==
  ASSUME TypeOK, plan.pc = "talk", NEW p \in Pkgs, NEW blockers \in SUBSET Pkgs,
         RemovalResult(p, blockers)
  PROVE  plan' \in PlanRecs /\ plan'.pc # "none"
  BY DEF TypeOK, RemovalResult, PlanRecs, Class, Codes

\* The steps of the check's own process.
LEMMA CheckTypes == ASSUME TypeInv, Begin \/ CheckStep \/ PlanKilled
                    PROVE  TypeInv'
<1> USE NobodyType, PlannerAssumption DEF TypeInv, RoundInv, TypeOK, CheckRecs, Codes
<1>1. CASE Begin
  <2>1. check' \in CheckRecs /\ check'.pc = "scan" /\ check'.rounds = 0
    BY <1>1 DEF Begin
  <2>2. plan' = plan /\ plan.pc = "none"
    BY <1>1 DEF Begin
  <2>3. removed' = {} /\ reported' = {} /\ killed' = FALSE
    BY <1>1 DEF Begin
  <2>4. UNCHANGED <<pac, ext, inWay, touched>>
    BY <1>1 DEF Begin, WorldStays
  <2>5. RoundInv'
    BY <2>1
  <2>6. (plan.pc # "none" <=> check.pc = "plan")'
    BY <2>1, <2>2
  <2>7. QED
    BY <2>1, <2>2, <2>3, <2>4, <2>5, <2>6
<1>2. CASE CheckScan
  BY <1>2 DEF CheckScan, CheckStays, WorldStays, CheckAt, Ends
<1>3. CASE RefreshTrust
  BY <1>3 DEF RefreshTrust, CheckStays, WorldStays, CheckAt, Ends
<1>4. CASE Sync
  BY <1>4 DEF Sync, CheckStays, WorldStays, CheckAt, Ends
<1>5. CASE Query
  <2>1. plan.pc = "none" /\ plan' \in PlanRecs
    BY <1>5 DEF Query, PlanRecs, NoPlan
  <2>2. /\ check' \in CheckRecs /\ (plan'.pc # "none" <=> check'.pc = "plan")
        /\ check'.pc \in {"idle", "plan"}
    <3>1. CASE (Ends("error") \/ Ends("nothing")) /\ UNCHANGED plan
      BY <3>1, <2>1 DEF Ends
    <3>2. CASE /\ check' = [check EXCEPT !.pc = "plan", !.rounds = @ + 1]
               /\ plan' = [NoPlan EXCEPT !.pc = "scan"]
      <4>1. check.pc = "query" /\ check.rounds + 1 \in 0..MaxRounds
        BY <1>5 DEF Query
      <4>2. check'.pc = "plan" /\ check' \in CheckRecs
        BY <3>2, <4>1
      <4>3. plan'.pc = "scan"
        BY <3>2 DEF NoPlan
      <4>4. QED
        BY <4>2, <4>3
    <3>3. QED
      BY <1>5, <3>1, <3>2 DEF Query
  <2>3. QED
    BY <1>5, <2>1, <2>2 DEF Query, WorldStays
<1>6. CASE PlanReturns
  <2>1. /\ check' \in CheckRecs /\ check'.pc \in {"idle", "query"}
        /\ check'.pc = "query" => check'.rounds < MaxRounds
    BY <1>6 DEF PlanReturns, CheckAt, Ends, RoundsLeft, PlanRecs
  <2>2. reported' \subseteq Pkgs /\ plan' = NoPlan /\ plan'.pc = "none"
    BY <1>6 DEF PlanReturns, PassedOn, PlanRecs, NoPlan
  <2>3. QED
    BY <1>6, <2>1, <2>2 DEF PlanReturns, WorldStays
<1>7. CASE PlanKilled
  <2>1. check' \in CheckRecs /\ check'.pc = "idle" /\ plan' = NoPlan
    BY <1>7 DEF PlanKilled, Ends
  <2>2. pac' \in PacRecs
    BY <1>7 DEF PlanKilled, PacRecs
  <2>3. inWay' \subseteq Pkgs /\ removed' \subseteq Pkgs
    BY <1>7 DEF PlanKilled, PlanRecs
  <2>4. QED
    BY <1>7, <2>1, <2>2, <2>3 DEF PlanKilled, NoPlan
<1>8. QED
  BY <1>1, <1>2, <1>3, <1>4, <1>5, <1>6, <1>7 DEF CheckStep

\* The planner's steps.  They leave the check alone and the planner there.
LEMMA PlanTypes == ASSUME TypeInv, PlanStep
                   PROVE  TypeInv'
<1>1. plan' \in PlanRecs /\ plan'.pc # "none" /\ plan.pc # "none"
  <2> USE DEF TypeInv, TypeOK, PlanRecs, Codes
  <2>1. CASE PlanScan
    BY <2>1 DEF PlanScan, Returns, PlanAt
  <2>2. CASE PlanSpawn
    BY <2>2 DEF PlanSpawn, Returns
  <2>3. CASE AnswerKeyImport \/ AnswerReplace \/ AnswerVerified
    <3>0. plan.pc = "talk"
      BY <2>3 DEF AnswerKeyImport, AnswerReplace, AnswerVerified, Unparsed
    <3>1. plan.parsed + 1 \in Nat
      OBVIOUS
    <3>2. plan' = [plan EXCEPT !.parsed = plan.parsed + 1]
      BY <2>3 DEF AnswerKeyImport, AnswerReplace, AnswerVerified, Parsed
    <3>3. QED
      BY <3>0, <3>1, <3>2
  <2>4. CASE DeclineInstall
    BY <2>4 DEF DeclineInstall, Unparsed
  <2>5. CASE RemovalPrompt
    BY <2>5, RemovalType DEF RemovalPrompt, Unparsed, PacRecs
  <2>6. CASE Abort
    BY <2>6 DEF Abort, Returns
  <2>7. CASE Finished
    <3>1. CASE PlanAgain
      BY <3>1, <2>7 DEF Finished, PlanAgain, NoPlan
    <3>2. CASE Returns("key") \/ Returns("error") \/ Returns("planned")
      BY <3>2, <2>7 DEF Finished, Returns
    <3>3. CASE \E p \in Strictest(pac.pkgs) : RemovalResult(p, pac.pkgs)
      BY <3>3, <2>7, RemovalType DEF Finished, Strictest, PacRecs
    <3>4. QED
      BY <2>7, <3>1, <3>2, <3>3 DEF Finished
  <2>8. CASE RemoveScan
    BY <2>8 DEF RemoveScan, Returns, PlanAt
  <2>9. CASE RemoveDone
    BY <2>9 DEF RemoveDone, Returns
  <2>10. QED
    BY <2>1, <2>2, <2>3, <2>4, <2>5, <2>6, <2>7, <2>8, <2>9 DEF PlanStep
<1>2. pac' \in PacRecs
  <2> USE NobodyType DEF TypeInv, TypeOK
  <2>1. CASE PlanSpawn
    BY <2>1 DEF PlanSpawn, NoPacman, PacRecs
  <2>2. CASE AnswerKeyImport \/ AnswerReplace \/ AnswerVerified \/ DeclineInstall
    <3>1. \E answer \in {"y", "n"}, close \in BOOLEAN : Wrote(answer, close)
      BY <2>2 DEF AnswerKeyImport, AnswerReplace, AnswerVerified, DeclineInstall
    <3>2. PICK answer \in {"y", "n"}, close \in BOOLEAN : Wrote(answer, close)
      BY <3>1
    <3>3. pac.input \in Seq({"y", "n"})
      BY DEF PacRecs
    <3>4. Append(pac.input, answer) \in Seq({"y", "n"})
      BY <3>3
    <3>5. pac' = [pac EXCEPT !.input = Append(pac.input, answer), !.eof = close]
      BY <3>2 DEF Wrote
    <3>6. QED
      BY <3>4, <3>5 DEF PacRecs
  <2>3. CASE RemovalPrompt \/ Abort \/ Finished
    BY <2>3 DEF RemovalPrompt, Abort, Finished, Stopped
  <2>4. CASE PlanScan \/ RemoveScan \/ RemoveDone
    BY <2>4 DEF PlanScan, RemoveScan, RemoveDone
  <2>5. QED
    BY <2>1, <2>2, <2>3, <2>4 DEF PlanStep
<1>3. /\ inWay' \subseteq Pkgs /\ removed' \subseteq Pkgs
      /\ UNCHANGED <<check, ext, reported, killed, touched>>
  BY DEF TypeInv, TypeOK, PlanRecs, PlanStep, NoneRemoved, PlanStays, PlanScan, PlanSpawn,
         AnswerKeyImport, AnswerReplace, AnswerVerified, DeclineInstall, RemovalPrompt,
         Abort, Finished, RemoveScan, RemoveDone
<1>4. QED
  BY <1>1, <1>2, <1>3 DEF TypeInv, RoundInv, TypeOK

\* The steps of the pacman and of the rest of the world.
LEMMA PacmanTypes == ASSUME TypeInv, PacmanStep \/ External
                     PROVE  TypeInv'
<1>1. pac' \in PacRecs
  <2> USE DEF TypeInv, TypeOK
  <2>1. CASE PacmanAsks
    <3>1. PICK question \in Questions, pkgs \in SUBSET inWay, fault \in Faults :
            pac' = [pac EXCEPT !.st = "asking", !.asked = Append(pac.asked, question),
                               !.pkgs = pkgs, !.fault = fault]
      <4> DEFINE Shown(question, pkgs) ==
            pac' = [pac EXCEPT !.st = "asking", !.asked = Append(pac.asked, question),
                      !.pkgs = pkgs,
                      !.fault = IF question = "key" /\ pac.fault = "none"
                                THEN question ELSE pac.fault]
      <4>1. PICK question \in Questions :
              \E pkgs \in IF question = "conflict" THEN {{p} : p \in inWay} ELSE {{}} :
                Shown(question, pkgs)
        BY <2>1 DEF PacmanAsks
      <4>2. PICK pkgs \in IF question = "conflict" THEN {{p} : p \in inWay} ELSE {{}} :
              Shown(question, pkgs)
        BY <4>1
      <4>3. pkgs \in SUBSET inWay
        BY <4>2
      <4>4. (IF question = "key" /\ pac.fault = "none" THEN question ELSE pac.fault) \in Faults
        BY DEF PacRecs, Faults
      <4>5. QED
        BY <4>2, <4>3, <4>4
    <3>2. Append(pac.asked, question) \in Seq(Questions) /\ pkgs \in SUBSET Pkgs
      BY DEF PacRecs
    <3>3. QED
      BY <3>1, <3>2 DEF PacRecs
  <2>2. CASE PacmanReads
    <3>1. PICK st \in {"running", "exited"}, ok \in BOOLEAN :
            pac' = [pac EXCEPT !.input = IF pac.input = <<>> THEN pac.input ELSE Tail(pac.input),
                               !.pkgs = {}, !.st = st, !.ok = ok]
      BY <2>2 DEF PacmanReads, PacRecs
    <3>2. pac.input \in Seq({"y", "n"})
      BY DEF PacRecs
    <3>3. (IF pac.input = <<>> THEN pac.input ELSE Tail(pac.input)) \in Seq({"y", "n"})
      BY <3>2
    <3>4. QED
      BY <3>1, <3>3 DEF PacRecs
  <2>3. CASE PacmanEnds
    BY <2>3 DEF PacmanEnds, PacRecs, Faults
  <2>4. CASE OrphanReaped \/ External
    BY <2>4, NobodyType DEF OrphanReaped, External
  <2>5. QED
    BY <2>1, <2>2, <2>3, <2>4 DEF PacmanStep
<1>2. /\ UNCHANGED <<check, plan, inWay, removed, reported, killed>>
      /\ ext' \in BOOLEAN /\ touched' \in BOOLEAN
  BY DEF TypeInv, TypeOK, PacmanStep, PacmanStays, PacmanAsks, PacmanReads, PacmanEnds,
         OrphanReaped, External
<1>3. QED
  BY <1>1, <1>2 DEF TypeInv, RoundInv, TypeOK

\* Every step keeps the types.
LEMMA TypeNext == TypeInv /\ [Next]_vars => TypeInv'
<1>1. CASE UNCHANGED vars
  BY <1>1 DEF TypeInv, RoundInv, TypeOK, vars
<1>2. QED
  BY <1>1, CheckTypes, PlanTypes, PacmanTypes DEF Next

\* The types hold at the start.
LEMMA TypeInit == Init => TypeInv
<1> SUFFICES ASSUME Init
             PROVE  TypeInv
  OBVIOUS
<1>1. check \in CheckRecs /\ check.pc = "idle"
  BY PlannerAssumption DEF Init, CheckRecs, Codes
<1>2. plan \in PlanRecs /\ plan.pc = "none" /\ pac \in PacRecs
  BY NobodyType DEF Init, NoPlan
<1>3. QED
  BY <1>1, <1>2 DEF Init, TypeInv, RoundInv, TypeOK

\* The state of a check keeps its type: no check plans more than MaxRounds
\* times (helper.rs:603), and none leaves its planner behind.
THEOREM TypeCorrect == Spec => []TypeOK
<1>1. TypeInv => TypeOK
  BY DEF TypeInv
<1>2. QED
  BY <1>1, TypeInit, TypeNext, PTL DEF Spec
-----------------------------------------------------------------------------
(* The dry run.  The planner's search is never ahead of pacman, and what is *)
(* in the pipe is at most one answer, to the question pacman waits at.      *)

LastAsked == pac.asked[Len(pac.asked)]

PipeInv == /\ pac.st = "running" => pac.input = <<>>
           /\ pac.st = "asking" =>
                /\ pac.asked # <<>>
                /\ pac.input = <<>> \/ pac.input = <<"n">>
                     \/ (pac.input = <<"y">> /\ LastAsked # "proceed")

SearchInv ==
  /\ plan.pc \in {"scan", "spawn"} => plan.parsed = 0
  /\ plan.pc = "talk" /\ ~pac.eof /\ pac.st = "running" => plan.parsed = Len(pac.asked)
  /\ plan.pc = "talk" /\ ~pac.eof /\ pac.st = "asking" =>
       \/ plan.parsed + 1 = Len(pac.asked) /\ pac.input = <<>>
       \/ plan.parsed = Len(pac.asked)

TalkInv == PipeInv /\ SearchInv /\ DryRun

\* The steps that leave the talk, or that start a new one.
LEMMA TalkElsewhere ==
  ASSUME TypeInv, TalkInv, Begin \/ CheckStep \/ PlanKilled \/ PlanScan \/ PlanSpawn
                             \/ RemovalPrompt \/ Abort \/ Finished \/ RemoveScan
                             \/ RemoveDone \/ OrphanReaped \/ External
  PROVE  TalkInv'
<1> USE DEF TalkInv, PipeInv, SearchInv, DryRun, LastAsked, NoPlan, NoPacman
<1>0. plan \in PlanRecs
  BY DEF TypeInv, TypeOK
<1> USE <1>0 DEF PlanRecs
<1>1. CASE Begin \/ External
  BY <1>1 DEF Begin, WorldStays, External
<1>2. CASE CheckScan \/ RefreshTrust \/ Sync
  BY <1>2 DEF CheckScan, RefreshTrust, Sync, CheckStays, WorldStays
<1>3. CASE Query \/ PlanReturns
  <2>1. UNCHANGED <<pac, touched>>
    BY <1>3 DEF Query, PlanReturns, WorldStays
  <2>2. plan' = plan \/ plan' = NoPlan \/ plan' = [NoPlan EXCEPT !.pc = "scan"]
    BY <1>3 DEF Query, PlanReturns
  <2>3. QED
    BY <2>1, <2>2
<1>4. CASE PlanKilled
  BY <1>4 DEF PlanKilled
<1>5. CASE PlanScan
  BY <1>5 DEF PlanScan, Returns, PlanAt, NoneRemoved, PlanStays
<1>6. CASE PlanSpawn
  <2>1. touched' = touched
    BY <1>6 DEF PlanSpawn, NoneRemoved, PlanStays
  <2>2. CASE Returns("error") /\ UNCHANGED pac
    BY <2>1, <2>2 DEF Returns
  <2>3. CASE /\ \E valid \in BOOLEAN : plan' = [plan EXCEPT !.pc = "talk", !.valid = valid]
             /\ \E fault \in Faults :
                  pac' = [NoPacman EXCEPT !.st = "running", !.fault = fault]
    <3>1. plan.parsed = 0 /\ plan'.parsed = plan.parsed
      BY <1>6, <2>3 DEF PlanSpawn
    <3>2. pac'.st = "running" /\ pac'.asked = <<>> /\ pac'.input = <<>>
      BY <2>3
    <3>3. QED
      BY <2>1, <3>1, <3>2
  <2>4. QED
    BY <1>6, <2>2, <2>3 DEF PlanSpawn
<1>7. CASE RemovalPrompt \/ Abort
  <2>1. plan'.pc \in {"removeScan", "done"}
    BY <1>7 DEF RemovalPrompt, RemovalResult, Abort, Returns, Unparsed
  <2>2. pac' = NoPacman /\ touched' = touched
    BY <1>7 DEF RemovalPrompt, Abort, Stopped, NoneRemoved, PlanStays
  <2>3. QED
    BY <2>1, <2>2
<1>8. CASE Finished
  <2>1. pac' = NoPacman /\ touched' = touched
    BY <1>8 DEF Finished, NoneRemoved, PlanStays
  <2>2. \/ plan' = [NoPlan EXCEPT !.pc = "scan", !.retry = TRUE]
        \/ plan'.pc \in {"removeScan", "done"}
    BY <1>8 DEF Finished, PlanAgain, Returns, RemovalResult
  <2>3. QED
    BY <2>1, <2>2
<1>9. CASE RemoveScan
  BY <1>9 DEF RemoveScan, Returns, PlanAt, NoneRemoved, PlanStays
<1>10. CASE RemoveDone
  BY <1>10 DEF RemoveDone, Returns, PlanStays
<1>11. CASE OrphanReaped
  BY <1>11 DEF OrphanReaped, PacmanStays
<1>12. QED
  BY <1>1, <1>2, <1>3, <1>4, <1>5, <1>6, <1>7, <1>8, <1>9, <1>10, <1>11 DEF CheckStep

\* An answer finds the pipe empty, and it goes to the question it was meant for.
LEMMA TalkAnswers ==
  ASSUME TypeInv, TalkInv,
         AnswerKeyImport \/ AnswerReplace \/ AnswerVerified \/ DeclineInstall
  PROVE  TalkInv'
<1> USE DEF TypeInv, TypeOK
<1>1. PICK answer \in {"y", "n"}, close \in BOOLEAN :
        /\ Wrote(answer, close)
        /\ answer = "n" => close
        /\ answer = "y" => Parsed /\ (Unparsed("replace") \/ Unparsed("conflict"))
  BY DEF AnswerKeyImport, AnswerReplace, AnswerVerified, DeclineInstall
<1>2. /\ plan.pc = "talk" /\ plan'.pc = "talk" /\ plan.parsed < Len(pac.asked)
      /\ touched' = touched
  BY DEF AnswerKeyImport, AnswerReplace, AnswerVerified, DeclineInstall, Unparsed, Parsed,
         NoneRemoved, PlanStays, PlanRecs
<1>3. pac.asked \in Seq(Questions) /\ plan.parsed \in Nat /\ Len(pac.asked) \in Nat
  BY DEF PacRecs, PlanRecs
<1>4. /\ ~pac.eof /\ pac.st # "exited" /\ pac'.st = pac.st /\ pac'.asked = pac.asked
      /\ pac'.input = Append(pac.input, answer) /\ pac'.eof = close
  BY <1>1 DEF Wrote, PacRecs
<1>5. CASE pac.st = "absent"
  BY <1>2, <1>4, <1>5 DEF TalkInv, PipeInv, SearchInv, DryRun
<1>6. CASE pac.st = "running"
  BY <1>2, <1>3, <1>4, <1>6 DEF TalkInv, SearchInv
<1>7. CASE pac.st = "asking"
  <2>1. plan.parsed + 1 = Len(pac.asked) /\ pac.input = <<>>
    BY <1>2, <1>3, <1>4, <1>7 DEF TalkInv, SearchInv
  <2>2. pac'.input = <<answer>>
    BY <1>4, <2>1
  <2>3. CASE answer = "n"
    BY <1>1, <1>2, <1>4, <1>7, <2>2, <2>3 DEF TalkInv, PipeInv, SearchInv, DryRun
  <2>4. CASE answer = "y"
    <3>1. plan'.parsed = plan.parsed + 1
      BY <1>1, <2>4 DEF Parsed, PlanRecs
    <3>2. LastAsked \in {"replace", "conflict"}
      BY <1>1, <2>1, <2>4 DEF Unparsed, LastAsked
    <3>3. LastAsked' = LastAsked
      BY <1>4 DEF LastAsked
    <3>4. QED
      BY <1>2, <1>4, <1>7, <2>1, <2>2, <2>4, <3>1, <3>2, <3>3
      DEF TalkInv, PipeInv, SearchInv, DryRun
  <2>5. QED
    BY <2>3, <2>4
<1>8. QED
  BY <1>4, <1>5, <1>6, <1>7 DEF PacRecs

\* pacman asks only when it has read everything, and reads no yes at the end.
LEMMA TalkPacman ==
  ASSUME TypeInv, TalkInv, PacmanAsks \/ PacmanReads \/ PacmanEnds
  PROVE  TalkInv'
<1> USE DEF TypeInv, TypeOK
<1>1. plan' = plan /\ plan.parsed \in Nat
  BY DEF PacmanAsks, PacmanReads, PacmanEnds, PacmanStays, PlanRecs
<1>2. pac.asked \in Seq(Questions) /\ Len(pac.asked) \in Nat
  BY DEF PacRecs
<1>3. CASE PacmanAsks
  <2>1. PICK question \in Questions : pac'.asked = Append(pac.asked, question)
    BY <1>3 DEF PacmanAsks, PacRecs
  <2>2. /\ pac.st = "running" /\ pac'.st = "asking" /\ pac'.input = pac.input
        /\ pac'.eof = pac.eof /\ touched' = touched
    BY <1>3 DEF PacmanAsks, PacRecs
  <2>3. Len(pac'.asked) = Len(pac.asked) + 1 /\ pac'.asked # <<>>
    BY <1>2, <2>1
  <2>4. QED
    BY <1>1, <1>2, <2>2, <2>3 DEF TalkInv, PipeInv, SearchInv, DryRun
<1>4. CASE PacmanReads
  <2>1. /\ pac.st = "asking" /\ (pac.input # <<>> \/ pac.eof)
        /\ pac'.st \in {"running", "exited"} /\ pac'.asked = pac.asked /\ pac'.eof = pac.eof
    BY <1>4 DEF PacmanReads, PacRecs
  <2>2. pac'.input = IF pac.input = <<>> THEN pac.input ELSE Tail(pac.input)
    BY <1>4 DEF PacmanReads, PacRecs
  <2>3. pac'.input = <<>>
    <3>1. pac.input \in {<<>>, <<"n">>, <<"y">>}
      BY <2>1 DEF TalkInv, PipeInv
    <3>2. Tail(<<"n">>) = <<>> /\ Tail(<<"y">>) = <<>>
      OBVIOUS
    <3>3. QED
      BY <2>2, <3>1, <3>2
  <2>4. touched' = touched
    <3>1. CASE pac.input = <<>> \/ LastAsked # "proceed"
      BY <1>4, <3>1 DEF PacmanReads, LastAsked
    <3>2. CASE pac.input = <<"n">>
      BY <1>4, <3>2 DEF PacmanReads
    <3>3. QED
      BY <2>1, <3>1, <3>2 DEF TalkInv, PipeInv
  <2>5. QED
    BY <1>1, <2>1, <2>3, <2>4 DEF TalkInv, PipeInv, SearchInv, DryRun
<1>5. CASE PacmanEnds
  BY <1>1, <1>5 DEF PacmanEnds, TalkInv, PipeInv, SearchInv, DryRun, PacRecs
<1>6. QED
  BY <1>3, <1>4, <1>5

\* A check for updates changes nothing through the planned transaction: for any
\* number of questions, in any order, the last one never reads a yes that was
\* meant for another one (helper.rs:306-349).
THEOREM DryRunHolds == Spec => []DryRun
<1>1. Init => TalkInv
  BY DEF Init, TalkInv, PipeInv, SearchInv, DryRun, NoPlan, NoPacman
<1>2. TypeInv /\ TalkInv /\ [Next]_vars => TalkInv'
  <2> SUFFICES ASSUME TypeInv, TalkInv, [Next]_vars
               PROVE  TalkInv'
    OBVIOUS
  <2>1. CASE UNCHANGED vars
    BY <2>1 DEF vars, TalkInv, PipeInv, SearchInv, DryRun, LastAsked
  <2>2. QED
    BY <2>1, TalkElsewhere, TalkAnswers, TalkPacman DEF Next, PlanStep, PacmanStep
<1>3. TalkInv => DryRun
  BY DEF TalkInv
<1>4. QED
  BY <1>1, <1>2, <1>3, TypeInit, TypeNext, PTL DEF Spec

-----------------------------------------------------------------------------
(* Every way out of the talk reaps pacman, so that nobody finds his own.    *)

ReapInv ==
  /\ check.pc \in {"trust", "sync", "query"} => pac.st = "absent"
  /\ plan.pc \in {"scan", "spawn", "removeScan", "removing", "done"} => pac.st = "absent"

\* The planner's pacman is reaped wherever the next scan may find it.
LEMMA ReapNext == ASSUME TypeInv, ReapInv, Next
                  PROVE  ReapInv'
<1> USE DEF TypeInv, TypeOK, ReapInv, NoPlan, NoPacman
<1>0. check \in CheckRecs /\ plan \in PlanRecs /\ pac \in PacRecs
  OBVIOUS
<1> USE <1>0 DEF CheckRecs, PlanRecs, PacRecs
<1>1. CASE Begin \/ External
  BY <1>1 DEF Begin, WorldStays, External
<1>2. CASE CheckScan
  BY <1>2 DEF CheckScan, PacmanRunning, Ends, CheckAt, CheckStays, WorldStays
<1>3. CASE RefreshTrust \/ Sync
  BY <1>3 DEF RefreshTrust, Sync, Ends, CheckAt, CheckStays, WorldStays
<1>4. CASE Query
  <2>1. check.pc = "query" /\ pac' = pac /\ (plan' = plan \/ plan'.pc = "scan")
    BY <1>4 DEF Query, WorldStays
  <2>2. check'.pc \in {"idle", "plan"}
    BY <1>4 DEF Query, Ends
  <2>3. QED
    BY <2>1, <2>2
<1>5. CASE PlanReturns
  <2>1. plan.pc = "done" /\ pac' = pac /\ plan'.pc = "none"
    BY <1>5 DEF PlanReturns, WorldStays
  <2>2. QED
    BY <2>1
<1>6. CASE PlanKilled
  BY <1>6 DEF PlanKilled, Ends
<1>7. CASE PlanStep
  <2>1. check' = check /\ check.pc = "plan"
    <3>1. check' = check
      BY <1>7 DEF PlanStep, NoneRemoved, PlanStays, PlanScan, PlanSpawn, RemoveDone,
           AnswerKeyImport, AnswerReplace, AnswerVerified, DeclineInstall, RemovalPrompt,
           Abort, Finished, RemoveScan
    <3>2. plan.pc # "none"
      BY <1>7 DEF PlanStep, PlanScan, PlanSpawn, RemoveDone, AnswerKeyImport, AnswerReplace,
           AnswerVerified, DeclineInstall, RemovalPrompt, Abort, Finished, RemoveScan, Unparsed
    <3>3. QED
      BY <3>1, <3>2
  <2>2. CASE PlanScan \/ RemoveScan \/ RemoveDone
    BY <2>1, <2>2 DEF PlanScan, RemoveScan, RemoveDone, Returns, PlanAt
  <2>3. CASE PlanSpawn
    BY <2>1, <2>3 DEF PlanSpawn, Returns
  <2>4. CASE AnswerKeyImport \/ AnswerReplace \/ AnswerVerified \/ DeclineInstall
    BY <2>1, <2>4 DEF AnswerKeyImport, AnswerReplace, AnswerVerified, DeclineInstall,
         Unparsed, Parsed
  <2>5. CASE RemovalPrompt \/ Abort \/ Finished
    BY <2>1, <2>5 DEF RemovalPrompt, Abort, Finished, Stopped
  <2>6. QED
    BY <1>7, <2>2, <2>3, <2>4, <2>5 DEF PlanStep
<1>8. CASE PacmanStep
  BY <1>8 DEF PacmanStep, PacmanAsks, PacmanReads, PacmanEnds, OrphanReaped, PacmanStays
<1>9. QED
  BY <1>1, <1>2, <1>3, <1>4, <1>5, <1>6, <1>7, <1>8 DEF Next, CheckStep

\* A step that refuses a planner or a removal has seen a pacman of somebody else.
LEMMA RefusedStep ==
  ASSUME TypeInv, ReapInv, [Next]_vars, plan.pc \in {"scan", "removeScan"}, plan'.pc = "done"
  PROVE  ext
<1>1. plan \in PlanRecs
  BY DEF TypeInv, TypeOK
<1>2. pac.st = "absent"
  BY DEF ReapInv
<1>3. PlanScan \/ RemoveScan
  <2>1. plan' # plan /\ plan' # NoPlan
    BY <1>1 DEF NoPlan
  <2>2. ~(PacmanStep \/ External \/ Begin \/ PlanKilled \/ UNCHANGED vars)
    BY <2>1 DEF PacmanStep, PacmanAsks, PacmanReads, PacmanEnds, OrphanReaped, PacmanStays,
                External, Begin, PlanKilled, vars
  <2>3. ~CheckStep
    BY <2>1 DEF CheckStep, CheckScan, RefreshTrust, Sync, Query, PlanReturns, CheckStays, NoPlan
  <2>4. PlanStep
    BY <2>2, <2>3 DEF Next
  <2>5. QED
    BY <2>4 DEF PlanStep, PlanSpawn, AnswerKeyImport, AnswerReplace, AnswerVerified,
                DeclineInstall, RemovalPrompt, Abort, Finished, RemoveDone, Unparsed
<1>4. QED
  BY <1>1, <1>2, <1>3 DEF PlanScan, RemoveScan, PacmanRunning, PlanAt, PlanRecs

\* No check stands in its own way: a planner or its removal is refused only for
\* a pacman of somebody else (helper.rs:126, 192-206, 250).
THEOREM RefusedByOthersHolds == Spec => RefusedByOthersOnly
<1>1. Init => ReapInv
  BY DEF Init, ReapInv, NoPlan, NoPacman
<1>2. TypeInv /\ ReapInv /\ [Next]_vars => ReapInv'
  <2>1. ASSUME ReapInv, UNCHANGED vars
        PROVE  ReapInv'
    BY <2>1 DEF ReapInv, vars
  <2>2. QED
    BY <2>1, ReapNext
<1>3. TypeInv /\ ReapInv /\ [Next]_vars =>
        [plan.pc \in {"scan", "removeScan"} /\ plan'.pc = "done" => ext]_vars
  BY RefusedStep
<1>4. QED
  BY <1>1, <1>2, <1>3, TypeInit, TypeNext, PTL DEF Spec, RefusedByOthersOnly

-----------------------------------------------------------------------------
(* Classes and reports.                                                     *)

\* An automatic blocker is among the strictest only when all are automatic.
LEMMA StrictestClass ==
  ASSUME NEW blockers, NEW p \in Strictest(blockers), Class(p) = "automatic"
  PROVE  \A b \in blockers : Class(b) = "automatic"
<1> SUFFICES ASSUME NEW b \in blockers
             PROVE  Class(b) = "automatic"
  OBVIOUS
<1>1. Rank[Class(p)] <= Rank[Class(b)]
  BY DEF Strictest
<1>2. Class(b) \in {"protected", "warning", "automatic"}
  BY DEF Class
<1>3. QED
  BY <1>1, <1>2 DEF Rank

\* No removal is started whose plan found a package that must not go unasked.
THEOREM StrictestHolds == Spec => []StrictestDecides
<1>1. Init => StrictestDecides
  BY DEF Init, StrictestDecides, NoPlan
<1>2. TypeInv /\ StrictestDecides /\ [Next]_vars => StrictestDecides'
  <2> SUFFICES ASSUME TypeInv, StrictestDecides, [Next]_vars,
                      plan'.pc \in {"removeScan", "removing"}
               PROVE  \A b \in plan'.blockers : Class(b)' = "automatic"
    BY DEF StrictestDecides
  <2>1. plan \in PlanRecs
    BY DEF TypeInv, TypeOK
  <2>2. ASSUME NEW p, NEW blockers, RemovalResult(p, blockers), p \in Strictest(blockers)
        PROVE  \A b \in plan'.blockers : Class(b)' = "automatic"
    <3>1. plan'.blockers = blockers /\ plan'.valid = plan.valid /\ Class(p) = "automatic"
      BY <2>1, <2>2 DEF RemovalResult, PlanRecs
    <3>2. \A b \in blockers : Class(b) = "automatic"
      BY <2>2, <3>1, StrictestClass
    <3>3. QED
      BY <3>1, <3>2 DEF Class
  <2>3. ASSUME plan'.blockers = plan.blockers, plan'.valid = plan.valid,
               plan.pc \in {"removeScan", "removing"}
        PROVE  \A b \in plan'.blockers : Class(b)' = "automatic"
    BY <2>3 DEF StrictestDecides, Class
  <2>4. CASE UNCHANGED plan
    BY <2>3, <2>4
  <2>5. CASE RemovalPrompt
    <3>1. PICK p \in pac.pkgs : RemovalResult(p, {p})
      BY <2>5 DEF RemovalPrompt
    <3>2. p \in Strictest({p})
      <4>1. Class(p) \in {"protected", "warning", "automatic"}
        BY DEF Class
      <4>2. Rank[Class(p)] <= Rank[Class(p)]
        BY <4>1 DEF Rank
      <4>3. QED
        BY <4>2 DEF Strictest
    <3>3. QED
      BY <2>2, <3>1, <3>2
  <2>6. CASE Finished
    <3>1. \E p \in Strictest(pac.pkgs) : RemovalResult(p, pac.pkgs)
      BY <2>1, <2>6 DEF Finished, Returns, PlanAgain, NoPlan, PlanRecs
    <3>2. QED
      BY <2>2, <3>1
  <2>7. CASE RemoveScan
    BY <2>1, <2>3, <2>7 DEF RemoveScan, Returns, PlanAt, PlanRecs
  <2>8. CASE Query \/ PlanReturns \/ PlanKilled \/ PlanScan \/ PlanSpawn \/ AnswerKeyImport
               \/ AnswerReplace \/ AnswerVerified \/ DeclineInstall \/ Abort \/ RemoveDone
    <3> USE <2>1 DEF PlanRecs, NoPlan
    <3>1. CASE Query \/ PlanReturns \/ PlanKilled
      <4>1. plan' = plan \/ plan'.pc \in {"none", "scan"}
        BY <3>1 DEF Query, PlanReturns, PlanKilled
      <4>2. QED
        BY <2>4, <4>1
    <3>2. CASE PlanScan \/ PlanSpawn \/ Abort \/ RemoveDone
      <4>1. plan'.pc \in {"spawn", "talk", "done"}
        BY <3>2 DEF PlanScan, PlanSpawn, Abort, RemoveDone, Returns, PlanAt
      <4>2. QED
        BY <4>1
    <3>3. CASE AnswerKeyImport \/ AnswerReplace \/ AnswerVerified \/ DeclineInstall
      <4>1. plan'.pc = "talk"
        BY <3>3 DEF AnswerKeyImport, AnswerReplace, AnswerVerified, DeclineInstall, Unparsed,
                    Parsed
      <4>2. QED
        BY <4>1
    <3>4. QED
      BY <2>8, <3>1, <3>2, <3>3
  <2>9. CASE Begin \/ CheckScan \/ RefreshTrust \/ Sync \/ PacmanStep \/ External \/ UNCHANGED vars
    BY <2>4, <2>9 DEF Begin, CheckScan, RefreshTrust, Sync, CheckStays, PacmanStep, PacmanAsks,
         PacmanReads, PacmanEnds, OrphanReaped, PacmanStays, External, vars
  <2>10. QED
    BY <2>4, <2>5, <2>6, <2>7, <2>8, <2>9 DEF Next, CheckStep, PlanStep
<1>3. QED
  BY <1>1, <1>2, TypeInit, TypeNext, PTL DEF Spec

\* What is removed and not yet passed on is on its way in the planner's result.
OnItsWay  == IF plan.pc = "done" /\ plan.code = "removed" THEN plan.target ELSE {}
ReportInv == ~killed => removed \subseteq reported \cup OnItsWay

\* No step loses a removal that is on its way.
LEMMA ReportNext == ASSUME TypeInv, ReportInv, Next
                    PROVE  ReportInv'
<1> USE DEF ReportInv, OnItsWay
<1>1. plan \in PlanRecs
  BY DEF TypeInv, TypeOK
<1>2. CASE Begin \/ PlanKilled
  BY <1>2 DEF Begin, PlanKilled
<1>3. CASE CheckScan \/ RefreshTrust \/ Sync
  BY <1>3 DEF CheckScan, RefreshTrust, Sync, CheckStays
<1>4. CASE Query
  <2>1. plan.pc = "none" /\ UNCHANGED <<removed, reported, killed>>
    BY <1>4 DEF Query, TypeInv, TypeOK
  <2>2. QED
    BY <2>1
<1>5. CASE PlanReturns
  <2>1. plan.pc = "done" /\ UNCHANGED <<removed, killed>>
    BY <1>5 DEF PlanReturns
  <2>2. reported' = IF plan.code = "removed" THEN reported \cup plan.target ELSE reported
    BY <1>5 DEF PlanReturns, PassedOn
  <2>3. QED
    BY <2>1, <2>2
<1>6. CASE RemoveDone
  <2>1. plan.pc = "removing" /\ UNCHANGED <<reported, killed>>
    BY <1>6 DEF RemoveDone, PlanStays
  <2>2. \/ UNCHANGED removed
        \/ /\ removed' = removed \cup plan.target
           /\ plan'.pc = "done" /\ plan'.code = "removed" /\ plan'.target = plan.target
    BY <1>1, <1>6 DEF RemoveDone, Returns, PlanRecs
  <2>3. QED
    BY <2>1, <2>2
<1>7. CASE PlanScan \/ PlanSpawn \/ AnswerKeyImport \/ AnswerReplace \/ AnswerVerified
             \/ DeclineInstall \/ RemovalPrompt \/ Abort \/ Finished \/ RemoveScan
  <2>1. plan.pc # "done" /\ UNCHANGED <<removed, reported, killed>>
    BY <1>7 DEF PlanScan, PlanSpawn, AnswerKeyImport, AnswerReplace, AnswerVerified,
         DeclineInstall, RemovalPrompt, Abort, Finished, RemoveScan, Unparsed, NoneRemoved,
         PlanStays
  <2>2. QED
    BY <2>1
<1>8. CASE PacmanStep \/ External
  BY <1>8 DEF PacmanStep, PacmanAsks, PacmanReads, PacmanEnds, OrphanReaped, PacmanStays, External
<1>9. QED
  BY <1>2, <1>3, <1>4, <1>5, <1>6, <1>7, <1>8 DEF Next, CheckStep, PlanStep

\* Every package a check has removed is in its output when it ends, however
\* many rounds there were and however the last one failed (helper.rs:640-646).
THEOREM ReportHolds == Spec => []RemovalsReported
<1>1. Init => ReportInv
  BY DEF Init, ReportInv
<1>2. TypeInv /\ ReportInv /\ [Next]_vars => ReportInv'
  <2>1. ASSUME ReportInv, UNCHANGED vars
        PROVE  ReportInv'
    BY <2>1 DEF ReportInv, OnItsWay, vars
  <2>2. QED
    BY <2>1, ReportNext
<1>3. TypeInv /\ ReportInv => RemovalsReported
  BY DEF TypeInv, TypeOK, ReportInv, OnItsWay, RemovalsReported
<1>4. QED
  BY <1>1, <1>2, <1>3, TypeInit, TypeNext, PTL DEF Spec
=============================================================================

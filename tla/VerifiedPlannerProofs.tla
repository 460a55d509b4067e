------------------------ MODULE VerifiedPlannerProofs ------------------------
(* The planner with its verifications: what is proved of the planner holds   *)
(* of it, and no package takes the place of another one unverified.          *)
EXTENDS VerifiedPlanner, CheckPlannerProofs

LEMMA StepImplements == [VerifiedNext]_verifiedVars => [Next]_vars
<1>1. PacmanStepChosen => PacmanStep BY DEF PacmanStepChosen
<1>2. VerifiedPlanStep => PlanStep \/ UNCHANGED vars
      BY DEF VerifiedPlanStep, BeginVerification, AcceptConflict, RemoveBlocker, GiveUp,
             OtherPlanStep, Verification, PlanStep
<1>3. KilledMeanwhile => PlanKilled BY DEF KilledMeanwhile
<1>4. UNCHANGED verifiedVars => UNCHANGED vars BY DEF verifiedVars
<1> QED BY <1>1, <1>2, <1>3, <1>4 DEF VerifiedNext, Next

\* Whatever a verification finds, and however long it takes, the planner and its
\* pacman do what CheckPlanner describes (helper.rs:249-418).
THEOREM ImplementsPlanner == VerifiedSpec => Spec
<1>1. VerifiedInit => Init BY DEF VerifiedInit
<1> QED BY <1>1, StepImplements, PTL DEF VerifiedSpec, Spec

\* A check for updates installs nothing, conflicts that are verified included.
THEOREM VerifiedDryRun == VerifiedSpec => []DryRun
  BY ImplementsPlanner, DryRunHolds, PTL

-----------------------------------------------------------------------------
(* The verification by itself.                                              *)

VerPcs == {"idle", "select", "servers", "sync", "compare", "fetch", "read",
           "approved", "declined"}

VerTypeOK == /\ ver \in [pc : VerPcs, trusted : SUBSET Builds, archive : SUBSET Builds]
             /\ chosen \in Choices \cup {NoChoice}
             /\ published \subseteq offered /\ offered \subseteq Signed

\* What every stage knows of the build that pacman has chosen.
Knowledge ==
  /\ ver.pc \in {"servers", "sync", "compare", "fetch", "read", "approved"} => chosen.claims
  /\ ver.pc \in {"compare", "fetch", "read", "approved"} => ver.trusted \subseteq offered
  /\ ver.pc \in {"fetch", "read", "approved"} => ver.trusted = {chosen.build}
  /\ ver.pc \in {"read", "approved"} => ver.archive = ver.trusted
  /\ ver.pc = "approved" => ver.archive \subseteq Eligible

VerInv == VerTypeOK /\ Knowledge

Consent == /\ chosen.claims /\ chosen.build \in Signed \cap Eligible
           /\ chosen.build \in offered

LEMMA NoneInv == NoVer \in [pc : VerPcs, trusted : SUBSET Builds, archive : SUBSET Builds]
                 /\ NoVer.pc = "idle"
  BY DEF NoVer, VerPcs

LEMMA AsksInv == ASSUME NEW choice \in Choices \cup {NoChoice}, Asks(choice) PROVE VerInv'
  BY NoneInv DEF Asks, VerInv, VerTypeOK, Knowledge

LEMMA VerStepInv == ASSUME VerInv, VerStep \/ VerifyBegins \/ Publishes PROVE VerInv'
<1> USE ConflictAssumption DEF VerInv, VerTypeOK, Knowledge, VerPcs, WorldStands, VerAt, Decline
<1>1. CASE CommandFails BY <1>1 DEF CommandFails
<1>2. CASE Select BY <1>2 DEF Select
<1>3. CASE ReadServers BY <1>3 DEF ReadServers
<1>4. CASE SyncTrusted BY <1>4 DEF SyncTrusted
<1>5. CASE Compare BY <1>5 DEF Compare, SameIdentity
<1>6. CASE Fetch BY <1>6 DEF Fetch
<1>7. CASE ReadMetadata BY <1>7 DEF ReadMetadata, EligibleMetadata
<1>8. CASE VerifyBegins BY <1>8 DEF VerifyBegins
<1>9. CASE Publishes BY <1>9 DEF Publishes
<1> QED BY <1>1, <1>2, <1>3, <1>4, <1>5, <1>6, <1>7, <1>8, <1>9 DEF VerStep

\* A verdict is about the build that pacman has chosen.
LEMMA ApprovedConsent == VerInv /\ Approved => Consent
  BY DEF VerInv, VerTypeOK, Knowledge, Approved, Consent

LEMMA VerInvNext == VerInv /\ [VerifiedNext]_verifiedVars => VerInv'
<1> SUFFICES ASSUME VerInv, [VerifiedNext]_verifiedVars PROVE VerInv' OBVIOUS
<1>1. ASSUME UNCHANGED verVars PROVE VerInv'
      BY <1>1 DEF verVars, VerInv, VerTypeOK, Knowledge
<1>2. ASSUME ver' = NoVer, UNCHANGED <<chosen, published, offered>> PROVE VerInv'
      BY <1>2, NoneInv DEF VerInv, VerTypeOK, Knowledge
<1>3. PacmanStepChosen => VerInv'
      BY <1>1, AsksInv DEF PacmanStepChosen
<1>4. VerifiedPlanStep => VerInv'
      BY <1>1, <1>2, AsksInv, VerStepInv
      DEF VerifiedPlanStep, BeginVerification, AcceptConflict, RemoveBlocker, GiveUp,
          OtherPlanStep, Verification
<1>5. KilledMeanwhile => VerInv' BY <1>2 DEF KilledMeanwhile
<1>6. Publishes => VerInv' BY VerStepInv
<1> QED BY <1>1, <1>3, <1>4, <1>5, <1>6 DEF VerifiedNext, verifiedVars

-----------------------------------------------------------------------------
(* A yes on its way to a conflict has been approved, and nothing is said to *)
(* a conflict that the planner has not dealt with.                          *)

AtConflict == pac.st = "asking" /\ LastAsked = "conflict"

YesInv == /\ AtConflict /\ pac.input = <<"y">> => Consent
          /\ plan.pc = "talk" /\ pac.st = "asking" /\ plan.parsed < Len(pac.asked)
               => pac.input # <<"y">>

Inv == TypeInv /\ TalkInv /\ ReapInv /\ VerInv /\ YesInv

\* Steps that change nothing that pacman reads.
LEMMA QuietYes ==
  ASSUME YesInv, pac'.st = pac.st, pac'.asked = pac.asked, pac'.input = pac.input,
         Consent => Consent',
         plan'.pc = "talk" => plan.pc = "talk" /\ plan'.parsed = plan.parsed
  PROVE  YesInv'
  BY DEF YesInv, AtConflict, LastAsked

\* Steps after which no pacman waits for an answer.
LEMMA NotAskingYes == ASSUME pac'.st # "asking" PROVE YesInv'
  BY DEF YesInv, AtConflict

\* The check, and a planner that is killed.
LEMMA CheckYes ==
  ASSUME Inv, ((Begin \/ CheckStep \/ External) /\ UNCHANGED verVars) \/ KilledMeanwhile
  PROVE  YesInv'
<1> USE DEF Inv, TypeInv, TypeOK
<1>1. Consent => Consent' BY DEF verVars, KilledMeanwhile, Consent
<1>2. /\ pac'.st = pac.st /\ pac'.asked = pac.asked /\ pac'.input = pac.input
      BY DEF Begin, CheckStep, External, CheckScan, RefreshTrust, Sync, Query, PlanReturns,
             CheckStays, WorldStays, KilledMeanwhile, PlanKilled, PacRecs
<1>3. plan' = plan \/ plan' = NoPlan \/ plan' = [NoPlan EXCEPT !.pc = "scan"]
      BY DEF Begin, CheckStep, External, CheckScan, RefreshTrust, Sync, Query, PlanReturns,
             CheckStays, WorldStays, KilledMeanwhile, PlanKilled
<1>4. plan'.pc = "talk" => plan.pc = "talk" /\ plan'.parsed = plan.parsed
      BY <1>3 DEF NoPlan
<1> QED BY <1>1, <1>2, <1>4, QuietYes

LEMMA PacmanYes == ASSUME Inv, PacmanStepChosen PROVE YesInv'
<1> USE DEF Inv
<1>1. CASE PacmanAsks
  <2>1. pac.st = "running" /\ pac.input = <<>> BY <1>1 DEF PacmanAsks, TalkInv, PipeInv
  <2>2. pac'.input = <<>>
        BY <1>1, <2>1 DEF PacmanAsks, TypeInv, TypeOK, PacRecs
  <2> QED BY <2>2 DEF YesInv
<1>2. CASE PacmanReads
  <2>1. pac'.st \in {"running", "exited"}
        BY <1>2 DEF PacmanReads, TypeInv, TypeOK, PacRecs
  <2> QED BY <2>1, NotAskingYes
<1>3. CASE PacmanEnds
  <2>1. pac'.st = "exited" BY <1>3 DEF PacmanEnds, TypeInv, TypeOK, PacRecs
  <2> QED BY <2>1, NotAskingYes
<1>4. CASE OrphanReaped BY <1>4, NotAskingYes DEF OrphanReaped, NoPacman
<1> QED BY <1>1, <1>2, <1>3, <1>4 DEF PacmanStepChosen, PacmanStep

\* An answer goes to the question that pacman waits at.
LEMMA AnswerYes ==
  ASSUME Inv, AcceptConflict \/ (UNCHANGED verVars /\ (AnswerKeyImport \/ AnswerReplace
                                                       \/ DeclineInstall))
  PROVE  YesInv'
<1> USE DEF Inv, TypeInv, TypeOK
<1>1. /\ plan.pc = "talk" /\ plan'.pc = "talk" /\ plan.parsed < Len(pac.asked)
      /\ ~pac.eof /\ pac.st # "exited" /\ pac'.st = pac.st /\ pac'.asked = pac.asked
      BY DEF AcceptConflict, AnswerKeyImport, AnswerReplace, AnswerVerified, DeclineInstall,
             Unparsed, Parsed, Wrote, PlanRecs, PacRecs
<1>2. pac.asked \in Seq(Questions) /\ Len(pac.asked) \in Nat /\ plan.parsed \in Nat
      BY DEF PacRecs, PlanRecs
<1>3. CASE pac.st # "asking" BY <1>1, <1>3, NotAskingYes
<1>4. CASE pac.st = "asking"
  <2>1. plan.parsed + 1 = Len(pac.asked) /\ pac.input = <<>>
        BY <1>1, <1>2, <1>4 DEF TalkInv, SearchInv
  <2>2. CASE AcceptConflict
    <3>1. Consent' BY <2>2, ApprovedConsent DEF AcceptConflict, Consent
    <3>2. plan'.parsed = Len(pac'.asked)
          BY <1>1, <1>2, <2>1, <2>2 DEF AcceptConflict, AnswerVerified, Parsed, PlanRecs
    <3> QED BY <1>1, <1>2, <3>1, <3>2 DEF YesInv
  <2>3. CASE AnswerReplace
    <3>1. LastAsked' = "replace"
          BY <1>1, <2>1, <2>3 DEF AnswerReplace, Unparsed, LastAsked
    <3>2. plan'.parsed = Len(pac'.asked)
          BY <1>1, <1>2, <2>1, <2>3 DEF AnswerReplace, Parsed, PlanRecs
    <3> QED BY <1>1, <1>2, <3>1, <3>2 DEF YesInv, AtConflict
  <2>4. CASE AnswerKeyImport \/ DeclineInstall
    <3>1. pac'.input = Append(pac.input, "n")
          BY <2>4 DEF AnswerKeyImport, DeclineInstall, Wrote, PacRecs
    <3>2. Append(<<>>, "n") = <<"n">> /\ <<"n">> # <<"y">> OBVIOUS
    <3> QED BY <2>1, <3>1, <3>2 DEF YesInv
  <2> QED BY <2>2, <2>3, <2>4
<1> QED BY <1>3, <1>4

LEMMA PlannerYes == ASSUME Inv, VerifiedPlanStep PROVE YesInv'
<1> USE DEF Inv
<1>1. CASE BeginVerification
  <2>1. UNCHANGED <<plan, pac>> /\ Unparsed("conflict") /\ pac.st = "asking"
        BY <1>1 DEF BeginVerification, PackageConflict, vars
  <2>2. pac.input # <<"y">> BY <2>1 DEF YesInv, Unparsed
  <2> QED BY <2>1, <2>2 DEF YesInv
<1>2. CASE Verification
  <2>1. UNCHANGED <<plan, pac, chosen, offered>>
        BY <1>2 DEF Verification, vars, VerStep, CommandFails, Select, ReadServers,
                    SyncTrusted, Compare, Fetch, ReadMetadata, EligibleMetadata, WorldStands
  <2> QED BY <2>1 DEF YesInv, AtConflict, LastAsked, Consent
<1>3. CASE AcceptConflict BY <1>3, AnswerYes
<1>4. CASE RemoveBlocker \/ GiveUp
      BY <1>4, NotAskingYes
      DEF RemoveBlocker, GiveUp, RemovalPrompt, Abort, Stopped, NoPacman
<1>5. CASE OtherPlanStep
  <2>1. CASE AnswerKeyImport \/ AnswerReplace \/ DeclineInstall
        BY <1>5, <2>1, AnswerYes DEF OtherPlanStep
  <2>2. CASE PlanScan \/ RemoveScan \/ RemoveDone
        BY <2>2, NotAskingYes DEF PlanScan, RemoveScan, RemoveDone, ReapInv
  <2>3. CASE PlanSpawn
        BY <2>3, NotAskingYes DEF PlanSpawn, ReapInv, NoPacman
  <2>4. CASE Finished BY <2>4, NotAskingYes DEF Finished, NoPacman
  <2> QED BY <1>5, <2>1, <2>2, <2>3, <2>4 DEF OtherPlanStep
<1> QED BY <1>1, <1>2, <1>3, <1>4, <1>5 DEF VerifiedPlanStep

LEMMA InvNext == Inv /\ [VerifiedNext]_verifiedVars => Inv'
<1> SUFFICES ASSUME Inv, [VerifiedNext]_verifiedVars PROVE Inv' OBVIOUS
<1>1. [Next]_vars BY StepImplements
<1>2. TypeInv' BY <1>1, TypeNext DEF Inv
<1>3. TalkInv'
  <2>1. CASE UNCHANGED vars
        BY <2>1 DEF Inv, vars, TalkInv, PipeInv, SearchInv, DryRun, LastAsked
  <2> QED BY <1>1, <2>1, TalkElsewhere, TalkAnswers, TalkPacman
          DEF Inv, Next, PlanStep, PacmanStep
<1>4. ReapInv'
  <2>1. CASE UNCHANGED vars BY <2>1 DEF Inv, vars, ReapInv
  <2> QED BY <1>1, <2>1, ReapNext DEF Inv
<1>5. VerInv' BY VerInvNext DEF Inv
<1>6. YesInv'
  <2>1. CASE UNCHANGED verifiedVars
        BY <2>1 DEF Inv, verifiedVars, vars, verVars, YesInv, AtConflict, LastAsked, Consent
  <2>2. CASE Publishes /\ UNCHANGED vars
        BY <2>2 DEF Inv, Publishes, vars, YesInv, AtConflict, LastAsked, Consent
  <2> QED BY <2>1, <2>2, CheckYes, PacmanYes, PlannerYes DEF VerifiedNext
<1> QED BY <1>2, <1>3, <1>4, <1>5, <1>6 DEF Inv

LEMMA InvInit == VerifiedInit => Inv
<1> SUFFICES ASSUME VerifiedInit PROVE Inv OBVIOUS
<1>1. TypeInv BY TypeInit DEF VerifiedInit
<1>2. TalkInv /\ ReapInv
      BY DEF VerifiedInit, Init, TalkInv, PipeInv, SearchInv, DryRun, ReapInv, NoPlan, NoPacman
<1>3. VerInv BY NoneInv DEF VerifiedInit, VerInit, VerInv, VerTypeOK, Knowledge
<1>4. YesInv BY DEF VerifiedInit, Init, YesInv, AtConflict, NoPacman, NoPlan
<1> QED BY <1>1, <1>2, <1>3, <1>4 DEF Inv

\* A yes that pacman reads at a conflict finds it approved.
LEMMA ConsentStep ==
  ASSUME Inv, [VerifiedNext]_verifiedVars, pac.st = "asking",
         pac.asked[Len(pac.asked)] = "conflict", pac'.st = "running"
  PROVE  Consent
<1> USE DEF Inv, TypeInv, TypeOK
<1>1. PacmanReads
  <2>1. ~PlanSpawn BY DEF PlanSpawn, ReapInv
  <2>2. ~(PacmanAsks \/ PacmanEnds \/ OrphanReaped)
        BY DEF PacmanAsks, PacmanEnds, OrphanReaped
  <2>3. ~(UNCHANGED vars) BY DEF vars
  <2>4. ~(Begin \/ CheckStep \/ PlanKilled \/ External)
        BY DEF Begin, CheckStep, External, CheckScan, RefreshTrust, Sync, Query, PlanReturns,
               CheckStays, WorldStays, PlanKilled, PacRecs
  <2>5. ~(PlanScan \/ AnswerKeyImport \/ AnswerReplace \/ AnswerVerified \/ DeclineInstall
          \/ RemovalPrompt \/ Abort \/ Finished \/ RemoveScan \/ RemoveDone)
    <3>1. ~(PlanScan \/ RemoveScan \/ RemoveDone)
          BY DEF PlanScan, RemoveScan, RemoveDone
    <3>2. ~(AnswerKeyImport \/ AnswerReplace \/ AnswerVerified \/ DeclineInstall)
          BY DEF AnswerKeyImport, AnswerReplace, AnswerVerified, DeclineInstall, Wrote, PacRecs
    <3>3. ~(RemovalPrompt \/ Abort \/ Finished)
          BY DEF RemovalPrompt, Abort, Finished, Stopped, NoPacman
    <3> QED BY <3>1, <3>2, <3>3
  <2> QED BY <2>1, <2>2, <2>3, <2>4, <2>5, StepImplements DEF Next, PlanStep, PacmanStep
<1>2. pac.input = <<"y">>
  <2>1. pac.input \in {<<>>, <<"n">>, <<"y">>} BY DEF TalkInv, PipeInv
  <2>2. Head(<<"n">>) = "n" OBVIOUS
  <2> QED BY <1>1, <2>1, <2>2 DEF PacmanReads, PacRecs
<1> QED BY <1>2 DEF YesInv, AtConflict, LastAsked

\* For any number of questions and of builds that FluffNet publishes meanwhile:
\* pacman reads a yes to a conflict only when the build of its own database has
\* been offered, signed, since the question, and says who made it
\* (conflict.rs:72-241, helper.rs:328-347).
THEOREM ConsentHolds == VerifiedSpec => ConsentVerified
<1>1. Inv /\ [VerifiedNext]_verifiedVars =>
        [pac.st = "asking" /\ pac.asked[Len(pac.asked)] = "conflict" /\ pac'.st = "running"
         => /\ chosen.claims /\ chosen.build \in Signed \cap Eligible
            /\ chosen.build \in offered]_verifiedVars
      BY ConsentStep DEF Consent
<1> QED BY <1>1, InvInit, InvNext, PTL DEF VerifiedSpec, ConsentVerified
=============================================================================

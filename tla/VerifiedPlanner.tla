-------------------------- MODULE VerifiedPlanner --------------------------
(***************************************************************************)
(* The planner of CheckPlanner with the verification of ConflictCheck that *)
(* decides about its conflict questions (helper.rs:328-347).  It waits for *)
(* the verdict while pacman waits for its answer; when the planner is      *)
(* killed meanwhile, the pacman of its verification is somebody else's.    *)
(***************************************************************************)
EXTENDS CheckPlanner, ConflictCheck

verifiedVars == <<vars, verVars>>

VerifiedInit == Init /\ VerInit

\* A conflict comes with what pacman's database offers in its place.
AskedConflict == pac'.st = "asking" /\ pac'.asked[Len(pac'.asked)] = "conflict"

PacmanStepChosen ==
  /\ PacmanStep
  /\ IF pac.st = "running" /\ AskedConflict
     THEN \E choice \in Choices : Asks(choice)
     ELSE IF pac.st = "asking" THEN Asks(NoChoice) ELSE UNCHANGED verVars

\* package_conflict(): the question, of the form with one incoming package.
PackageConflict == Unparsed("conflict") /\ pac.fault = "none"

\* It is verified; once pacman is gone the verdict does not matter.
BeginVerification == /\ PackageConflict /\ pac.st = "asking"
                     /\ VerifyBegins /\ UNCHANGED vars

Approved == ver.pc = "approved"

AcceptConflict == AnswerVerified /\ Approved /\ ver' = NoVer
                  /\ UNCHANGED <<chosen, published, offered>>

\* Declined, or a question of another form.
RemoveBlocker == RemovalPrompt /\ ver.pc \in {"idle", "declined"} /\ Asks(NoChoice)

\* The yes may come too late to be written.
GiveUp == Abort /\ ver.pc \in {"idle", "approved"} /\ Asks(NoChoice)

OtherPlanStep == /\ \/ PlanScan \/ PlanSpawn \/ AnswerKeyImport \/ AnswerReplace
                    \/ DeclineInstall \/ Finished \/ RemoveScan \/ RemoveDone
                 /\ ver.pc = "idle" /\ UNCHANGED verVars

Verification == VerStep /\ UNCHANGED vars
VerifiedPlanStep == \/ BeginVerification \/ AcceptConflict \/ RemoveBlocker \/ GiveUp
                    \/ OtherPlanStep \/ Verification

\* 150 s are over while the planner waits for pacman or for a verdict.
KilledMeanwhile == PlanKilled /\ ver' = NoVer /\ UNCHANGED <<chosen, published, offered>>

VerifiedNext == \/ (Begin \/ CheckStep \/ External) /\ UNCHANGED verVars
                \/ KilledMeanwhile \/ PacmanStepChosen \/ VerifiedPlanStep
                \/ Publishes /\ UNCHANGED vars
VerifiedSpec == VerifiedInit /\ [][VerifiedNext]_verifiedVars

\* Every command of a verification has a timeout (ProcessIO: CallEnds).
VerifiedFairness == /\ WF_verifiedVars(CheckStep /\ UNCHANGED verVars)
                    /\ WF_verifiedVars(VerifiedPlanStep) /\ WF_verifiedVars(PacmanStepChosen)
VerifiedFairSpec == VerifiedSpec /\ VerifiedFairness

-----------------------------------------------------------------------------

\* When pacman reads a yes to a conflict, the build that its own database would
\* put in the place of an installed package is one that FluffNet offered, signed,
\* since that question was put, and its archive says who made it: neither another
\* build of the same version, nor one that was withdrawn before, nor a yes that
\* was meant for an earlier question (conflict.rs:72-241, helper.rs:328-347).
ConsentVerified ==
  [][pac.st = "asking" /\ pac.asked[Len(pac.asked)] = "conflict" /\ pac'.st = "running"
     => /\ chosen.claims /\ chosen.build \in Signed \cap Eligible
        /\ chosen.build \in offered]_verifiedVars
=============================================================================

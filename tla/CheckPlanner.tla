---------------------------- MODULE CheckPlanner ----------------------------
(***************************************************************************)
(* A check for updates (flu-service/src/helper.rs): check_updates          *)
(* synchronizes a private database and has another helper process plan the *)
(* transaction.  The planner talks to a pacman -Su that must not install   *)
(* anything; packages in the way are reported, or removed for good when    *)
(* their class allows it, and then the planning starts again.              *)
(***************************************************************************)
EXTENDS Naturals, Sequences

CONSTANTS Pkgs,        \* installed packages that may be in the way
          Protected,   \* those the policy protects,
          Warning,     \* and those it wants the user to be asked about
          MaxRounds,   \* 128 in the code (helper.rs:603)
          MaxPrompts,  \* bound: questions of one pacman before the last one
          Perils       \* which of AllPerils the environment shows

(***************************************************************************)
(* external : somebody else may run pacman at any time                     *)
(* slow     : a planner may take more than the 150 s it is given           *)
(***************************************************************************)
AllPerils == {"external", "slow"}

ASSUME PlannerAssumption == /\ MaxRounds \in Nat \ {0} /\ MaxPrompts \in Nat
                            /\ Perils \subseteq AllPerils

VARIABLES
  check,     \* the helper of the check: where it is, rounds, key recovered
  plan,      \* the planner it has started
  pac,       \* the planner's pacman, with its questions and its input
  ext,       \* a pacman of somebody else runs
  inWay,     \* packages that are still installed
  removed,   \* history: packages this check has removed
  reported,  \* history: packages that its output names as removed
  killed,    \* history: a planner of this check was killed
  touched    \* history: a planner's pacman has changed the system
vars == <<check, plan, pac, ext, inWay, removed, reported, killed, touched>>

Questions == {"key", "replace", "conflict", "proceed"}
Faults    == {"none", "key", "operational"}
Codes     == {"none", "protected", "warning", "removalFailed", "removed", "key",
              "aborted", "busy", "error", "planned", "trust", "nothing"}
NoPlan    == [pc |-> "none", retry |-> FALSE, valid |-> TRUE, parsed |-> 0,
              said |-> FALSE, blockers |-> {}, target |-> {}, code |-> "none"]
NoPacman  == [st |-> "absent", asked |-> <<>>, pkgs |-> {}, input |-> <<>>,
              eof |-> FALSE, fault |-> "none", ok |-> FALSE]

Init == /\ check = [pc |-> "idle", rounds |-> 0, recovered |-> FALSE, code |-> "none"]
        /\ plan = NoPlan /\ pac = NoPacman
        /\ ext = FALSE /\ inWay = Pkgs
        /\ removed = {} /\ reported = {} /\ killed = FALSE /\ touched = FALSE

\* The planner's pacman counts until it is reaped, by init if nobody else does.
PacmanRunning == ext \/ pac.st # "absent"

-----------------------------------------------------------------------------
(* check_updates.                                                          *)

CheckAt(pc)  == check' = [check EXCEPT !.pc = pc]
Ends(code)   == check' = [check EXCEPT !.pc = "idle", !.code = code]
WorldStays   == UNCHANGED <<pac, ext, inWay, touched>>
CheckStays   == WorldStays /\ UNCHANGED <<plan, removed, reported, killed>>

Begin == /\ check.pc = "idle"
         /\ check' = [pc |-> "scan", rounds |-> 0, recovered |-> FALSE, code |-> "none"]
         /\ removed' = {} /\ reported' = {} /\ killed' = FALSE
         /\ WorldStays /\ UNCHANGED plan

CheckScan == /\ check.pc = "scan"
             /\ IF PacmanRunning THEN Ends("busy") ELSE CheckAt("trust")
             /\ CheckStays

\* pacman-key --updatedb, and a private database with a link to the local one.
RefreshTrust == /\ check.pc = "trust"
                /\ CheckAt("sync") \/ Ends("trust") \/ Ends("error")
                /\ CheckStays

\* pacman -Sy; a key is recovered for it once.
Sync == /\ check.pc = "sync"
        /\ \/ CheckAt("query")
           \/ ~check.recovered /\ check' = [check EXCEPT !.recovered = TRUE]
           \/ ~check.recovered /\ Ends("key")
           \/ Ends("error")
        /\ CheckStays

\* pacman -Qu: nothing to do, or a planner is started.
Query == /\ check.pc = "query"
         /\ \/ (Ends("error") \/ Ends("nothing")) /\ UNCHANGED plan
            \/ /\ check' = [check EXCEPT !.pc = "plan", !.rounds = @ + 1]
               /\ plan' = [NoPlan EXCEPT !.pc = "scan"]
         /\ WorldStays /\ UNCHANGED <<removed, reported, killed>>

\* Mutant: what a round removed is lost with its output.
KeptBack(packages) == {}

\* The FLU_AUTOREMOVED lines of the planner are passed on in every round.
PassedOn(packages) == packages

\* Mutant: there is always another round.
NoLimit == TRUE

RoundsLeft == check.rounds < MaxRounds

\* The planner is done: after an automatic removal there is another round.
PlanReturns ==
  /\ check.pc = "plan" /\ plan.pc = "done"
  /\ IF plan.code = "removed"
     THEN /\ reported' = reported \cup PassedOn(plan.target)
          /\ IF RoundsLeft THEN CheckAt("query") ELSE Ends("error")
     ELSE Ends(plan.code) /\ UNCHANGED reported
  /\ plan' = NoPlan
  /\ WorldStays /\ UNCHANGED <<removed, killed>>

\* 150 s are over: the planner is killed.  Its pacman loses its input; a
\* removal under way is done all the same, or not.
PlanKilled ==
  /\ "slow" \in Perils /\ check.pc = "plan" /\ plan.pc # "done"
  /\ Ends("error")
  /\ plan' = NoPlan /\ killed' = TRUE
  /\ pac' = IF pac.st = "absent" THEN pac ELSE [pac EXCEPT !.eof = TRUE]
  /\ \E gone \in {{}, IF plan.pc = "removing" THEN plan.target ELSE {}} :
       inWay' = inWay \ gone /\ removed' = removed \cup gone
  /\ UNCHANGED <<ext, reported, touched>>

CheckStep == CheckScan \/ RefreshTrust \/ Sync \/ Query \/ PlanReturns

-----------------------------------------------------------------------------
(* plan_transaction.                                                       *)

PlanAt(pc)    == plan' = [plan EXCEPT !.pc = pc]
Returns(code) == plan' = [plan EXCEPT !.pc = "done", !.code = code]
PlanStays     == UNCHANGED <<check, ext, reported, killed, touched>>
NoneRemoved   == PlanStays /\ UNCHANGED <<inWay, removed>>

PlanScan == /\ plan.pc = "scan"
            /\ IF PacmanRunning THEN Returns("busy") ELSE PlanAt("spawn")
            /\ NoneRemoved /\ UNCHANGED pac

\* pacman is started; the policy is read, or cannot be.
PlanSpawn == /\ plan.pc = "spawn"
             /\ \/ Returns("error") /\ UNCHANGED pac
                \/ /\ \E valid \in BOOLEAN : plan' = [plan EXCEPT !.pc = "talk", !.valid = valid]
                   /\ \E fault \in Faults :
                        pac' = [NoPacman EXCEPT !.st = "running", !.fault = fault]
             /\ NoneRemoved

\* The question that was printed and is not dealt with yet.
Unparsed(question) == /\ plan.pc = "talk" /\ plan.parsed < Len(pac.asked)
                      /\ pac.asked[plan.parsed + 1] = question

\* answer(): the input must not have been closed by an earlier answer.
Wrote(answer, close) == /\ ~pac.eof /\ pac.st # "exited"
                        /\ pac' = [pac EXCEPT !.input = Append(@, answer), !.eof = close]

\* Mutant: the question is found again by the next search.
ParsedForgotten == UNCHANGED plan

\* The next search begins behind the question.
Parsed == plan' = [plan EXCEPT !.parsed = @ + 1]

AnswerKeyImport == Unparsed("key") /\ Wrote("n", TRUE) /\ Parsed /\ NoneRemoved
AnswerReplace   == Unparsed("replace") /\ Wrote("y", FALSE) /\ Parsed /\ NoneRemoved

\* A verified FluffNet package may take the place of another one: only the
\* installation itself removes that.
AnswerVerified  == /\ Unparsed("conflict") /\ pac.fault = "none"
                   /\ Wrote("y", FALSE) /\ Parsed /\ NoneRemoved

\* The last question is answered once, and never skipped.
DeclineInstall  == /\ Unparsed("proceed") /\ ~plan.said
                   /\ Wrote("n", TRUE)
                   /\ plan' = [plan EXCEPT !.said = TRUE] /\ NoneRemoved

\* Mutant: the pacman is left to itself.
LeftAlone == UNCHANGED pac

\* stop_planner: the pacman is killed and reaped.
Stopped == pac' = NoPacman

\* abort_planner: 120 s or 8 MiB are over, an answer cannot be written, or a
\* removal is asked for after something went wrong.
Abort == plan.pc = "talk" /\ Stopped /\ Returns("aborted") /\ NoneRemoved

\* Policy::classify.
Class(p) == CASE ~plan.valid \/ p \in Protected -> "protected"
              [] plan.valid /\ p \in Warning \ Protected -> "warning"
              [] OTHER -> "automatic"
Rank == [protected |-> 0, warning |-> 1, automatic |-> 2]

\* removal_result: protected and warning packages are the panel's business.
RemovalResult(p, blockers) ==
  plan' = IF Class(p) = "automatic"
          THEN [plan EXCEPT !.pc = "removeScan", !.blockers = blockers, !.target = {p}]
          ELSE [plan EXCEPT !.pc = "done", !.code = Class(p)]

RemovalPrompt == /\ Unparsed("conflict") /\ pac.fault = "none"
                 /\ \E p \in pac.pkgs : RemovalResult(p, {p})
                 /\ Stopped /\ NoneRemoved

\* Mutant: the second failure starts another recovery.
RetryForgotten == plan' = [NoPlan EXCEPT !.pc = "scan"]

\* After a recovered key the planner calls itself with the retry flag set.
PlanAgain == plan' = [NoPlan EXCEPT !.pc = "scan", !.retry = TRUE]

\* Mutant: any blocker will do.
AnyOf(blockers) == blockers

\* Blockers of the strictest class.
Strictest(blockers) ==
  {b \in blockers : \A c \in blockers : Rank[Class(b)] <= Rank[Class(c)]}

\* pacman has ended and is reaped; the planner looks at what it has printed.
Finished ==
  /\ plan.pc = "talk" /\ pac.st = "exited"
  /\ pac' = NoPacman
  /\ CASE ~pac.ok /\ pac.fault = "key" -> (~plan.retry /\ PlanAgain) \/ Returns("key")
       [] ~pac.ok /\ pac.fault = "operational" -> Returns("error")
       [] ~pac.ok /\ pac.fault = "none" /\ pac.pkgs # {} ->
            \E p \in Strictest(pac.pkgs) : RemovalResult(p, pac.pkgs)
       [] OTHER -> Returns("planned")
  /\ NoneRemoved

\* remove_package: see UpdateSession for its lock.
RemoveScan == /\ plan.pc = "removeScan"
              /\ IF PacmanRunning THEN Returns("removalFailed") ELSE PlanAt("removing")
              /\ NoneRemoved /\ UNCHANGED pac

RemoveDone == /\ plan.pc = "removing"
              /\ \/ /\ inWay' = inWay \ plan.target /\ removed' = removed \cup plan.target
                    /\ Returns("removed")
                 \/ Returns("removalFailed") /\ UNCHANGED <<inWay, removed>>
              /\ PlanStays /\ UNCHANGED pac

PlanStep == \/ PlanScan \/ PlanSpawn \/ AnswerKeyImport \/ AnswerReplace
            \/ AnswerVerified \/ DeclineInstall \/ RemovalPrompt \/ Abort
            \/ Finished \/ RemoveScan \/ RemoveDone

-----------------------------------------------------------------------------
(* The planner's pacman: it asks, waits, and takes the end of its input    *)
(* for a no.  ok stands for exit status 0 and a usable database, fault for *)
(* what may_recover_key and classify make of its output.                   *)

PacmanStays == UNCHANGED <<check, plan, ext, inWay, removed, reported, killed>>

PacmanAsks ==
  /\ pac.st = "running"
  /\ \E question \in Questions :
       /\ question # "proceed" => Len(pac.asked) < MaxPrompts
       /\ \E pkgs \in IF question = "conflict" THEN {{p} : p \in inWay} ELSE {{}} :
            pac' = [pac EXCEPT !.st = "asking", !.asked = Append(@, question),
                               !.pkgs = pkgs,
                               !.fault = IF question = "key" /\ @ = "none" THEN question ELSE @]
  /\ PacmanStays /\ UNCHANGED touched

PacmanReads ==
  /\ pac.st = "asking" /\ (pac.input # <<>> \/ pac.eof)
  /\ LET answer   == IF pac.input = <<>> THEN "n" ELSE Head(pac.input)
         question == pac.asked[Len(pac.asked)]
         read     == [pac EXCEPT !.input = IF @ = <<>> THEN @ ELSE Tail(@), !.pkgs = {}]
     IN  /\ pac' = CASE question = "proceed" ->
                          [read EXCEPT !.st = "exited", !.ok = answer = "y"]
                     [] question = "conflict" /\ answer = "n" -> [read EXCEPT !.st = "exited"]
                     [] OTHER -> [read EXCEPT !.st = "running"]
         /\ touched' = (touched \/ (question = "proceed" /\ answer = "y"))
  /\ PacmanStays

\* It ends without the last question: nothing to do, an error, or packages
\* that break its dependencies.
PacmanEnds ==
  /\ pac.st = "running"
  /\ \/ pac' = [pac EXCEPT !.st = "exited", !.ok = TRUE]
     \/ \E fault \in {pac.fault, "key", "operational"} :
          pac' = [pac EXCEPT !.st = "exited", !.fault = fault]
     \/ \E blockers \in SUBSET inWay :
          pac' = [pac EXCEPT !.st = "exited", !.pkgs = blockers]
  /\ PacmanStays /\ UNCHANGED touched

\* A killed planner's pacman is reaped by init.
OrphanReaped == /\ pac.st = "exited" /\ plan.pc = "none"
                /\ pac' = NoPacman /\ PacmanStays /\ UNCHANGED touched

PacmanStep == PacmanAsks \/ PacmanReads \/ PacmanEnds \/ OrphanReaped

External == /\ "external" \in Perils /\ ext' = ~ext
            /\ UNCHANGED <<check, plan, pac, inWay, removed, reported, killed, touched>>

Next == Begin \/ CheckStep \/ PlanKilled \/ PlanStep \/ PacmanStep \/ External
Spec == Init /\ [][Next]_vars

-----------------------------------------------------------------------------
(* Safety.                                                                 *)

CheckRecs == [pc : {"idle", "scan", "trust", "sync", "query", "plan"},
              rounds : 0..MaxRounds, recovered : BOOLEAN, code : Codes]
PlanRecs  == [pc : {"none", "scan", "spawn", "talk", "removeScan", "removing", "done"},
              retry : BOOLEAN, valid : BOOLEAN, parsed : Nat, said : BOOLEAN,
              blockers : SUBSET Pkgs, target : SUBSET Pkgs, code : Codes]
PacRecs   == [st : {"absent", "running", "asking", "exited"}, asked : Seq(Questions),
              pkgs : SUBSET Pkgs, input : Seq({"y", "n"}), eof : BOOLEAN,
              fault : Faults, ok : BOOLEAN]

\* Every variable has its type; a planner is there only while its check waits
\* for it, and never more often than MaxRounds.
TypeOK == /\ check \in CheckRecs /\ plan \in PlanRecs /\ pac \in PacRecs
          /\ ext \in BOOLEAN /\ inWay \subseteq Pkgs
          /\ removed \subseteq Pkgs /\ reported \subseteq Pkgs
          /\ killed \in BOOLEAN /\ touched \in BOOLEAN
          /\ plan.pc # "none" <=> check.pc = "plan"

\* Checking for updates installs and removes nothing through the planned
\* transaction (helper.rs:334-335): however pacman's questions, the answers in
\* its pipe and the search for the next question interleave, the last question
\* is never answered by a yes that was meant for another one.
DryRun == ~touched

\* A package is removed without asking only when every package that the same
\* plan found in the way may be (helper.rs:409-412).
StrictestDecides == plan.pc \in {"removeScan", "removing"} =>
                      \A b \in plan.blockers : Class(b) = "automatic"

\* A planner, or the removal after it, is refused only for a pacman of somebody
\* else: its own, and those of the rounds and retries before, have been stopped
\* and reaped on every way out (helper.rs:192-199).
RefusedByOthersOnly ==
  [][plan.pc \in {"scan", "removeScan"} /\ plan'.pc = "done" => ext]_vars

\* When a check is over, the output of its helper names every package it has
\* removed, in whatever round and however the last round ended, unless a planner
\* was killed in the middle of a removal (helper.rs:640-646).  What the panel
\* makes of that output (desktop.rs:407-418, 562-579) is not part of this module.
RemovalsReported == check.pc = "idle" => removed \subseteq reported \/ killed

-----------------------------------------------------------------------------
(* Liveness.  The helpers and their pacman run; users and other pacmans    *)
(* owe nothing.                                                            *)

Fairness == WF_vars(CheckStep) /\ WF_vars(PlanStep) /\ WF_vars(PacmanStep)
FairSpec == Spec /\ Fairness

\* Every check ends by itself, without its planner being killed, whichever keys
\* fail again and again and whatever is in the way (helper.rs:372-388, 603).
CheckEnds == check.pc # "idle" ~> check.pc = "idle"
=============================================================================

-------------------------- MODULE NotifierProofs --------------------------
(***************************************************************************)
(* Proofs about Notifier, for any panels, operations, faults and restarts. *)
(***************************************************************************)
EXTENDS Notifier, TLAPS

(***************************************************************************)
(* The whole type: TypeOK with that of the records and of the histories.   *)
(***************************************************************************)
Option == {{}} \cup {{o} : o \in 0..MaxOps}
NtType == [pc : {"off", "tick", "read", "present"}, vis : BOOLEAN, op : 0..MaxOps,
           display : {"hidden", "progress", "finished"}, observed : Option,
           finished : Option, last : Option, pending : Option, old : Option]
StrayType == [view : Nat, note : Nat]
PresType == [job : BOOLEAN, owner : SUBSET Nat, note : BOOLEAN, op : Option]

Shape ==
  /\ phase \in LivePhases \cup EndPhases \cup {"none"} /\ op \in 0..MaxOps
  /\ phase = "none" <=> op = 0
  /\ panel \in [Panels -> {"gone", "hidden", "shown"}]
  /\ listed \subseteq Panels /\ dead \subseteq Panels /\ late \subseteq Panels
  /\ \A p \in listed \cup late : panel[p] # "gone"
  /\ nt \in NtType /\ pres \in PresType /\ server \in Nat
  /\ view \in BOOLEAN /\ note \in BOOLEAN /\ stray \in StrayType
  /\ told \in [Ops -> Nat] /\ faults \in Nat /\ ends \in Nat

\* An option is empty or holds one operation.
LEMMA OptionIs ==
  /\ {} \in Option
  /\ \A o \in 0..MaxOps : {o} \in Option
  /\ \A s \in Option : s = {} \/ \E o \in 0..MaxOps : s = {o}
  BY DEF Option

\* The full type gives the type invariant that TLC checks.
LEMMA ShapeImplies == Shape => TypeOK
<1> SUFFICES ASSUME Shape PROVE TypeOK
  OBVIOUS
<1>1. \A option \in {nt.observed, nt.finished, nt.last, nt.pending, nt.old, pres.op} :
        option = {} \/ \E o \in 0..MaxOps : option = {o}
  <2>1. /\ nt.observed \in Option /\ nt.finished \in Option /\ nt.last \in Option
        /\ nt.pending \in Option /\ nt.old \in Option /\ pres.op \in Option
    BY DEF Shape, NtType, PresType
  <2> QED
    BY <2>1, OptionIs
<1> QED
  BY <1>1 DEF Shape, TypeOK, NtType, PresType, StrayType

\* Initially every variable has its type.
LEMMA ShapeInit == Init => Shape
<1> SUFFICES ASSUME Init PROVE Shape
  OBVIOUS
<1>1. 0 \in 0..MaxOps
  BY NotifierAssumption
<1>2. nt \in NtType
  BY <1>1, OptionIs DEF Init, Off, NtType
<1>3. pres \in PresType
  BY OptionIs DEF Init, Nothing, PresType
<1>4. told \in [Ops -> Nat] /\ panel \in [Panels -> {"gone", "hidden", "shown"}]
  BY DEF Init
<1>5. phase = "none" /\ op = 0 /\ server = 0 /\ faults = 0 /\ ends = 0 /\ listed = {}
      /\ dead = {} /\ late = {} /\ view = FALSE /\ note = FALSE /\ stray \in StrayType
  BY DEF Init, LifeInit, NoStray, StrayType
<1> QED
  BY <1>1, <1>2, <1>3, <1>4, <1>5 DEF Shape

\* A counted call leaves the number of faults a number.
LEMMA CountedIs ==
  ASSUME faults \in Nat, NEW outcome, Counted(outcome)
  PROVE  faults' \in Nat /\ faults' >= faults /\ (outcome # "ok" => faults' = faults + 1)
  BY DEF Counted

\* STATE goes from one operation to the next, and an end is not taken back.
LEMMA LifeStep ==
  ASSUME Shape, StateChanges
  PROVE  /\ phase' \in LivePhases \cup EndPhases /\ op' \in 1..MaxOps
         /\ \/ op' = op + 1 /\ phase' \in LivePhases /\ phase \notin LivePhases
            \/ op' = op /\ (phase \in EndPhases => phase' \in EndPhases)
         /\ UNCHANGED <<sessionVars, told, faults, ends>>
  BY NotifierAssumption DEF Shape, StateChanges, Begin, Advance, Complete, FailUpdate,
     Cancel, LivePhases, EndPhases

\* The steps of the desktop and of the panels leave STATE alone.
LEMMA OthersLeaveState ==
  ASSUME NotifierStep \/ PanelStep \/ DesktopStep PROVE phase' = phase /\ op' = op
  BY DEF NotifierStep, PanelStep, DesktopStep, Tick, ReadState, PresentNothing,
     PresentProgress, PresentResult, PresentIdle, PresentStays, PanelTurns, PanelCloses,
     Announce, Dismissed, ServerRestarts, NotifierEnds

\* What a reading of STATE makes of the notifier.
LEMMA ReadIs ==
  ASSUME Shape, ReadState
  PROVE  LET live == phase \in LivePhases
             over == /\ phase \in EndPhases
                     /\ nt.observed = {op} \/ NewOperation
                     /\ nt.finished # {op}
         IN  /\ nt' \in NtType
             /\ nt'.pc = "present" /\ nt'.vis = nt.vis /\ nt'.op = op
             /\ nt'.last = IF phase # "none" \/ nt.last = {} THEN {op} ELSE nt.last
             /\ nt'.observed = IF live THEN {op} ELSE nt.observed
             /\ nt'.finished = IF live /\ nt.observed # {op} THEN {}
                               ELSE IF over THEN {op} ELSE nt.finished
             /\ nt'.pending = IF ~nt.vis /\ ~live /\ over THEN {op}
                              ELSE IF nt.vis THEN {} ELSE nt.pending
             /\ nt'.old = IF nt.last = {} /\ phase \in EndPhases THEN {op} ELSE nt.old
  <1>1. op \in 0..MaxOps /\ nt \in NtType
    BY DEF Shape
  <1>2. {op} \in Option /\ {} \in Option
    BY <1>1, OptionIs
  <1>3. /\ Display \in NtType /\ Display.pc = nt.pc /\ Display.vis = nt.vis
        /\ Display.pending = nt.pending /\ Display.old = nt.old
        /\ Display.last = IF phase # "none" \/ nt.last = {} THEN {op} ELSE nt.last
        /\ Display.observed = IF phase \in LivePhases THEN {op} ELSE nt.observed
    BY <1>1, <1>2 DEF Display, NtType, NotTold
  <1>4. Display.finished =
          IF phase \in LivePhases /\ nt.observed # {op} THEN {}
          ELSE IF /\ phase \in EndPhases
                  /\ nt.observed = {op} \/ NewOperation
                  /\ nt.finished # {op} THEN {op} ELSE nt.finished
    BY <1>1, <1>2 DEF Display, NtType, NotTold
  <1>5. Display.display = "finished" <=>
          /\ ~nt.vis /\ phase \notin LivePhases /\ phase \in EndPhases
          /\ nt.observed = {op} \/ NewOperation
          /\ nt.finished # {op}
    BY <1>1, <1>2 DEF Display, NtType, NotTold
  <1> DEFINE d == Display
  <1>6. Pending(d) = IF d.display = "finished" THEN {op}
                     ELSE IF nt.vis THEN {} ELSE nt.pending
    BY <1>5 DEF Pending
  <1>7. Pending(d) \in Option
    BY <1>1, <1>2, <1>6 DEF NtType
  <1> HIDE DEF d
  <1>8. nt' = [d EXCEPT !.pc = "present", !.op = op, !.pending = Pending(d),
                        !.old = IF nt.last = {} /\ phase \in EndPhases THEN {op} ELSE @]
    BY DEF ReadState, d
  <1>9. d \in NtType /\ d.old = nt.old
    BY <1>3 DEF d
  <1>10. /\ nt' \in NtType /\ nt'.pc = "present" /\ nt'.vis = d.vis /\ nt'.op = op
         /\ nt'.last = d.last /\ nt'.observed = d.observed /\ nt'.finished = d.finished
         /\ nt'.pending = Pending(d)
         /\ nt'.old = IF nt.last = {} /\ phase \in EndPhases THEN {op} ELSE nt.old
    BY <1>1, <1>2, <1>7, <1>8, <1>9 DEF NtType
  <1>11. nt'.last = Display.last /\ nt'.observed = Display.observed
         /\ nt'.finished = Display.finished /\ nt'.vis = nt.vis
    BY <1>3, <1>10 DEF d
  <1>12. nt'.pending = IF ~nt.vis /\ phase \notin LivePhases
                          /\ phase \in EndPhases
                          /\ (nt.observed = {op} \/ NewOperation)
                          /\ nt.finished # {op}
                       THEN {op} ELSE IF nt.vis THEN {} ELSE nt.pending
    <2>1. nt'.pending = IF Display.display = "finished" THEN {op}
                        ELSE IF nt.vis THEN {} ELSE nt.pending
      BY <1>6, <1>10 DEF d
    <2> QED
      BY <2>1, <1>5
  <1> QED
    BY <1>3, <1>4, <1>10, <1>11, <1>12

\* What the presentation of a tick leaves of the notifier.
LEMMA SleptIs ==
  ASSUME Shape, NEW pending \in Option, Slept(pending)
  PROVE  /\ nt' \in NtType /\ nt'.pc = "tick" /\ nt'.vis = nt.vis
         /\ nt'.pending = pending /\ nt'.observed = nt.observed
         /\ nt'.finished = nt.finished /\ nt'.last = nt.last /\ nt'.old = nt.old
  <1>1. 0 \in 0..MaxOps /\ nt \in NtType
    BY NotifierAssumption DEF Shape
  <1>2. nt' = [nt EXCEPT !.pc = "tick", !.pending = pending, !.op = 0,
                         !.display = "hidden"]
    BY DEF Slept
  <1> QED
    BY <1>1, <1>2 DEF NtType

\* What is presented is a step that sleeps, keeps the types and the rest.
LEMMA PresentIs ==
  ASSUME Shape, PresentNothing \/ PresentProgress \/ PresentResult \/ PresentIdle
  PROVE  /\ \E pending \in Option : Slept(pending) /\ (pending = {} \/ pending = nt.pending)
         /\ PresentStays /\ pres' \in PresType /\ view' \in BOOLEAN /\ note' \in BOOLEAN
         /\ stray' \in StrayType /\ told' \in [Ops -> Nat] /\ faults' \in Nat
  <1>1. nt.pending \in Option /\ {} \in Option /\ nt.op \in 0..MaxOps /\ {nt.op} \in Option
    BY OptionIs DEF Shape, NtType
  <1>0. /\ \A n \in BOOLEAN : [Nothing EXCEPT !.note = n] \in PresType
        /\ [stray EXCEPT !.view = @ + 1] \in StrayType /\ stray \in StrayType
        /\ [stray EXCEPT !.note = @ + 1] \in StrayType
    <2>1. {} \in Option
      BY OptionIs
    <2>2. ASSUME NEW n \in BOOLEAN PROVE [Nothing EXCEPT !.note = n] \in PresType
      BY <2>1 DEF Nothing, PresType
    <2>3. stray \in StrayType
      BY DEF Shape
    <2>4. /\ [stray EXCEPT !.view = @ + 1] \in StrayType
          /\ [stray EXCEPT !.note = @ + 1] \in StrayType
      BY <2>3 DEF StrayType
    <2> QED
      BY <2>2, <2>3, <2>4
  <1>2. CASE PresentNothing
    <2>1. PICK outcome : /\ Counted(outcome) /\ Detached /\ Closed(outcome)
                         /\ pres' = [Nothing EXCEPT !.note = NoteKept(outcome)]
      BY <1>2 DEF PresentNothing
    <2>2. pres' \in PresType
      BY <1>0, <2>1 DEF NoteKept, Shape, PresType
    <2> QED
      BY <1>0, <1>1, <1>2, <2>1, <2>2, CountedIs DEF PresentNothing, Shape, Detached, Closed
  <1>3. CASE PresentProgress
    <2> DEFINE keep == pres.job /\ SameServer /\ pres.op = {nt.op}
    <2>1. PICK closing \in IF pres.note THEN Outcomes ELSE {"ok"}, looking \in Outcomes :
            /\ Closed(closing)
            /\ \/ /\ Counted(closing) \/ Counted(looking)
                  /\ pres' = [pres EXCEPT !.note = NoteKept(closing)]
                  /\ UNCHANGED <<view, stray>>
               \/ \E asking \in IF keep THEN {"ok"} ELSE Outcomes :
                    /\ Counted(asking)
                    /\ pres' = IF ~keep /\ asking # "ok" THEN Nothing
                               ELSE [job |-> TRUE, owner |-> {server},
                                     note |-> FALSE, op |-> {nt.op}]
                    /\ view' = IF keep THEN view ELSE asking = "ok"
                    /\ stray' = IF asking = "lost" THEN [stray EXCEPT !.view = @ + 1]
                                ELSE stray
      BY <1>3 DEF PresentProgress
    <2>2. faults' \in Nat
      BY <2>1, CountedIs DEF Shape
    <2>3. pres' \in PresType
      <3>1. CASE pres' = [pres EXCEPT !.note = NoteKept(closing)]
        <4>1. NoteKept(closing) \in BOOLEAN
          BY DEF NoteKept
        <4> QED
          BY <3>1, <4>1 DEF Shape, PresType
      <3>2. Nothing \in PresType
        BY OptionIs DEF Nothing, PresType
      <3>3. [job |-> TRUE, owner |-> {server}, note |-> FALSE, op |-> {nt.op}] \in PresType
        BY <1>1 DEF Shape, PresType
      <3> QED
        BY <2>1, <3>1, <3>2, <3>3
    <2>4. view' \in BOOLEAN /\ note' \in BOOLEAN /\ stray' \in StrayType
      BY <1>0, <2>1 DEF Shape, Closed
    <2> QED
      BY <1>1, <1>3, <2>2, <2>3, <2>4 DEF PresentProgress, Shape
  <1>4. CASE PresentResult
    <2>1. PICK outcome \in Outcomes, o \in nt.pending :
            /\ Counted(outcome) /\ Detached
            /\ pres' = [Nothing EXCEPT !.note = pres.note \/ outcome = "ok"]
            /\ note' = (note \/ outcome = "ok" \/ (outcome = "lost" /\ pres.note))
            /\ stray' = IF outcome = "lost" /\ ~pres.note
                        THEN [stray EXCEPT !.note = @ + 1] ELSE stray
            /\ told' = [told EXCEPT ![o] = IF outcome = "failed" THEN @ ELSE @ + 1]
            /\ Slept(StillPending(outcome))
      BY <1>4 DEF PresentResult
    <2>2. faults' \in Nat
      BY <2>1, CountedIs DEF Shape
    <2>3. told' \in [Ops -> Nat]
      <3> DEFINE more == IF outcome = "failed" THEN told[o] ELSE told[o] + 1
      <3>1. o \in Ops => more \in Nat
        BY DEF Shape
      <3>2. told' = [told EXCEPT ![o] = more]
        BY <2>1
      <3> HIDE DEF more
      <3> QED
        BY <3>1, <3>2 DEF Shape
    <2>4. pres' \in PresType /\ stray' \in StrayType
      BY <1>0, <2>1 DEF Shape, PresType
    <2> QED
      BY <1>1, <1>4, <2>1, <2>2, <2>3, <2>4 DEF PresentResult, Shape, Detached, StillPending
  <1>5. CASE PresentIdle
    BY <1>0, <1>1, <1>5 DEF PresentIdle, Shape, PresType, Detached
  <1> QED
    BY <1>2, <1>3, <1>4, <1>5

\* No step takes a variable out of its type.
LEMMA ShapeNext == Shape /\ [Next]_vars => Shape'
<1> SUFFICES ASSUME Shape, [Next]_vars PROVE Shape'
  OBVIOUS
<1>0. Off \in NtType /\ [Off EXCEPT !.pc = "tick"] \in NtType
  <2>1. 0 \in 0..MaxOps
    BY NotifierAssumption
  <2> QED
    BY <2>1, OptionIs DEF Off, NtType
<1>1. CASE StateChanges
  <2>1. phase' # "none" /\ op' # 0 /\ op' \in 0..MaxOps
    BY <1>1, LifeStep, NotifierAssumption DEF LivePhases, EndPhases
  <2> QED
    BY <1>1, <2>1, LifeStep DEF Shape, sessionVars
<1>2. ASSUME NEW p \in Panels, PanelTurns(p) PROVE Shape'
  <2>1. panel' \in [Panels -> {"gone", "hidden", "shown"}]
    BY <1>2 DEF PanelTurns, Shape
  <2>2. \A q \in Panels : panel'[q] = "gone" => panel[q] = "gone"
    BY <1>2 DEF PanelTurns, Shape
  <2>3. late' \subseteq late \cup {p}
    BY <1>2 DEF PanelTurns
  <2>4. \A q \in listed \cup late \cup {p} : panel'[q] # "gone"
    BY <1>2, <2>2 DEF PanelTurns, Shape
  <2> QED
    BY <1>2, <2>1, <2>3, <2>4 DEF PanelTurns, Shape
<1>3. ASSUME NEW p \in Panels, PanelCloses(p) PROVE Shape'
  BY <1>3 DEF PanelCloses, Shape
<1>4. ASSUME NEW p \in Panels, Announce(p) PROVE Shape'
  <2>1. /\ nt' \in NtType /\ listed' \subseteq listed \cup {p} /\ dead' \subseteq dead \cup {p}
        /\ late' \subseteq late /\ panel[p] # "gone" /\ faults' \in Nat
    BY <1>0, <1>4, CountedIs DEF Announce, Shape, Outcomes
  <2> QED
    BY <1>4, <2>1 DEF Announce, Shape
<1>5. CASE Tick
  <2>1. PICK unasked \in {{}} \cup (IF faults < MaxFaults THEN {{p} : p \in listed} ELSE {}) :
          /\ listed' = listed \ unasked /\ dead' = {}
          /\ faults' = IF unasked = {} THEN faults ELSE faults + 1
          /\ nt' = [nt EXCEPT !.pc = "read", !.vis = listed' # {}]
    BY <1>5 DEF Tick
  <2>2. (listed' # {}) \in BOOLEAN
    OBVIOUS
  <2> DEFINE some == listed' # {}
  <2>3. nt' = [nt EXCEPT !.pc = "read", !.vis = some] /\ some \in BOOLEAN
    BY <2>1
  <2> HIDE DEF some
  <2>4. nt' \in NtType
    BY <2>3 DEF Shape, NtType
  <2>5. faults' \in Nat
    BY <2>1 DEF Shape
  <2> QED
    BY <1>5, <2>1, <2>4, <2>5 DEF Tick, Shape
<1>6. CASE ReadState
  <2>1. nt' \in NtType
    BY <1>6, ReadIs
  <2> QED
    BY <1>6, <2>1 DEF ReadState, Shape
<1>7. CASE PresentNothing \/ PresentProgress \/ PresentResult \/ PresentIdle
  <2>1. nt' \in NtType
    BY <1>7, PresentIs, SleptIs
  <2> QED
    BY <1>7, <2>1, PresentIs DEF PresentStays, Shape
<1>8. CASE Dismissed
  <2>1. stray' \in StrayType
    BY <1>8 DEF Dismissed, Shape, StrayType
  <2> QED
    BY <1>8, <2>1 DEF Dismissed, Shape
<1>9. CASE ServerRestarts
  <2>1. server' \in Nat /\ view' = FALSE /\ stray' \in StrayType /\ ends' \in Nat
    BY <1>9 DEF ServerRestarts, Shape, StrayType
  <2>2. UNCHANGED <<phase, op, panel, late, listed, dead, nt, pres, note, told, faults>>
    BY <1>9 DEF ServerRestarts
  <2> QED
    BY <2>1, <2>2 DEF Shape
<1>10. CASE NotifierEnds
  <2>1. Nothing \in PresType
    BY OptionIs DEF Nothing, PresType
  <2>2. stray' \in StrayType /\ ends' \in Nat
    BY <1>10 DEF NotifierEnds, Shape, StrayType
  <2> QED
    BY <1>0, <1>10, <2>1, <2>2 DEF NotifierEnds, Shape
<1>11. CASE UNCHANGED vars
  BY <1>11 DEF vars, sessionVars, Shape
<1> QED
  BY <1>1, <1>2, <1>3, <1>4, <1>5, <1>6, <1>7, <1>8, <1>9, <1>10, <1>11
     DEF Next, PanelStep, NotifierStep, DesktopStep

\* Every variable keeps its type, for any panels, operations and faults.
THEOREM TypeCorrect == Spec => []TypeOK
<1>1. Spec => []Shape
  BY ShapeInit, ShapeNext, PTL DEF Spec
<1> QED
  BY <1>1, ShapeImplies, PTL

-----------------------------------------------------------------------------
(***************************************************************************)
(* The screen.  The notifier knows what it has put there, and after a tick *)
(* with a visible panel it has taken the progress away.                    *)
(***************************************************************************)
Screen == /\ view => pres.job
          /\ note => pres.note
          /\ nt.pc = "tick" /\ nt.vis => ~view

\* No step puts up what the notifier does not know of.
LEMMA ScreenNext == Shape /\ Screen /\ [Next]_vars => Screen'
<1> SUFFICES ASSUME Shape, Screen, [Next]_vars PROVE Screen'
  OBVIOUS
<1>1. CASE StateChanges
  BY <1>1, LifeStep DEF Screen, sessionVars
<1>2. ASSUME NEW p \in Panels, PanelTurns(p) \/ PanelCloses(p) PROVE Screen'
  BY <1>2 DEF PanelTurns, PanelCloses, Screen
<1>3. ASSUME NEW p \in Panels, Announce(p) PROVE Screen'
  <2>1. nt' = nt \/ ~nt'.vis
    BY <1>3 DEF Announce, Off
  <2> QED
    BY <1>3, <2>1 DEF Announce, Screen
<1>4. CASE Tick \/ ReadState
  <2>1. nt'.pc \in {"read", "present"}
    BY <1>4, ReadIs DEF Tick, Shape, NtType
  <2>2. UNCHANGED <<pres, view, note>>
    BY <1>4 DEF Tick, ReadState
  <2> QED
    BY <2>1, <2>2 DEF Screen
<1>5. ASSUME PresentNothing \/ PresentProgress \/ PresentResult \/ PresentIdle
      PROVE  nt'.vis = nt.vis
  BY <1>5, PresentIs, SleptIs
<1>6. CASE PresentNothing
  <2>1. PICK outcome : /\ Detached /\ Closed(outcome)
                       /\ pres' = [Nothing EXCEPT !.note = NoteKept(outcome)]
    BY <1>6 DEF PresentNothing
  <2>2. pres'.note = NoteKept(outcome)
    BY <2>1 DEF Nothing
  <2>3. ~view'
    BY <2>1 DEF Detached, Screen
  <2> QED
    BY <2>1, <2>2, <2>3 DEF Screen, Closed, NoteKept
<1>7. CASE PresentProgress
  <2> DEFINE keep == pres.job /\ SameServer /\ pres.op = {nt.op}
  <2>1. ~nt'.vis
    BY <1>5, <1>7 DEF PresentProgress
  <2>2. PICK closing \in IF pres.note THEN Outcomes ELSE {"ok"}, looking \in Outcomes :
          /\ Closed(closing)
          /\ \/ /\ pres' = [pres EXCEPT !.note = NoteKept(closing)] /\ UNCHANGED view
             \/ /\ closing = "ok"
                /\ \E asking \in IF keep THEN {"ok"} ELSE Outcomes :
                     /\ pres' = IF ~keep /\ asking # "ok" THEN Nothing
                                ELSE [job |-> TRUE, owner |-> {server},
                                      note |-> FALSE, op |-> {nt.op}]
                     /\ view' = IF keep THEN view ELSE asking = "ok"
    BY <1>7 DEF PresentProgress
  <2>3. CASE pres' = [pres EXCEPT !.note = NoteKept(closing)] /\ UNCHANGED view
    <3>1. pres'.job = pres.job /\ pres'.note = NoteKept(closing)
      BY <2>3 DEF Shape, PresType
    <3> QED
      BY <2>1, <2>2, <2>3, <3>1 DEF Screen, Closed, NoteKept
  <2>4. ASSUME closing = "ok", NEW asking,
               pres' = IF ~keep /\ asking # "ok" THEN Nothing
                       ELSE [job |-> TRUE, owner |-> {server},
                             note |-> FALSE, op |-> {nt.op}],
               view' = IF keep THEN view ELSE asking = "ok"
        PROVE  Screen'
    <3>1. ~note'
      BY <2>2, <2>4 DEF Screen, Closed
    <3>2. keep \/ asking = "ok" => pres'.job
      BY <2>4
    <3>3. view' => pres'.job
      BY <2>4, <3>2
    <3> QED
      BY <2>1, <3>1, <3>3 DEF Screen
  <2> QED
    BY <2>2, <2>3, <2>4
<1>8. CASE PresentResult \/ PresentIdle
  <2>1. Detached /\ ~nt'.vis
    BY <1>5, <1>8 DEF PresentResult, PresentIdle
  <2>2. note' => pres'.note
    <3>1. CASE PresentIdle
      <4>1. pres' = [Nothing EXCEPT !.note = pres.note] /\ UNCHANGED note
        BY <3>1 DEF PresentIdle
      <4>2. pres'.note = pres.note
        BY <4>1 DEF Nothing
      <4> QED
        BY <4>1, <4>2 DEF Screen
    <3>2. ASSUME NEW outcome,
                 pres' = [Nothing EXCEPT !.note = pres.note \/ outcome = "ok"],
                 note' = (note \/ outcome = "ok" \/ (outcome = "lost" /\ pres.note))
          PROVE  note' => pres'.note
      <4>1. pres'.note = (pres.note \/ outcome = "ok")
        BY <3>2 DEF Nothing
      <4> QED
        BY <3>2, <4>1 DEF Screen
    <3> QED
      BY <1>8, <3>1, <3>2 DEF PresentResult
  <2> QED
    BY <2>1, <2>2 DEF Screen, Detached
<1>9. CASE DesktopStep
  BY <1>9 DEF DesktopStep, Dismissed, ServerRestarts, NotifierEnds, Off, Screen
<1>10. CASE UNCHANGED vars
  BY <1>10 DEF vars, sessionVars, Screen
<1> QED
  BY <1>1, <1>2, <1>3, <1>4, <1>6, <1>7, <1>8, <1>9, <1>10
     DEF Next, PanelStep, NotifierStep

\* What is on the screen unknown to the notifier costs a lost reply or an end.
Strays == stray.view + stray.note <= faults + ends

\* Sums of four numbers that grow together.
LEMMA Sums ==
  \A a, b, c, d, e, f, g, h \in Nat :
    /\ a + b <= c + d /\ e <= a /\ f <= b /\ g >= c /\ h >= d => e + f <= g + h
    /\ a + b <= c + d /\ e <= a + 1 /\ f <= b /\ g >= c + 1 /\ h >= d => e + f <= g + h
    /\ a + b <= c + d /\ e <= a /\ f <= b + 1 /\ g >= c + 1 /\ h >= d => e + f <= g + h
    /\ a + b <= c + d /\ e <= a /\ f <= b + 1 /\ g >= c /\ h >= d + 1 => e + f <= g + h
  OBVIOUS

\* No step adds to the strays without adding as much to the faults or the ends.
LEMMA StraysNext == Shape /\ Strays /\ [Next]_vars => Strays'
<1> SUFFICES ASSUME Shape, Strays, [Next]_vars PROVE Strays'
  OBVIOUS
<1>1. /\ stray.view \in Nat /\ stray.note \in Nat /\ faults \in Nat /\ ends \in Nat
      /\ stray'.view \in Nat /\ stray'.note \in Nat /\ faults' \in Nat /\ ends' \in Nat
  BY ShapeNext DEF Shape, StrayType
<1>2. ASSUME stray' = stray, faults' >= faults, ends' >= ends PROVE Strays'
  <2>1. stray'.view <= stray.view /\ stray'.note <= stray.note
    BY <1>1, <1>2
  <2> QED
    BY <1>1, <1>2, <2>1, Sums DEF Strays
<1>3. CASE StateChanges
  BY <1>1, <1>2, <1>3, LifeStep DEF sessionVars
<1>4. CASE PanelStep
  BY <1>1, <1>2, <1>4, CountedIs DEF PanelStep, PanelTurns, PanelCloses, Announce
<1>5. CASE Tick \/ ReadState \/ PresentNothing \/ PresentIdle
  <2>1. CASE Tick
    BY <1>1, <1>2, <2>1 DEF Tick
  <2>2. CASE ReadState
    BY <1>1, <1>2, <2>2 DEF ReadState
  <2>3. CASE PresentNothing
    BY <1>1, <1>2, <2>3, CountedIs DEF PresentNothing, PresentStays
  <2>4. CASE PresentIdle
    BY <1>1, <1>2, <2>4 DEF PresentIdle, PresentStays
  <2> QED
    BY <1>5, <2>1, <2>2, <2>3, <2>4
<1>6. CASE PresentProgress
  <2>1. PICK asking : /\ ends' = ends
                      /\ \/ UNCHANGED stray /\ faults' >= faults
                         \/ /\ Counted(asking)
                            /\ stray' = IF asking = "lost"
                                        THEN [stray EXCEPT !.view = @ + 1] ELSE stray
    BY <1>1, <1>6, CountedIs DEF PresentProgress, PresentStays
  <2>2. CASE UNCHANGED stray
    BY <1>1, <1>2, <2>1, <2>2, CountedIs
  <2>3. CASE Counted(asking) /\ stray' = [stray EXCEPT !.view = @ + 1] /\ asking = "lost"
    <3>1. stray'.view = stray.view + 1 /\ stray'.note = stray.note
      BY <2>3 DEF Shape, StrayType
    <3>2. faults' = faults + 1
      BY <1>1, <2>3, CountedIs
    <3>3. stray'.view <= stray.view + 1 /\ stray'.note <= stray.note
          /\ faults' >= faults + 1 /\ ends' >= ends
      BY <1>1, <2>1, <3>1, <3>2
    <3> QED
      BY <1>1, <3>3, Sums DEF Strays
  <2> QED
    BY <2>1, <2>2, <2>3
<1>7. CASE PresentResult
  <2>1. PICK outcome : /\ ends' = ends /\ Counted(outcome)
                       /\ stray' = IF outcome = "lost" /\ ~pres.note
                                   THEN [stray EXCEPT !.note = @ + 1] ELSE stray
    BY <1>7 DEF PresentResult, PresentStays
  <2>2. CASE UNCHANGED stray
    BY <1>1, <1>2, <2>1, <2>2, CountedIs
  <2>3. CASE stray' = [stray EXCEPT !.note = @ + 1] /\ outcome = "lost"
    <3>1. stray'.view = stray.view /\ stray'.note = stray.note + 1
      BY <2>3 DEF Shape, StrayType
    <3>2. faults' = faults + 1
      BY <1>1, <2>1, <2>3, CountedIs
    <3>3. stray'.view <= stray.view /\ stray'.note <= stray.note + 1
          /\ faults' >= faults + 1 /\ ends' >= ends
      BY <1>1, <2>1, <3>1, <3>2
    <3> QED
      BY <1>1, <3>3, Sums DEF Strays
  <2> QED
    BY <2>1, <2>2, <2>3
<1>8. CASE Dismissed
  <2>1. /\ stray'.view <= stray.view /\ stray'.note <= stray.note
        /\ faults' = faults /\ ends' = ends
    BY <1>1, <1>8 DEF Dismissed, Shape, StrayType
  <2> QED
    BY <1>1, <2>1, Sums DEF Strays
<1>9. CASE ServerRestarts
  <2>1. /\ stray'.view <= stray.view /\ stray'.note <= stray.note
        /\ faults' = faults /\ ends' >= ends
    BY <1>1, <1>9 DEF ServerRestarts, Shape, StrayType
  <2> QED
    BY <1>1, <2>1, Sums DEF Strays
<1>10. CASE NotifierEnds
  <2>1. /\ stray'.view <= stray.view /\ stray'.note <= stray.note + 1
        /\ faults' >= faults /\ ends' >= ends + 1
    BY <1>1, <1>10 DEF NotifierEnds
  <2> QED
    BY <1>1, <2>1, Sums DEF Strays
<1>11. CASE UNCHANGED vars
  BY <1>1, <1>2, <1>11 DEF vars, sessionVars
<1> QED
  BY <1>3, <1>4, <1>5, <1>6, <1>7, <1>8, <1>9, <1>10, <1>11
     DEF Next, NotifierStep, DesktopStep

\* Behind a panel that the notifier has seen there is no progress and no result
\* on the screen but one whose closing it tries again, and at most one view or
\* result for each reply that got lost and each notifier that ended.
THEOREM HidesBehind == Spec => []HiddenBehindPanel
<1>1. Init => Screen
  BY DEF Init, Screen, Off
<1>2. Init => Strays
  BY DEF Init, Strays, NoStray
<1>3. Screen /\ Strays => HiddenBehindPanel
  BY DEF Screen, Strays, HiddenBehindPanel
<1>4. Spec => []Shape
  BY ShapeInit, ShapeNext, PTL DEF Spec
<1> QED
  BY <1>1, <1>2, <1>3, <1>4, ScreenNext, StraysNext, PTL DEF Spec

-----------------------------------------------------------------------------
(***************************************************************************)
(* What the notifier remembers.  What it told, has to tell or found at its *)
(* first reading has ended; what it found then it neither watches nor has  *)
(* to tell; what it has to tell counts as told.                            *)
(***************************************************************************)
Over(o) == o < op \/ (o = op /\ phase \in EndPhases)
Memory ==
  /\ nt.last = {} => nt.observed = {} /\ nt.pending = {} /\ nt.old = {}
  /\ \A o \in Ops :
       /\ nt.finished = {o} \/ nt.pending = {o} \/ nt.old = {o} => Over(o)
       /\ nt.pending = {o} /\ o = op => nt.finished = {o}
       /\ nt.old = {o} => /\ nt.observed # {o} /\ nt.pending # {o}
                          /\ o = op => nt.last = {o}

\* The notifier may still come to tell of an operation.
MayTell(o) ==
  \/ nt.pending = {o}
  \/ o > op
  \/ /\ o = op /\ nt.finished # {o}
     /\ phase \in LivePhases \/ nt.observed = {o} \/ NewOperation

\* Every time it told but the last one cost a fault.
Tally == \A o \in Ops : told[o] <= IF MayTell(o) THEN faults ELSE faults + 1

\* What a step that does not read STATE makes of the memory: it stays, but that
\* there may be nothing to tell any more, or it is lost.
Kept  == /\ nt'.last = nt.last /\ nt'.observed = nt.observed
         /\ nt'.finished = nt.finished /\ nt'.old = nt.old
         /\ nt'.pending \in {nt.pending, {}}
Blank == /\ nt'.last = {} /\ nt'.observed = {} /\ nt'.finished = {} /\ nt'.old = {}
         /\ nt'.pending = {}

\* The steps but ReadState keep the memory or lose it.
LEMMA MemoryMoves ==
  ASSUME Shape, [Next]_vars, ~ReadState
  PROVE  Kept \/ Blank
<1>1. CASE StateChanges
  BY <1>1, LifeStep DEF Kept, sessionVars
<1>2. ASSUME NEW p \in Panels, PanelTurns(p) \/ PanelCloses(p) PROVE Kept
  BY <1>2 DEF PanelTurns, PanelCloses, Kept
<1>3. ASSUME NEW p \in Panels, Announce(p) PROVE Kept \/ Blank
  <2>1. nt' = nt \/ nt' = [Off EXCEPT !.pc = "tick"]
    BY <1>3 DEF Announce
  <2> QED
    BY <2>1 DEF Off, Kept, Blank
<1>4. CASE Tick
  BY <1>4 DEF Tick, Kept, Shape, NtType
<1>5. CASE PresentNothing \/ PresentProgress \/ PresentResult \/ PresentIdle
  BY <1>5, PresentIs, SleptIs DEF Kept
<1>6. CASE DesktopStep
  BY <1>6 DEF DesktopStep, Dismissed, ServerRestarts, NotifierEnds, Off, Kept, Blank
<1>7. CASE UNCHANGED vars
  BY <1>7 DEF vars, sessionVars, Kept
<1> QED
  BY <1>1, <1>2, <1>3, <1>4, <1>5, <1>6, <1>7 DEF Next, PanelStep, NotifierStep

\* An operation is over for good.
LEMMA OverStays ==
  ASSUME Shape, [Next]_vars, NEW o \in Ops, Over(o)
  PROVE  Over(o)' /\ op' >= op /\ (o = op' => o = op)
<1>1. op \in Nat /\ o \in Nat
  BY NotifierAssumption DEF Shape, Ops
<1>2. CASE StateChanges
  BY <1>1, <1>2, LifeStep DEF Over
<1>3. CASE UNCHANGED <<phase, op>>
  BY <1>1, <1>3 DEF Over
<1> QED
  BY <1>2, <1>3, OthersLeaveState DEF Next, vars

\* No step breaks Memory.
LEMMA MemoryNext == Shape /\ Memory /\ [Next]_vars => Memory'
<1> SUFFICES ASSUME Shape, Memory, [Next]_vars PROVE Memory'
  OBVIOUS
<1>1. CASE ~ReadState /\ Blank
  BY <1>1 DEF Blank, Memory
<1>2. CASE ~ReadState /\ Kept
  <2>1. nt'.last = {} => nt'.observed = {} /\ nt'.pending = {} /\ nt'.old = {}
    BY <1>2 DEF Kept, Memory
  <2>2. ASSUME NEW o \in Ops
        PROVE  /\ nt'.finished = {o} \/ nt'.pending = {o} \/ nt'.old = {o} => Over(o)'
               /\ nt'.pending = {o} /\ o = op' => nt'.finished = {o}
               /\ nt'.old = {o} => /\ nt'.observed # {o} /\ nt'.pending # {o}
                                   /\ o = op' => nt'.last = {o}
    BY <1>2, OverStays DEF Kept, Memory
  <2> QED
    BY <2>1, <2>2 DEF Memory
<1>3. CASE ReadState
  <2>1. phase' = phase /\ op' = op
    BY <1>3 DEF ReadState
  <2>2. nt'.last = {} => nt'.observed = {} /\ nt'.pending = {} /\ nt'.old = {}
    BY <1>3, ReadIs
  <2>3. ASSUME NEW o \in Ops
        PROVE  /\ nt'.finished = {o} \/ nt'.pending = {o} \/ nt'.old = {o} => Over(o)
               /\ nt'.pending = {o} /\ o = op => nt'.finished = {o}
               /\ nt'.old = {o} => /\ nt'.observed # {o} /\ nt'.pending # {o}
                                   /\ o = op => nt'.last = {o}
    <3>0. op \in Nat /\ o \in Nat
      BY NotifierAssumption DEF Shape, Ops
    <3>1. phase \in EndPhases => phase \notin LivePhases /\ phase # "none"
      BY DEF LivePhases, EndPhases
    <3>2. nt'.finished = {o} \/ nt'.pending = {o} \/ nt'.old = {o} => Over(o)
      <4>1. phase \in EndPhases => Over(op)
        BY DEF Over
      <4>2. \A s \in {nt'.finished, nt'.pending, nt'.old} :
              \/ s \in {nt.finished, nt.pending, nt.old, {}}
              \/ s = {op} /\ phase \in EndPhases
        BY <1>3, ReadIs
      <4>3. \A s \in {nt.finished, nt.pending, nt.old} : s = {o} => Over(o)
        BY DEF Memory
      <4> QED
        BY <4>1, <4>2, <4>3
    <3>3. nt'.pending = {o} /\ o = op => nt'.finished = {o}
      <4>1. CASE phase \in LivePhases
        <5>1. o = op => ~Over(o)
          BY <3>0, <4>1 DEF Over, LivePhases, EndPhases
        <5>2. nt'.pending = nt.pending \/ nt'.pending = {}
          BY <1>3, <3>1, <4>1, ReadIs
        <5>3. nt.pending = {o} => Over(o)
          BY DEF Memory
        <5> QED
          BY <5>1, <5>2, <5>3
      <4>2. CASE phase \notin LivePhases
        BY <1>3, <4>2, ReadIs DEF Memory
      <4> QED
        BY <4>1, <4>2
    <3>4. CASE nt.last = {} /\ phase \in EndPhases
      <4>1. nt'.observed = {} /\ nt'.last = {op}
        BY <1>3, <3>1, <3>4, ReadIs DEF Memory
      <4>2. nt'.pending = {}
        BY <1>3, <3>1, <3>4, ReadIs DEF Memory, NewOperation
      <4> QED
        BY <3>2, <3>3, <4>1, <4>2
    <3>5. CASE ~(nt.last = {} /\ phase \in EndPhases)
      <4> SUFFICES ASSUME nt'.old = {o}
                   PROVE  /\ nt'.observed # {o} /\ nt'.pending # {o}
                          /\ o = op => nt'.last = {o}
        BY <3>2, <3>3
      <4>1. nt.old = {o} /\ nt.last # {}
        BY <1>3, <3>5, ReadIs DEF Memory
      <4>2. /\ nt.observed # {o} /\ nt.pending # {o} /\ Over(o)
            /\ o = op => nt.last = {o}
        BY <4>1 DEF Memory
      <4>3. o = op => phase \notin LivePhases
        BY <4>2, NotifierAssumption DEF Over, Shape, Ops, LivePhases, EndPhases
      <4>4. nt'.observed # {o}
        BY <1>3, <4>2, <4>3, ReadIs
      <4>5. nt'.pending # {o}
        BY <1>3, <4>1, <4>2, ReadIs DEF NewOperation
      <4>6. o = op => nt'.last = {o}
        BY <1>3, <4>2, ReadIs
      <4> QED
        BY <4>4, <4>5, <4>6
    <3> QED
      BY <3>2, <3>3, <3>4, <3>5
  <2> QED
    BY <2>1, <2>2, <2>3 DEF Memory, Over
<1> QED
  BY <1>1, <1>2, <1>3, MemoryMoves

\* Initially nothing is remembered and nothing was told.
LEMMA MemoryInit == Init => Memory /\ Tally
<1> SUFFICES ASSUME Init PROVE Memory /\ Tally
  OBVIOUS
<1>1. /\ nt.last = {} /\ nt.observed = {} /\ nt.finished = {} /\ nt.old = {}
      /\ nt.pending = {} /\ op = 0 /\ faults = 0
  BY DEF Init, LifeInit, Off
<1>2. \A o \in Ops : told[o] = 0 /\ o > op
  BY <1>1, NotifierAssumption DEF Init, Ops
<1> QED
  BY <1>1, <1>2 DEF Memory, Tally, MayTell

\* Who tells: a presentation of what is pending.
LEMMA Teller ==
  ASSUME Shape, [Next]_vars
  PROVE  \/ told' = told /\ faults' >= faults
         \/ \E outcome \in {"ok", "failed", "lost"}, o \in nt.pending :
              /\ UNCHANGED <<phase, op>> /\ Counted(outcome)
              /\ told' = [told EXCEPT ![o] = IF outcome = "failed" THEN @ ELSE @ + 1]
              /\ Slept(StillPending(outcome))
<1>1. CASE PresentResult
  BY <1>1 DEF PresentResult, PresentStays, Outcomes
<1>2. CASE PresentProgress
  BY <1>2, CountedIs DEF PresentProgress, Shape
<1>3. CASE PresentNothing
  BY <1>3, CountedIs DEF PresentNothing, Shape
<1>4. CASE Tick
  BY <1>4 DEF Tick, Shape
<1>5. CASE PanelStep
  BY <1>5, CountedIs DEF PanelStep, PanelTurns, PanelCloses, Announce, Shape
<1>6. CASE StateChanges \/ ReadState \/ PresentIdle \/ DesktopStep \/ UNCHANGED vars
  BY <1>6 DEF StateChanges, ReadState, PresentIdle, DesktopStep, Dismissed,
     ServerRestarts, NotifierEnds, vars, Shape
<1> QED
  BY <1>1, <1>2, <1>3, <1>4, <1>5, <1>6 DEF Next, NotifierStep

\* Once the notifier has no more to tell of an operation it stays so.
LEMMA MayTellFalls ==
  ASSUME Shape, Memory, [Next]_vars, NEW o \in Ops, MayTell(o)'
  PROVE  MayTell(o)
<1>0. op \in Nat /\ o \in Nat /\ (phase \in EndPhases => phase \notin LivePhases)
  BY NotifierAssumption DEF Shape, Ops, LivePhases, EndPhases
<1>1. CASE ReadState
  <2>1. phase' = phase /\ op' = op
    BY <1>1 DEF ReadState
  <2>2. CASE o > op
    BY <2>2 DEF MayTell
  <2>3. CASE o = op /\ phase \in LivePhases
    BY <1>0, <2>3 DEF MayTell, Memory, Over
  <2>4. CASE o = op /\ phase \notin LivePhases
    <3>1. nt'.observed = nt.observed
      BY <1>1, <2>4, ReadIs
    <3>2. nt'.finished # {o} => nt.finished # {o}
      BY <1>1, <2>4, ReadIs
    <3>3. nt'.last # {} /\ nt'.last # {op} => NewOperation
      BY <1>1, ReadIs DEF NewOperation
    <3>4. nt'.pending = {o} => \/ nt.pending = {o}
                               \/ /\ nt.observed = {op} \/ NewOperation
                                  /\ nt.finished # {op}
      BY <1>1, <2>4, ReadIs
    <3> QED
      BY <2>1, <2>4, <3>1, <3>2, <3>3, <3>4 DEF MayTell, NewOperation
  <2>5. CASE o < op
    BY <1>0, <1>1, <2>1, <2>5, ReadIs DEF MayTell
  <2> QED
    BY <1>0, <2>2, <2>3, <2>4, <2>5
<1>2. CASE ~ReadState
  <2>1. nt'.pending = {o} => nt.pending = {o}
    BY <1>2, MemoryMoves DEF Kept, Blank
  <2>2. o > op' => o > op
    BY <1>0, LifeStep, OthersLeaveState DEF Next, vars
  <2>3. ASSUME o = op', nt'.finished # {o},
               phase' \in LivePhases \/ nt'.observed = {o} \/ NewOperation'
        PROVE  MayTell(o)
    <3>1. CASE o # op
      BY <1>0, <2>3, <3>1, LifeStep, OthersLeaveState DEF Next, vars, MayTell
    <3>2. CASE o = op /\ phase \in LivePhases
      BY <1>0, <3>2 DEF MayTell, Memory, Over
    <3>3. CASE o = op /\ phase \notin LivePhases
      <4>1. phase' \notin LivePhases
        BY <1>0, <2>3, <3>3, LifeStep, OthersLeaveState DEF Next, vars, Shape, LivePhases,
           EndPhases, Ops
      <4>2. Kept
        BY <1>2, <2>3, <4>1, MemoryMoves DEF Blank, NewOperation
      <4> QED
        BY <2>3, <3>3, <4>1, <4>2 DEF Kept, MayTell, NewOperation
    <3> QED
      BY <3>1, <3>2, <3>3
  <2> QED
    BY <2>1, <2>2, <2>3 DEF MayTell
<1> QED
  BY <1>1, <1>2

\* No step breaks the tally: what is told is pending, and what was told without
\* a fault is not pending any more.
LEMMA TallyNext == Shape /\ Memory /\ Tally /\ [Next]_vars => Tally'
<1> SUFFICES ASSUME Shape, Memory, Tally, [Next]_vars, NEW o \in Ops
             PROVE  told'[o] <= IF MayTell(o)' THEN faults' ELSE faults' + 1
  BY DEF Tally
<1>0. told[o] \in Nat /\ faults \in Nat /\ faults' \in Nat
  BY ShapeNext DEF Shape
<1>1. told[o] <= IF MayTell(o) THEN faults ELSE faults + 1
  BY DEF Tally
<1>2. CASE told'[o] = told[o] /\ faults' >= faults
  BY <1>0, <1>1, <1>2, MayTellFalls
<1>3. ASSUME NEW outcome \in {"ok", "failed", "lost"}, NEW q \in nt.pending,
             UNCHANGED <<phase, op>>, Counted(outcome),
             told' = [told EXCEPT ![q] = IF outcome = "failed" THEN @ ELSE @ + 1],
             Slept(StillPending(outcome)), told'[o] # told[o]
      PROVE  told'[o] <= IF MayTell(o)' THEN faults' ELSE faults' + 1
  <2>1. nt.pending = {o}
    BY <1>3, OptionIs DEF Shape, NtType
  <2>2. told'[o] = told[o] + 1 /\ told[o] <= faults /\ outcome # "failed"
    BY <1>1, <1>3, <2>1 DEF MayTell, Shape
  <2>3. CASE outcome = "lost"
    BY <1>0, <1>3, <2>2, <2>3 DEF Counted
  <2>4. CASE outcome = "ok"
    <3>1. Over(o) /\ (o = op => nt.finished = {o})
      BY <2>1 DEF Memory
    <3>2. nt'.pending = {} /\ nt'.finished = nt.finished
      BY <1>3, <2>4, SleptIs, OptionIs DEF StillPending
    <3>3. ~MayTell(o)'
      BY <1>3, <3>1, <3>2, NotifierAssumption DEF MayTell, Over, Shape, Ops
    <3> QED
      BY <1>0, <1>3, <2>2, <2>4, <3>3 DEF Counted
  <2> QED
    BY <1>3, <2>2, <2>3, <2>4
<1>4. CASE told'[o] = told[o]
  BY <1>2, <1>4, Teller, CountedIs DEF Shape
<1>5. CASE told'[o] # told[o]
  BY <1>3, <1>5, Teller
<1> QED
  BY <1>4, <1>5

\* Along every behaviour the memory and the tally hold.
LEMMA Remembers == Spec => [](Shape /\ Memory /\ Tally)
  BY ShapeInit, ShapeNext, MemoryInit, MemoryNext, TallyNext, PTL DEF Spec

\* A result is told once, and once more for each call that failed or lost its
\* reply, through any reopening of panels and restarts of the notifier.
THEOREM TellsOnce == Spec => []ToldOnce
<1>1. Shape /\ Tally => ToldOnce
  <2> SUFFICES ASSUME Shape, Tally, NEW o \in Ops PROVE told[o] <= 1 + faults
    BY DEF ToldOnce
  <2> QED
    BY DEF Shape, Tally
<1> QED
  BY <1>1, Remembers, PTL

\* A result that was there when the notifier first read STATE is not told.
THEOREM HistoryIsSilent == Spec => NotReplayed
<1>1. Shape /\ Memory /\ [Next]_vars
        => [\A o \in Ops : told'[o] > told[o] => nt.old # {o}]_vars
  <2> SUFFICES ASSUME Shape, Memory, [Next]_vars, NEW o \in Ops, told'[o] > told[o]
               PROVE  nt.old # {o}
    OBVIOUS
  <2>1. nt.pending = {o}
    BY Teller, OptionIs DEF Shape, NtType
  <2> QED
    BY <2>1 DEF Memory
<1> QED
  BY <1>1, Remembers, PTL DEF Spec, NotReplayed
=============================================================================

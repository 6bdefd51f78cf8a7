-------------------------- MODULE SessionLoopProofs --------------------------
(***************************************************************************)
(* Theorems about SessionLoop, for any messages, operations and bounds.    *)
(*                                                                         *)
(* The inductive invariant IInv puts every message in one place (PlaceInv),*)
(* keeps in memory what the store has (KeptInv), says where a tool call    *)
(* may be open (PairInv) and where a goal may not be active (GoalInv).     *)
(* Each step's lemma shows that it keeps IInv and what it does to the      *)
(* messages (Conserved), and of the steps between loads and saves what     *)
(* they do to the transcript (Onward); the theorems follow from those.     *)
(***************************************************************************)
EXTENDS SessionLoopFacts

-----------------------------------------------------------------------------
(* The inductive invariant.  Types, with what the messages in each place are; *)
(* that each message is in one place; that what the store has is in memory or *)
(* removed; that calls have their results; where a goal may be active.        *)

Up == loop.at \notin {"off", "load"}
Running == loop.at \notin {"off", "load", "broken"}
\* In a step, where everything but the call made has been saved.
Steady == loop.at \in {"step", "ask", "tool"} \/ (loop.at = "save" /\ loop.quiet)

TypeInv ==
  /\ TypeOK
  /\ Names(chan, sent) /\ Names(pend, sent)
  /\ loop.first \in sent \cup {NoMsg} /\ note \in sent \cup {NoMsg}
  /\ note \in Notices \cup {NoMsg}
  /\ ToSet(mem.s.queue) \cup ToSet(disk.queue) \subseteq sent
  /\ Logged(mem.s.log) \cup Logged(disk.log) \subseteq sent
  /\ side <= spent.reports
  /\ mem.written <= Len(mem.s.log)

Unsaved == Behind(mem.s.log, mem.written)
Given == (IF loop.at = "load" THEN {loop.first} ELSE {}) \ {NoMsg}
Noted == {note} \ {NoMsg}
Waiting == Carried(chan) \cup Carried(pend)
Settled == ToSet(mem.s.queue) \cup Logged(mem.s.log) \cup Stored

PlaceInv ==
  /\ CarriedOnce(chan) /\ CarriedOnce(pend) /\ Carried(chan) \cap Carried(pend) = {}
  /\ Waiting \cap (Given \cup Noted \cup Settled) = {}
  /\ Given \cap (Noted \cup Settled) = {}
  /\ Noted \cap Settled = {}
  /\ IsInjective(mem.s.queue) /\ IsInjective(disk.queue)
  /\ Distinct(mem.s.log) /\ Distinct(disk.log)
  /\ ToSet(mem.s.queue) \cap (Logged(mem.s.log) \cup Logged(disk.log)) = {}
  /\ ToSet(disk.queue) \cap Logged(disk.log) = {}
  /\ loop.at = "save" /\ loop.phase = 1 => disk.queue = mem.s.queue
  /\ Running /\ ~ mem.dirty => Logged(Unsaved) \cap Logged(disk.log) = {}
  /\ Steady => Logged(Unsaved) = {}

KeptInv ==
  /\ ~ Up => mem.s = Blank
  /\ loop.at = "off" => chan = <<>> /\ pend = <<>> /\ loop.first = NoMsg
  /\ Up => loop.first \in Logged(mem.s.log) \cup {NoMsg}
  /\ Up => Logged(disk.log) \ Notices \subseteq Logged(mem.s.log)
  /\ Up => ToSet(disk.queue) \subseteq ToSet(mem.s.queue) \cup Logged(mem.s.log) \cup gone
  /\ sent \ Notices \subseteq InHand \cup Stored \cup gone

\* A step brings no message back and takes none out of the transcript.
Conserved ==
  /\ sent \subseteq sent'
  /\ (InHand \cup Stored)' \ {NoMsg} \subseteq InHand \cup Stored \cup (sent' \ sent)
  /\ (sent' \ sent) \ Notices \subseteq InHand'
  /\ Logged(disk.log) \ Notices \subseteq Logged(disk.log)'
  /\ sent' = sent \/ disk' = disk

\* Between loads and saves the transcript only grows, unless its middle is rewritten
\* for the next save.
Extends(a, b) == Len(a) <= Len(b) /\ \A i \in DOMAIN a : b[i] = a[i]
Onward == /\ Running /\ UNCHANGED <<disk, note, sent>>
          /\ mem'.written = mem.written /\ (mem.dirty => mem'.dirty)
          /\ mem'.dirty \/ Extends(mem.s.log, mem'.s.log)

\* What each step of the loop between loads and saves is shown to do.
Further == Conserved /\ Onward

LEMMA TypeFacts ==
  ASSUME TypeInv
  PROVE  /\ chan \in Seq(Input) /\ pend \in Seq(Input) /\ side \in Nat /\ loop \in Task
         /\ mem.s \in Scalar /\ mem.written \in 0 .. Len(mem.s.log) /\ mem.dirty \in BOOLEAN
         /\ mem = [s |-> mem.s, written |-> mem.written, dirty |-> mem.dirty]
         /\ disk \in Scalar /\ sent \subseteq Msgs /\ gone \subseteq sent /\ NoMsg \notin sent
<1>1. mem \in Memory BY DEF TypeInv, TypeOK
<1>2. /\ mem.s \in Scalar /\ mem.written \in Nat /\ mem.dirty \in BOOLEAN
      /\ mem = [s |-> mem.s, written |-> mem.written, dirty |-> mem.dirty]
  BY <1>1 DEF Memory
<1>3. Len(mem.s.log) \in Nat BY <1>2, ScalarFields
<1>4. mem.written \in 0 .. Len(mem.s.log) BY <1>2, <1>3 DEF TypeInv
<1> QED BY <1>2, <1>4, Numbers DEF TypeInv, TypeOK

\* What a step of the loop does to its inputs, of which it takes those of N.
InputPart(N) ==
  /\ chan' \in Seq(Input) /\ pend' \in Seq(Input)
  /\ Names(chan', sent) /\ Names(pend', sent)
  /\ CarriedOnce(chan') /\ CarriedOnce(pend') /\ Carried(chan') \cap Carried(pend') = {}
  /\ Carried(chan') \cup Carried(pend') \cup N = Waiting
  /\ (Carried(chan') \cup Carried(pend')) \cap N = {}

\* And to its memory.
MemPart(N, S, R) ==
  /\ mem' \in Memory /\ mem'.written = mem.written /\ (mem.dirty => mem'.dirty)
  /\ Len(mem.s.log) <= Len(mem'.s.log) /\ (mem'.dirty \/ Extends(mem.s.log, mem'.s.log))
  /\ Logged(mem'.s.log) = Logged(mem.s.log) \cup S /\ Distinct(mem'.s.log)
  /\ ~ mem'.dirty \/ Steady' =>
       Logged(Behind(mem'.s.log, mem.written)) = Logged(Unsaved) \cup S
  /\ S \subseteq ToSet(mem.s.queue) \cup N
  /\ IsInjective(mem'.s.queue)
  /\ ToSet(mem'.s.queue) \subseteq (ToSet(mem.s.queue) \cup N) \ S
  /\ ToSet(mem.s.queue) \cup N \subseteq ToSet(mem'.s.queue) \cup S \cup R
  /\ R \subseteq ToSet(mem.s.queue)
  /\ gone' = gone \cup R

\* And to its place.
LoopPart(S) ==
  /\ Running /\ loop' \in Task /\ Up'
  /\ loop'.first \in {loop.first, NoMsg}
  /\ Steady' => Steady /\ S = {}
  /\ loop'.at = "save" /\ loop'.phase = 1 =>
       loop.at = "save" /\ loop.phase = 1 /\ mem'.s.queue = mem.s.queue
  /\ UNCHANGED <<disk, note, sent>>
  /\ side' \in 0 .. side
  /\ spent' \in [steps : 0 .. MaxSteps, reports : {spent.reports}, inputs : 0 .. MaxInputs]

LEMMA InputsSame ==
  ASSUME TypeInv, PlaceInv, UNCHANGED <<chan, pend>> PROVE InputPart({})
  BY TypeFacts DEF InputPart, TypeInv, PlaceInv, Waiting

LEMMA InputsTaken ==
  ASSUME TypeInv, PlaceInv, chan # <<>>, chan' = Tail(chan), pend' = pend
  PROVE  InputPart(Brings(Head(chan)))
<1>1. /\ Tail(chan) \in Seq(Input)
      /\ Carried(chan) = Brings(Head(chan)) \cup Carried(Tail(chan))
      /\ CarriedOnce(Tail(chan)) /\ Brings(Head(chan)) \cap Carried(Tail(chan)) = {}
      /\ Names(Tail(chan), sent)
  BY TypeFacts, CarriedTail DEF TypeInv, PlaceInv
<1> QED BY <1>1, TypeFacts DEF InputPart, TypeInv, PlaceInv, Waiting

LEMMA PendingTaken ==
  ASSUME TypeInv, PlaceInv, pend # <<>>, pend' = Tail(pend), chan' = chan
  PROVE  InputPart(Brings(Head(pend)))
<1>1. /\ Tail(pend) \in Seq(Input)
      /\ Carried(pend) = Brings(Head(pend)) \cup Carried(Tail(pend))
      /\ CarriedOnce(Tail(pend)) /\ Brings(Head(pend)) \cap Carried(Tail(pend)) = {}
      /\ Names(Tail(pend), sent)
  BY TypeFacts, CarriedTail DEF TypeInv, PlaceInv
<1> QED BY <1>1, TypeFacts DEF InputPart, TypeInv, PlaceInv, Waiting

LEMMA InputsKept ==
  ASSUME TypeInv, PlaceInv, chan # <<>>, chan' = Tail(chan), pend' = Append(pend, Head(chan))
  PROVE  InputPart({})
<1>1. /\ Tail(chan) \in Seq(Input) /\ Head(chan) \in Input
      /\ Carried(chan) = Brings(Head(chan)) \cup Carried(Tail(chan))
      /\ CarriedOnce(Tail(chan)) /\ Brings(Head(chan)) \cap Carried(Tail(chan)) = {}
      /\ Names(Tail(chan), sent) /\ (Head(chan).k \in Naming => Head(chan).m \in sent)
  BY TypeFacts, CarriedTail DEF TypeInv, PlaceInv
<1>2. Append(pend, Head(chan)) \in Seq(Input) BY <1>1, TypeFacts, Appended
<1>3. Brings(Head(chan)) \cap Carried(pend) = {} BY <1>1 DEF PlaceInv
<1>4. /\ Carried(Append(pend, Head(chan))) = Carried(pend) \cup Brings(Head(chan))
      /\ CarriedOnce(Append(pend, Head(chan)))
      /\ Names(Append(pend, Head(chan)), sent)
  BY <1>1, <1>3, TypeFacts, CarriedAppend DEF PlaceInv, TypeInv
<1> QED BY <1>1, <1>2, <1>4 DEF InputPart, PlaceInv, Waiting

LEMMA WaitingSent == ASSUME TypeInv PROVE Waiting \subseteq sent
  BY TypeFacts, CarriedNamed DEF TypeInv, Waiting

LEMMA StateFields ==
  ASSUME TypeInv, NEW s \in Scalar, State(s)
  PROVE  /\ mem' \in Memory /\ mem'.s = s
         /\ mem'.written = mem.written /\ mem'.dirty = mem.dirty
  BY TypeFacts DEF State, Memory

LEMMA MemMoves ==
  ASSUME TypeInv, PlaceInv, NEW s, State(s), NEW N \in SUBSET Waiting, NEW S, NEW R,
         Moves(mem.s, s, N, S, R), R \subseteq ToSet(mem.s.queue), gone' = gone \cup R
  PROVE  MemPart(N, S, R)
<1>1. s \in Scalar BY DEF Moves
<1>2. /\ mem' \in Memory /\ mem'.s = s
      /\ mem'.written = mem.written /\ mem'.dirty = mem.dirty
  BY <1>1, StateFields
<1>3. /\ mem.s.log \in Seq(Entry) /\ mem.written \in 0 .. Len(mem.s.log)
      /\ Grows(mem.s.log, s.log, S)
  BY TypeFacts, ScalarFields DEF Moves
<1>4. S \subseteq ToSet(mem.s.queue) \cup N BY DEF Moves
<1>5. S \subseteq sent BY <1>4, WaitingSent DEF TypeInv
<1>6. S \in SUBSET Msgs BY <1>5, TypeFacts
<1>7. Logged(mem.s.log) \cap S = {}
  <2>1. N \cap Logged(mem.s.log) = {} BY DEF PlaceInv, Settled
  <2>2. ToSet(mem.s.queue) \cap Logged(mem.s.log) = {} BY DEF PlaceInv
  <2> QED BY <1>4, <2>1, <2>2
<1>8. Logged(s.log) = Logged(mem.s.log) \cup S /\ Distinct(s.log)
  BY <1>3, <1>6, <1>7, GrowsLogged DEF PlaceInv
<1>9. Logged(Behind(s.log, mem.written)) = Logged(Unsaved) \cup S
  BY <1>3, <1>6, GrowsTail DEF Unsaved
<1>10. Len(mem.s.log) <= Len(s.log) /\ Extends(mem.s.log, s.log) BY <1>3 DEF Grows, Extends
<1> QED BY <1>2, <1>4, <1>8, <1>9, <1>10 DEF MemPart, Moves

\* A step of the loop made of these parts keeps the invariant.
LEMMA PartsTypes ==
  ASSUME TypeInv, PlaceInv, NEW N \in SUBSET Waiting, NEW S, NEW R,
         InputPart(N), MemPart(N, S, R), LoopPart(S)
  PROVE  TypeInv'
<1>1. TypeOK'
  <2>1. chan' \in Seq(Input) /\ pend' \in Seq(Input) BY DEF InputPart
  <2>2. mem' \in Memory /\ loop' \in Task BY DEF MemPart, LoopPart
  <2>3. gone' \subseteq sent' BY TypeFacts DEF MemPart, LoopPart, TypeInv
  <2>4. /\ disk' \in Scalar /\ note' \in SomeMsg /\ sent' \subseteq Msgs
        /\ side' \in 0 .. MaxReports
        /\ spent' \in [steps : 0 .. MaxSteps, reports : 0 .. MaxReports, inputs : 0 .. MaxInputs]
    BY Numbers DEF LoopPart, TypeInv, TypeOK
  <2> QED BY <2>1, <2>2, <2>3, <2>4 DEF TypeOK
<1>2. S \subseteq sent BY WaitingSent DEF MemPart, TypeInv
<1>3. Logged(mem'.s.log) \subseteq sent /\ ToSet(mem'.s.queue) \subseteq sent
  BY <1>2, WaitingSent DEF MemPart, TypeInv
<1>4. mem'.written <= Len(mem'.s.log)
  <2>1. mem'.s \in Scalar BY DEF MemPart, Memory
  <2>2. Len(mem'.s.log) \in Nat BY <2>1, ScalarFields
  <2>3. Len(mem.s.log) \in Nat /\ mem.written \in Nat BY TypeFacts, ScalarFields
  <2> QED BY <2>2, <2>3 DEF MemPart, TypeInv
<1>5. side' <= spent'.reports
  <2>1. spent'.reports = spent.reports BY DEF LoopPart
  <2>2. spent.reports \in Nat /\ side \in Nat BY Numbers DEF TypeInv, TypeOK
  <2> QED BY <2>1, <2>2 DEF LoopPart, TypeInv
<1>6. Names(chan', sent') /\ Names(pend', sent') BY DEF InputPart, LoopPart
<1>7. /\ loop'.first \in sent' \cup {NoMsg} /\ note' \in sent' \cup {NoMsg}
      /\ note' \in Notices \cup {NoMsg}
  BY DEF LoopPart, TypeInv
<1>8. /\ ToSet(mem'.s.queue) \cup ToSet(disk'.queue) \subseteq sent'
      /\ Logged(mem'.s.log) \cup Logged(disk'.log) \subseteq sent'
  BY <1>3 DEF LoopPart, TypeInv
<1> QED BY <1>1, <1>4, <1>5, <1>6, <1>7, <1>8 DEF TypeInv

LEMMA PartsPlaces ==
  ASSUME TypeInv, PlaceInv, NEW N \in SUBSET Waiting, NEW S, NEW R,
         InputPart(N), MemPart(N, S, R), LoopPart(S)
  PROVE  PlaceInv'
<1> DEFINE W == Carried(chan') \cup Carried(pend')
           Q == ToSet(mem.s.queue)
           L == Logged(mem.s.log)
           D == ToSet(disk.queue) \cup Logged(disk.log)
           QQ == ToSet(mem'.s.queue)
           LL == Logged(mem'.s.log)
<1>1. W \subseteq Waiting /\ W \cap N = {} BY DEF InputPart
<1>2. LL = L \cup S /\ S \subseteq Q \cup N /\ QQ \subseteq (Q \cup N) \ S BY DEF MemPart
<1>3. Waiting \cap (Q \cup L \cup D) = {} /\ Waiting \cap Noted = {} /\ Noted \cap (Q \cup L \cup D) = {}
  BY DEF PlaceInv, Settled, Stored
<1>4. Q \cap (L \cup Logged(disk.log)) = {} BY DEF PlaceInv
<1>5. Given' = {} BY DEF LoopPart, Up, Given
<1>6. Noted' = Noted /\ disk' = disk BY DEF LoopPart, Noted
<1>7. Waiting' = W BY DEF Waiting
<1>8. Settled' = QQ \cup LL \cup D BY <1>6 DEF Settled, Stored
<1>9. W \cap (QQ \cup LL \cup D) = {} /\ W \cap Noted = {}
  BY <1>1, <1>2, <1>3
<1>10. Noted \cap (QQ \cup LL \cup D) = {} BY <1>2, <1>3
<1>11. QQ \cap (LL \cup Logged(disk.log)) = {}
  <2>1. N \cap (L \cup Logged(disk.log)) = {} BY <1>3
  <2> QED BY <1>2, <1>4, <2>1
<1>12. loop'.at = "save" /\ loop'.phase = 1 => disk'.queue = mem'.s.queue
  BY <1>6 DEF LoopPart, PlaceInv
<1>13. ~ mem'.dirty => Logged(Unsaved)' \cap Logged(disk.log) = {}
  <2> SUFFICES ASSUME ~ mem'.dirty PROVE Logged(Unsaved)' \cap Logged(disk.log) = {}
    OBVIOUS
  <2>1. mem.dirty \in BOOLEAN /\ mem'.dirty \in BOOLEAN BY TypeFacts DEF MemPart, Memory
  <2>2. ~ mem.dirty BY <2>1 DEF MemPart
  <2>3. Logged(Unsaved') = Logged(Unsaved) \cup S BY DEF MemPart, Unsaved
  <2>4. Logged(Unsaved) \cap Logged(disk.log) = {} BY <2>2 DEF PlaceInv, LoopPart
  <2>5. S \cap Logged(disk.log) = {} BY <1>2, <1>3, <1>4
  <2> QED BY <2>3, <2>4, <2>5
<1>14. Steady' => Logged(Unsaved)' = {}
  <2> SUFFICES ASSUME Steady' PROVE Logged(Unsaved') = {} OBVIOUS
  <2>1. Steady /\ S = {} BY DEF LoopPart
  <2>2. Logged(Unsaved') = Logged(Unsaved) \cup S BY DEF MemPart, Unsaved
  <2> QED BY <2>1, <2>2 DEF PlaceInv
<1>15. /\ CarriedOnce(chan') /\ CarriedOnce(pend') /\ Carried(chan') \cap Carried(pend') = {}
       /\ IsInjective(mem'.s.queue) /\ Distinct(mem'.s.log)
  BY DEF InputPart, MemPart
<1>16. /\ IsInjective(disk'.queue) /\ Distinct(disk'.log)
       /\ ToSet(disk'.queue) \cap Logged(disk'.log) = {}
  BY <1>6 DEF PlaceInv
<1>17. /\ Waiting' \cap (Given' \cup Noted' \cup Settled') = {}
       /\ Given' \cap (Noted' \cup Settled') = {}
       /\ Noted' \cap Settled' = {}
       /\ ToSet(mem'.s.queue) \cap (Logged(mem'.s.log) \cup Logged(disk'.log)) = {}
  BY <1>5, <1>6, <1>7, <1>8, <1>9, <1>10, <1>11
<1> QED BY <1>6, <1>12, <1>13, <1>14, <1>15, <1>16, <1>17 DEF PlaceInv

LEMMA PartsKept ==
  ASSUME TypeInv, PlaceInv, KeptInv, NEW N \in SUBSET Waiting, NEW S, NEW R,
         InputPart(N), MemPart(N, S, R), LoopPart(S)
  PROVE  KeptInv' /\ Conserved
<1> DEFINE W == Carried(chan') \cup Carried(pend')
           Q == ToSet(mem.s.queue)
           L == Logged(mem.s.log)
           D == ToSet(disk.queue) \cup Logged(disk.log)
           QQ == ToSet(mem'.s.queue)
           LL == Logged(mem'.s.log)
<1>1. W \cup N = Waiting BY DEF InputPart
<1>2. /\ LL = L \cup S /\ S \subseteq Q \cup N /\ QQ \subseteq (Q \cup N) \ S
      /\ Q \cup N \subseteq QQ \cup S \cup R /\ gone' = gone \cup R
  BY DEF MemPart
<1>3. disk' = disk /\ note' = note /\ sent' = sent /\ loop'.first \in {loop.first, NoMsg}
  BY DEF LoopPart
<1>4. Up /\ Up' BY DEF LoopPart, Running, Up
<1>5. InHand = Waiting \cup {loop.first, note} \cup Q \cup L /\ Stored = D
  BY DEF InHand, Stored, Waiting
<1>6. InHand' = W \cup {loop'.first, note} \cup QQ \cup LL /\ Stored' = D
  BY <1>3 DEF InHand, Stored
<1>7. loop.first \in L \cup {NoMsg} BY <1>4 DEF KeptInv
<1>8. NoMsg \notin sent BY TypeFacts
<1>9. sent' \ Notices \subseteq InHand' \cup Stored' \cup gone'
  <2>1. sent \ Notices \subseteq InHand \cup D \cup gone BY <1>5 DEF KeptInv
  <2> QED BY <2>1, <1>1, <1>2, <1>3, <1>5, <1>6, <1>7, <1>8
<1>10. /\ loop'.first \in LL \cup {NoMsg}
       /\ Logged(disk'.log) \ Notices \subseteq LL
       /\ ToSet(disk'.queue) \subseteq QQ \cup LL \cup gone'
  BY <1>2, <1>3, <1>4, <1>7 DEF KeptInv
<1>11. KeptInv' BY <1>4, <1>9, <1>10 DEF KeptInv, Up
<1>12. Conserved
  <2>1. (InHand' \cup Stored') \ {NoMsg} \subseteq InHand \cup Stored
    BY <1>1, <1>2, <1>3, <1>5, <1>6
  <2> QED BY <2>1, <1>3 DEF Conserved
<1> QED BY <1>11, <1>12

PlaceAndKept == TypeInv /\ PlaceInv /\ KeptInv

LEMMA PartsKeep ==
  ASSUME PlaceAndKept, NEW N \in SUBSET Waiting, NEW S, NEW R,
         InputPart(N), MemPart(N, S, R), LoopPart(S)
  PROVE  PlaceAndKept' /\ Further
  BY PartsTypes, PartsPlaces, PartsKept DEF PlaceAndKept, Further, Onward, MemPart, LoopPart

-----------------------------------------------------------------------------
(* Calls and their results; an interrupt and the goal. *)

Inside == loop.at \in {"ask", "tool"} \/ (loop.at = "save" /\ loop.quiet)
Onwards == {"boot", "top", "flush", "drain", "step", "end", "broken"}

PairInv ==
  /\ loop.at = "save" =>
       IF loop.quiet THEN loop.then \in {"ask", "tool"} ELSE loop.then \in Onwards
  /\ Inside => AnsweredBefore(mem.s.log)
  /\ Running /\ ~ Inside /\ ~ (loop.at = "cancel" /\ loop.cut) => Answered(mem.s.log)

Ending(l) == l.at = "end" \/ (l.at = "save" /\ l.then = "end")
GoalInv == Ending(loop) => mem.s.goal # "active"

IInv == PlaceAndKept /\ PairInv /\ GoalInv

LEMMA SavingFields ==
  ASSUME NEW l \in Task, NEW p \in Points
  PROVE  /\ Saving(l, p) \in Task /\ Saving(l, p).at = "save" /\ Saving(l, p).then = p
         /\ Saving(l, p).phase = 0 /\ Saving(l, p).quiet = FALSE
         /\ Saving(l, p).first = l.first /\ Saving(l, p).cut = l.cut
<1>1. "save" \in Points BY DEF Points
<1>2. 0 \in 0 .. 1 OBVIOUS
<1> QED BY <1>1, <1>2 DEF Saving, Task

LEMMA FreshFields ==
  ASSUME NEW l \in Task
  PROVE  Fresh(l) \in Task /\ Fresh(l).first = l.first /\ Fresh(l).cut = l.cut
  BY DEF Fresh, Task

\* Where a step outside the tools may lead.
Outer(l) ==
  /\ l \in Task
  /\ l.at \notin {"off", "load", "cancel", "step", "ask", "tool"}
  /\ l.at = "save" => ~ l.quiet /\ l.phase = 0 /\ l.then \in Onwards
  /\ l.first \in {loop.first, NoMsg}

LEMMA OuterSaving ==
  ASSUME NEW l \in Task, NEW p \in Onwards, l.first \in {loop.first, NoMsg}
  PROVE  /\ Outer(Saving(l, p)) /\ (p # "end" => ~ Ending(Saving(l, p)))
         /\ Outer(Saving(Fresh(l), p)) /\ (p # "end" => ~ Ending(Saving(Fresh(l), p)))
<1>1. p \in Points BY DEF Onwards, Points
<1> QED BY <1>1, SavingFields, FreshFields DEF Outer, Ending

LEMMA OuterGoto ==
  ASSUME NEW l \in Task, l.first \in {loop.first, NoMsg},
         NEW p \in {"boot", "top", "apply", "flush", "drain", "end", "recover", "park"}
  PROVE  LET t == [l EXCEPT !.at = p]
         IN  Outer(t) /\ (p # "end" => ~ Ending(t))
<1>1. p \in Points BY DEF Points
<1> QED BY <1>1 DEF Outer, Ending, Task

LEMMA OuterStep ==
  ASSUME IInv, Running, ~ Inside, loop.at # "cancel",
         NEW N \in SUBSET Waiting, NEW S, NEW R, NEW s,
         InputPart(N), State(s), Turns(mem.s, s, N, S, R),
         R \subseteq ToSet(mem.s.queue), gone' = gone \cup R,
         Outer(loop'), s.goal = "active" => ~ Ending(loop'),
         UNCHANGED <<disk, note, sent, spent>>, side' \in 0 .. side
  PROVE  IInv' /\ Further
<1>1. TypeInv /\ PlaceInv BY DEF IInv, PlaceAndKept
<1>2. Moves(mem.s, s, N, S, R) /\ NoCalls(mem.s.log, s.log) BY DEF Turns
<1>3. MemPart(N, S, R) BY <1>1, <1>2, MemMoves
<1>4. mem'.s = s BY <1>1, <1>2, StateFields DEF Moves
<1>5. ~ Steady' /\ ~ Inside' /\ Up' BY DEF Outer, Steady, Inside, Up
<1>6. spent' \in [steps : 0 .. MaxSteps, reports : {spent.reports}, inputs : 0 .. MaxInputs]
  BY <1>1 DEF TypeInv, TypeOK
<1>7. LoopPart(S) BY <1>5, <1>6 DEF LoopPart, Outer
<1>8. PlaceAndKept' /\ Further BY <1>3, <1>7, PartsKeep DEF IInv
<1>9. Answered(mem.s.log) BY DEF IInv, PairInv
<1>10. Answered(s.log)
  <2>1. mem.s.log \in Seq(Entry) /\ Grows(mem.s.log, s.log, S)
    BY <1>1, <1>2, TypeFacts, ScalarFields DEF Moves
  <2> QED BY <1>2, <1>9, <2>1, GrowsAnswered
<1>11. PairInv' BY <1>4, <1>5, <1>10 DEF PairInv, Outer
<1>12. GoalInv' BY <1>4 DEF GoalInv
<1> QED BY <1>8, <1>11, <1>12 DEF IInv

\* The same when the memory stays as it is.
LEMMA SameState ==
  ASSUME TypeInv, UNCHANGED mem PROVE State(mem.s)
  BY TypeFacts DEF State

LEMMA OuterSame ==
  ASSUME IInv, Running, ~ Inside, loop.at # "cancel",
         UNCHANGED <<chan, pend>>, NEW s \in Scalar, State(s),
         s.queue = mem.s.queue, s.log = mem.s.log,
         Outer(loop'), s.goal = "active" => ~ Ending(loop'),
         UNCHANGED <<disk, note, sent, spent, gone>>, side' \in 0 .. side
  PROVE  IInv' /\ Further
<1>1. TypeInv /\ PlaceInv BY DEF IInv, PlaceAndKept
<1>2. Turns(mem.s, s, {}, {}, {})
  BY <1>1, TypeFacts, MovesNot DEF PlaceInv
<1>3. InputPart({}) BY <1>1, InputsSame
<1> QED BY <1>2, <1>3, OuterStep

LEMMA OuterMark ==
  ASSUME IInv, Running, ~ Inside, loop.at # "cancel",
         UNCHANGED <<chan, pend>>, NEW s \in Scalar, State(s),
         NEW k \in Marks, k # "call",
         s.queue = mem.s.queue, s.log = Put(mem.s.log, k, NoMsg),
         Outer(loop'), s.goal = "active" => ~ Ending(loop'),
         UNCHANGED <<disk, note, sent, spent, gone>>, side' \in 0 .. side
  PROVE  IInv' /\ Further
<1>1. TypeInv /\ PlaceInv BY DEF IInv, PlaceAndKept
<1>2. Turns(mem.s, s, {}, {}, {})
  BY <1>1, TypeFacts, MovesMark DEF PlaceInv
<1>3. InputPart({}) BY <1>1, InputsSame
<1> QED BY <1>2, <1>3, OuterStep

-----------------------------------------------------------------------------
(* The steps of the loop outside its tools. *)

LEMMA Outwards ==
  ASSUME IInv
  PROVE  /\ TypeInv /\ PlaceInv /\ loop \in Task /\ mem.s \in Scalar /\ side \in Nat
         /\ IsInjective(mem.s.queue)
         /\ (UNCHANGED mem => State(mem.s))
  BY TypeFacts, SameState DEF IInv, PlaceAndKept, PlaceInv

LEMMA StatusType ==
  ASSUME NEW s \in Scalar, NEW x \in Statuses
  PROVE  LET t == [s EXCEPT !.status = x]
         IN  t \in Scalar /\ t.queue = s.queue /\ t.log = s.log /\ t.goal = s.goal
  BY DEF Scalar

LEMMA AskedType ==
  ASSUME NEW s \in Scalar, NEW x \in Statuses, NEW a \in BOOLEAN
  PROVE  LET t == [s EXCEPT !.status = x, !.asked = a]
         IN  t \in Scalar /\ t.queue = s.queue /\ t.log = s.log /\ t.goal = s.goal
  BY DEF Scalar

LEMMA PausedType ==
  ASSUME NEW s \in Scalar
  PROVE  /\ Paused(s) \in Scalar /\ Paused(s).queue = s.queue /\ Paused(s).log = s.log
         /\ Paused(s).goal # "active"
  BY DEF Paused, Scalar, Goals

LEMMA HaltedType ==
  ASSUME NEW s \in Scalar
  PROVE  /\ Halted(s) \in Scalar /\ Halted(s).queue = s.queue /\ Halted(s).log = s.log
         /\ Halted(s).goal # "active"
<1>1. PICK t \in Scalar : t = Paused(s) BY PausedType
<1>2. Halted(s) = [t EXCEPT !.asked = FALSE, !.status = "interrupted"] BY <1>1 DEF Halted
<1>3. /\ Halted(s) \in Scalar /\ Halted(s).queue = t.queue /\ Halted(s).log = t.log
      /\ Halted(s).goal = t.goal
  BY <1>2 DEF Scalar, Statuses
<1> QED BY <1>1, <1>3, PausedType

LEMMA BootKeeps == ASSUME IInv, Boot PROVE IInv' /\ Further
<1> DEFINE over == mem.s.status \in {"failed", "interrupted"}
           l == [loop EXCEPT !.first = NoMsg]
           x == IF over THEN "idle" ELSE mem.s.status
           s == [mem.s EXCEPT !.status = x]
<1>1. State(s) /\ (loop' = Saving(l, "top") \/ loop' = [l EXCEPT !.at = "top"])
  BY DEF Boot
<1>2. l \in Task /\ l.first = NoMsg BY Outwards DEF Task, SomeMsg
<1>3. s \in Scalar /\ s.queue = mem.s.queue /\ s.log = mem.s.log
  <2>1. x \in Statuses BY Outwards, ScalarFields DEF Statuses
  <2> HIDE DEF x
  <2> QED BY <2>1, Outwards, StatusType
<1> HIDE DEF s, l
<1>4. Outer(loop') /\ ~ Ending(loop')
  BY <1>1, <1>2, OuterSaving, OuterGoto DEF Onwards
<1>5. loop.at = "boot" /\ UNCHANGED <<chan, pend, side, disk, note, sent, spent, gone>>
  BY DEF Boot, inputs, rest
<1>6. Running /\ ~ Inside /\ side' \in 0 .. side BY <1>5, Outwards DEF Running, Inside
<1> QED BY <1>1, <1>3, <1>4, <1>5, <1>6, OuterSame

LEMMA TopKeeps == ASSUME IInv, Top PROVE IInv' /\ Further
<1> DEFINE l == [loop EXCEPT !.was = mem.s.status = "running", !.moved = FALSE, !.keep = FALSE]
<1>1. l \in Task /\ l.first = loop.first /\ loop' = [l EXCEPT !.at = "apply"]
  BY Outwards DEF Task, Top
<1> HIDE DEF l
<1>2. Outer(loop') /\ ~ Ending(loop') BY <1>1, OuterGoto
<1>3. loop.at = "top" /\ UNCHANGED <<chan, pend, side, mem, disk, note, sent, spent, gone>>
  BY DEF Top, inputs, rest
<1>4. Running /\ ~ Inside /\ side' \in 0 .. side /\ State(mem.s)
  BY <1>3, Outwards DEF Running, Inside
<1> QED BY <1>2, <1>3, <1>4, Outwards, OuterSame

LEMMA ApplyingKeeps == ASSUME IInv, Applying PROVE IInv' /\ Further
<1> DEFINE l == [loop EXCEPT !.was = FALSE, !.moved = FALSE, !.keep = FALSE]
           x == IF loop.was \/ loop.moved THEN "running" ELSE mem.s.status
           s == [mem.s EXCEPT !.status = x]
<1>1. State(s) /\ (loop' = Saving(l, "flush") \/ loop' = [l EXCEPT !.at = "flush"])
  BY DEF Applying
<1>2. l \in Task /\ l.first = loop.first BY Outwards DEF Task
<1>3. s \in Scalar /\ s.queue = mem.s.queue /\ s.log = mem.s.log
  <2>1. x \in Statuses BY Outwards, ScalarFields DEF Statuses
  <2> HIDE DEF x
  <2> QED BY <2>1, Outwards, StatusType
<1> HIDE DEF s, l
<1>4. Outer(loop') /\ ~ Ending(loop')
  BY <1>1, <1>2, OuterSaving, OuterGoto DEF Onwards
<1>5. loop.at = "apply" /\ UNCHANGED <<chan, pend, side, disk, note, sent, spent, gone>>
  BY DEF Applying, inputs, rest
<1>6. Running /\ ~ Inside /\ side' \in 0 .. side BY <1>5, Outwards DEF Running, Inside
<1> QED BY <1>1, <1>3, <1>4, <1>5, <1>6, OuterSame

LEMMA BranchKeeps == ASSUME IInv, Branch PROVE IInv' /\ Further
<1>1. PICK p \in {"drain", "park"} : loop' = [loop EXCEPT !.at = p]
  BY DEF Branch, Goto
<1>2. Outer(loop') /\ ~ Ending(loop') BY <1>1, Outwards, OuterGoto
<1>3. /\ loop.at \in {"flush", "top"}
      /\ UNCHANGED <<chan, pend, side, mem, disk, note, sent, spent, gone>>
  BY DEF Branch, Ready, inputs, rest
<1>4. Running /\ ~ Inside /\ side' \in 0 .. side /\ State(mem.s)
  BY <1>3, Outwards DEF Running, Inside
<1> QED BY <1>2, <1>3, <1>4, Outwards, OuterSame

LEMMA EndTurnKeeps == ASSUME IInv, EndTurn PROVE IInv' /\ Further
<1>1. PICK s \in Scalar : State(s) /\ s.queue = mem.s.queue /\ s.log = mem.s.log
  <2>1. "idle" \in Statuses /\ "waiting" \in Statuses BY DEF Statuses
  <2>2. CASE State([mem.s EXCEPT !.status = "idle"]) BY <2>1, <2>2, Outwards, StatusType
  <2>3. CASE State([mem.s EXCEPT !.status = "waiting", !.asked = TRUE])
    BY <2>1, <2>3, Outwards, AskedType
  <2> QED BY <2>2, <2>3 DEF EndTurn
<1>2. Outer(loop') /\ ~ Ending(loop')
  BY Outwards, OuterSaving DEF EndTurn, Onwards
<1>3. loop.at = "step" /\ UNCHANGED <<chan, pend, side, disk, note, sent, spent, gone>>
  BY DEF EndTurn, inputs, rest
<1>4. Running /\ ~ Inside /\ side' \in 0 .. side BY <1>3, Outwards DEF Running, Inside
<1> QED BY <1>1, <1>2, <1>3, <1>4, OuterSame

LEMMA ModelErrorKeeps == ASSUME IInv, ModelError PROVE IInv' /\ Further
<1>1. loop.at = "step" /\ UNCHANGED <<chan, pend, side, disk, note, sent, spent, gone>>
  BY DEF ModelError, inputs, rest
<1>2. Running /\ ~ Inside /\ side' \in 0 .. side BY <1>1, Outwards DEF Running, Inside
<1>3. CASE \E s \in {mem.s, Paused(mem.s)}, p \in {"top", "broken"}, x \in {"idle", "failed"} :
             State([s EXCEPT !.status = x]) /\ loop' = Saving(loop, p)
  <2>1. PICK s \in {mem.s, Paused(mem.s)}, p \in {"top", "broken"}, x \in {"idle", "failed"} :
               State([s EXCEPT !.status = x]) /\ loop' = Saving(loop, p)
    BY <1>3
  <2>2. s \in Scalar /\ s.queue = mem.s.queue /\ s.log = mem.s.log
    BY Outwards, PausedType
  <2>3. PICK t \in Scalar : /\ t = [s EXCEPT !.status = x]
                            /\ t.queue = mem.s.queue /\ t.log = mem.s.log
    <3>1. x \in Statuses BY DEF Statuses
    <3> DEFINE t == [s EXCEPT !.status = x]
    <3>2. t \in Scalar /\ t.queue = s.queue /\ t.log = s.log BY <2>2, <3>1, StatusType
    <3> HIDE DEF t
    <3>3. t = [s EXCEPT !.status = x] BY DEF t
    <3> QED BY <2>2, <3>2, <3>3
  <2>4. Outer(loop') /\ ~ Ending(loop') BY <2>1, Outwards, OuterSaving DEF Onwards
  <2> QED BY <1>1, <1>2, <2>1, <2>3, <2>4, OuterSame
<1>4. CASE loop' = [loop EXCEPT !.at = "recover", !.errors = @ + 1] /\ UNCHANGED mem
  <2>1. PICK n \in Nat : loop' = [loop EXCEPT !.at = "recover", !.errors = n]
    <3> DEFINE n == loop.errors + 1
    <3>1. loop.errors \in Nat BY Outwards DEF Task
    <3>2. n \in Nat BY <3>1
    <3>3. loop' = [loop EXCEPT !.at = "recover", !.errors = n] BY <1>4
    <3> QED BY <3>2, <3>3, Zenon
  <2> DEFINE l == [loop EXCEPT !.errors = n]
  <2>2. l \in Task /\ l.first = loop.first /\ loop' = [l EXCEPT !.at = "recover"]
    BY <2>1, Outwards DEF Task
  <2> HIDE DEF l
  <2>3. Outer(loop') /\ ~ Ending(loop') BY <2>2, OuterGoto
  <2> QED BY <1>1, <1>2, <1>4, <2>3, Outwards, OuterSame
<1> QED BY <1>3, <1>4 DEF ModelError

LEMMA RetryKeeps == ASSUME IInv, Retry PROVE IInv' /\ Further
<1>1. Outer(loop') /\ ~ Ending(loop')
  BY Outwards, OuterSaving DEF Retry, Onwards
<1>2. loop.at = "recover" /\ UNCHANGED <<chan, pend, side, mem, disk, note, sent, spent, gone>>
  BY DEF Retry, inputs, rest
<1>3. Running /\ ~ Inside /\ side' \in 0 .. side /\ State(mem.s)
  BY <1>2, Outwards DEF Running, Inside
<1> QED BY <1>1, <1>2, <1>3, Outwards, OuterSame

LEMMA RestedKeeps == ASSUME IInv, Rested PROVE IInv' /\ Further
<1>1. Outer(loop') /\ ~ Ending(loop') BY Outwards, OuterGoto DEF Rested, Goto
<1>2. PICK s \in Scalar : /\ s = [mem.s EXCEPT !.status = "idle"]
                          /\ s.queue = mem.s.queue /\ s.log = mem.s.log
  BY Outwards, StatusType DEF Statuses
<1>3. State(s) BY <1>2 DEF Rested
<1>4. loop.at = "end" /\ UNCHANGED <<chan, pend, side, disk, note, sent, spent, gone>>
  BY DEF Rested, inputs, rest
<1>5. Running /\ ~ Inside /\ side' \in 0 .. side BY <1>4, Outwards DEF Running, Inside
<1> QED BY <1>1, <1>2, <1>3, <1>4, <1>5, OuterSame

\* Growing twice.
LEMMA GrowsTwice ==
  ASSUME NEW a \in Seq(Entry), NEW b \in Seq(Entry), NEW c \in Seq(Entry), NEW S, NEW T,
         Grows(a, b, S), Grows(b, c, T), S \cap T = {}, NoMsg \notin S \cup T
  PROVE  /\ Grows(a, c, S \cup T)
         /\ NoCalls(a, b) /\ NoCalls(b, c) => NoCalls(a, c)
<1>1. /\ Len(a) \in Nat /\ Len(b) \in Nat /\ Len(c) \in Nat
      /\ DOMAIN a = 1 .. Len(a) /\ DOMAIN b = 1 .. Len(b) /\ DOMAIN c = 1 .. Len(c)
      /\ Len(a) <= Len(b) /\ Len(b) <= Len(c)
      /\ \A i \in DOMAIN a : b[i] = a[i]
      /\ \A i \in DOMAIN b : c[i] = b[i]
  BY DEF Grows
<1>2. \A i \in DOMAIN c : i > Len(a) /\ i <= Len(b) => i \in DOMAIN b /\ c[i] = b[i]
  BY <1>1
<1>3. \A i \in DOMAIN c : i > Len(a) /\ i <= Len(b) => c[i].m \in S \cup {NoMsg}
  BY <1>2 DEF Grows
<1>4. \A i \in DOMAIN c : i > Len(b) => c[i].m \in T \cup {NoMsg}
  BY DEF Grows
<1>5. \A i \in DOMAIN c : i > Len(a) => c[i].m \in S \cup T \cup {NoMsg}
  <2>1. \A i \in DOMAIN c : i <= Len(b) \/ i > Len(b) BY <1>1
  <2> QED BY <1>3, <1>4, <2>1
<1>6. \A m \in S \cup T : \E i \in DOMAIN c : i > Len(a) /\ c[i].m = m
  <2>1. ASSUME NEW m \in S PROVE \E i \in DOMAIN c : i > Len(a) /\ c[i].m = m
    <3>1. PICK i \in DOMAIN b : i > Len(a) /\ b[i].m = m BY DEF Grows
    <3>2. i \in DOMAIN c /\ c[i] = b[i] BY <1>1
    <3> QED BY <3>1, <3>2
  <2>2. ASSUME NEW m \in T PROVE \E i \in DOMAIN c : i > Len(a) /\ c[i].m = m
    <3>1. PICK i \in DOMAIN c : i > Len(b) /\ c[i].m = m BY DEF Grows
    <3>2. i > Len(a) BY <1>1, <3>1
    <3> QED BY <3>1, <3>2
  <2> QED BY <2>1, <2>2
<1>7. ASSUME NEW i \in DOMAIN c, NEW j \in DOMAIN c, i > Len(a), j > Len(a),
             c[i].m # NoMsg, c[i].m = c[j].m
      PROVE  i = j
  <2>1. CASE i <= Len(b) /\ j <= Len(b)
    <3>1. /\ i \in DOMAIN b /\ c[i] = b[i] /\ j \in DOMAIN b /\ c[j] = b[j]
      BY <1>2, <1>7, <2>1
    <3> QED BY <1>7, <3>1 DEF Grows
  <2>2. CASE i > Len(b) /\ j > Len(b) BY <1>7, <2>2 DEF Grows
  <2>3. CASE i <= Len(b) /\ j > Len(b) BY <1>3, <1>4, <1>7, <2>3
  <2>4. CASE i > Len(b) /\ j <= Len(b) BY <1>3, <1>4, <1>7, <2>4
  <2> QED BY <1>1, <2>1, <2>2, <2>3, <2>4
<1>8. Grows(a, c, S \cup T)
  <2>1. \A i \in DOMAIN a : c[i] = a[i] BY <1>1
  <2> QED BY <1>1, <1>5, <1>6, <1>7, <2>1 DEF Grows
<1>9. ASSUME NoCalls(a, b), NoCalls(b, c) PROVE NoCalls(a, c)
  <2>1. \A i \in DOMAIN c : i <= Len(b) \/ i > Len(b) BY <1>1
  <2> QED BY <1>2, <1>9, <2>1 DEF NoCalls
<1> QED BY <1>8, <1>9

\* A state that grows the log, with fields of the rest replaced.
LEMMA LogType ==
  ASSUME NEW s \in Scalar, NEW log \in Seq(Entry)
  PROVE  LET t == [s EXCEPT !.log = log]
         IN  t \in Scalar /\ t.queue = s.queue /\ t.log = log /\ t.goal = s.goal
  BY DEF Scalar

LEMMA QueueSet ==
  ASSUME NEW s \in Scalar, NEW q \in Seq(Msgs)
  PROVE  LET t == [s EXCEPT !.queue = q]
         IN  t \in Scalar /\ t.queue = q /\ t.log = s.log
  BY DEF Scalar

LEMMA ReportedTurns ==
  ASSUME NEW s \in Scalar, IsInjective(s.queue), NEW n \in Nat
  PROVE  /\ Reported(s, n) \in Scalar /\ Reported(s, n).goal = s.goal
         /\ Reported(s, n).queue = s.queue
         /\ \A R : Turns(s, Reported(s, n), {}, {}, R)
<1>1. PICK log \in Seq(Entry) : /\ log = Reported(s, n).log /\ Reported(s, n) = [s EXCEPT !.log = log]
                                /\ Grows(s.log, log, {}) /\ NoCalls(s.log, log)
  BY ReportedFacts DEF Grows
<1>2. PICK t \in Scalar : /\ t = Reported(s, n) /\ t.queue = s.queue /\ t.log = log
                          /\ t.goal = s.goal
  <2> DEFINE t == [s EXCEPT !.log = log]
  <2>1. t \in Scalar /\ t.queue = s.queue /\ t.log = log /\ t.goal = s.goal BY LogType
  <2>2. t = Reported(s, n) BY <1>1
  <2> HIDE DEF t
  <2> QED BY <2>1, <2>2
<1>3. \A R : Turns(s, t, {}, {}, R) BY <1>1, <1>2 DEF Turns, Moves
<1> QED BY <1>2, <1>3

LEMMA TurnsEnd ==
  ASSUME NEW s \in Scalar, NEW t \in Scalar, NEW u \in Scalar, NEW N, NEW S, NEW R,
         Turns(s, t, N, S, R), u.queue = t.queue, u.log = t.log
  PROVE  Turns(s, u, N, S, R)
  BY DEF Turns, Moves

LEMMA FlushKeeps == ASSUME IInv, Flush PROVE IInv' /\ Further
<1>1. mem.s \in Scalar /\ mem.s.queue # <<>> /\ mem.s.queue \in Seq(Msgs) /\ IsInjective(mem.s.queue)
  BY Outwards, ScalarFields DEF Flush
<1> DEFINE q == mem.s.queue
           e == [mem.s EXCEPT !.queue = <<>>]
           f == Accepted(e, Head(q))
           s == AllSteered(f, Tail(q))
<1>2. /\ Head(q) \in Msgs /\ Tail(q) \in Seq(Msgs) /\ IsInjective(Tail(q))
      /\ ToSet(q) = {Head(q)} \cup ToSet(Tail(q)) /\ Head(q) \notin ToSet(Tail(q))
  BY <1>1, ToSetTail
<1>3. e \in Scalar /\ e.queue = <<>> /\ e.log = mem.s.log
  <2>1. <<>> \in Seq(Msgs) OBVIOUS
  <2> QED BY <1>1, <2>1, QueueSet
<1>4. State(s) BY DEF Flush
<1> HIDE DEF q, e
<1>5. PICK k \in {"user", "answer"} :
        f \in Scalar /\ f.queue = <<>> /\ f.log = Put(mem.s.log, k, Head(q))
  BY <1>2, <1>3, AcceptedFields
<1> HIDE DEF f
<1>6. /\ s = [f EXCEPT !.log = s.log]
      /\ Grows(f.log, s.log, ToSet(Tail(q))) /\ NoCalls(f.log, s.log)
  BY <1>2, <1>5, AllSteeredFacts
<1> HIDE DEF s
<1>7. s.log \in Seq(Entry) BY <1>6 DEF Grows
<1>8. s \in Scalar /\ s.queue = <<>>
  <2>1. PICK log \in Seq(Entry) : log = s.log BY <1>7
  <2>2. s = [f EXCEPT !.log = log] BY <1>6, <2>1
  <2> QED BY <1>5, <2>2, LogType
<1>9. Grows(mem.s.log, f.log, {Head(q)}) /\ NoCalls(mem.s.log, f.log)
  <2>1. k \in Marks /\ k # "call" BY DEF Marks
  <2>2. Head(q) \in SomeMsg /\ {Head(q)} \ {NoMsg} = {Head(q)} BY <1>2, Numbers DEF SomeMsg
  <2>3. mem.s.log \in Seq(Entry) BY <1>1, ScalarFields
  <2> QED BY <1>5, <2>1, <2>2, <2>3, GrowsPut
<1>10. Grows(mem.s.log, s.log, ToSet(q)) /\ NoCalls(mem.s.log, s.log)
  <2>1. PICK a \in Seq(Entry) : a = mem.s.log BY <1>1, ScalarFields
  <2>2. PICK b \in Seq(Entry) : b = f.log BY <1>5, ScalarFields
  <2>3. PICK c \in Seq(Entry) : c = s.log BY <1>7
  <2>4. ToSet(Tail(q)) \subseteq Msgs BY <1>2 DEF ToSet
  <2>5. {Head(q)} \cap ToSet(Tail(q)) = {} /\ NoMsg \notin {Head(q)} \cup ToSet(Tail(q))
    BY <1>2, <2>4, Numbers
  <2>6. Grows(a, b, {Head(q)}) /\ Grows(b, c, ToSet(Tail(q))) /\ NoCalls(a, b) /\ NoCalls(b, c)
    BY <1>6, <1>9, <2>1, <2>2, <2>3
  <2>7. Grows(a, c, {Head(q)} \cup ToSet(Tail(q))) /\ NoCalls(a, c)
    BY <2>5, <2>6, GrowsTwice
  <2> QED BY <1>2, <2>1, <2>3, <2>7
<1>11. Turns(mem.s, s, {}, ToSet(q), {})
  <2>1. IsInjective(s.queue) /\ ToSet(s.queue) = {} BY <1>8 DEF IsInjective, ToSet
  <2> QED BY <1>8, <1>10, <2>1 DEF Turns, Moves, q
<1>12. Outer(loop') /\ ~ Ending(loop')
  BY Outwards, OuterSaving DEF Flush, Onwards
<1>13. /\ loop.at \in {"flush", "top"}
       /\ UNCHANGED <<chan, pend, side, disk, note, sent, spent, gone>>
  BY DEF Flush, Ready, inputs, rest
<1>14. Running /\ ~ Inside /\ side' \in 0 .. side BY <1>13, Outwards DEF Running, Inside
<1>15. InputPart({}) BY <1>13, Outwards, InputsSame
<1> QED BY <1>4, <1>11, <1>12, <1>13, <1>14, <1>15, OuterStep

LEMMA DrainedKeeps == ASSUME IInv, Drained PROVE IInv' /\ Further
<1> DEFINE r == Reported(mem.s, side)
           l == [loop EXCEPT !.cut = FALSE]
<1>1. r \in Scalar /\ Turns(mem.s, r, {}, {}, {}) BY Outwards, ReportedTurns
<1>2. l \in Task /\ l.first = loop.first BY Outwards DEF Task
<1>3. /\ State(IF loop.cut THEN Halted(r) ELSE r)
      /\ loop' = Saving(l, IF loop.cut THEN "end" ELSE "step")
  BY DEF Drained
<1> HIDE DEF r, l
<1>4. /\ loop.at = "drain" /\ side' = 0
      /\ UNCHANGED <<chan, pend, disk, note, sent, spent, gone>>
  BY DEF Drained, rest
<1>5. Running /\ ~ Inside /\ side' \in 0 .. side BY <1>4, Outwards DEF Running, Inside
<1>6. InputPart({}) BY <1>4, Outwards, InputsSame
<1>7. CASE loop.cut
  <2>1. PICK t \in Scalar : t = Halted(r) /\ t.queue = r.queue /\ t.log = r.log /\ t.goal # "active"
    BY <1>1, HaltedType
  <2>2. Turns(mem.s, t, {}, {}, {}) BY <1>1, <2>1, Outwards, TurnsEnd
  <2>3. Outer(loop') BY <1>2, <1>3, <1>7, OuterSaving DEF Onwards
  <2> QED BY <1>3, <1>4, <1>5, <1>6, <1>7, <2>1, <2>2, <2>3, OuterStep
<1>8. CASE ~ loop.cut
  <2>1. Outer(loop') /\ ~ Ending(loop') BY <1>2, <1>3, <1>8, OuterSaving DEF Onwards
  <2> QED BY <1>1, <1>3, <1>4, <1>5, <1>6, <1>8, <2>1, OuterStep
<1> QED BY <1>7, <1>8

LEMMA ParkReportKeeps == ASSUME IInv, ParkReport PROVE IInv' /\ Further
<1> DEFINE r == Reported(mem.s, 1)
           x == IF r.status = "idle" THEN "running" ELSE r.status
           t == [r EXCEPT !.status = x]
<1>1. r \in Scalar /\ Turns(mem.s, r, {}, {}, {}) BY Outwards, ReportedTurns
<1>2. State(t) BY DEF ParkReport
<1> HIDE DEF r
<1>3. t \in Scalar /\ t.queue = r.queue /\ t.log = r.log
  <2>1. x \in Statuses BY <1>1, ScalarFields DEF Statuses
  <2> HIDE DEF x
  <2> QED BY <1>1, <2>1, StatusType
<1> HIDE DEF t
<1>4. Turns(mem.s, t, {}, {}, {}) BY <1>1, <1>3, Outwards, TurnsEnd
<1>5. Outer(loop') /\ ~ Ending(loop')
  BY Outwards, OuterSaving DEF ParkReport, Onwards
<1>6. /\ loop.at = "park" /\ side' = side - 1 /\ side > 0
      /\ UNCHANGED <<chan, pend, disk, note, sent, spent, gone>>
  BY DEF ParkReport, rest
<1>7. Running /\ ~ Inside /\ side' \in 0 .. side BY <1>6, Outwards DEF Running, Inside
<1>8. InputPart({}) BY <1>6, Outwards, InputsSame
<1> QED BY <1>2, <1>4, <1>5, <1>6, <1>7, <1>8, OuterStep

LEMMA DriveKeeps == ASSUME IInv, Drive PROVE IInv' /\ Further
<1>1. Outer(loop') /\ ~ Ending(loop') BY Outwards, OuterSaving DEF Drive, Onwards
<1>2. loop.at = "park" /\ UNCHANGED <<chan, pend, side, disk, note, sent, spent, gone>>
  BY DEF Drive, inputs, rest
<1>3. Running /\ ~ Inside /\ side' \in 0 .. side BY <1>2, Outwards DEF Running, Inside
<1>4. CASE State(Paused(mem.s))
  BY <1>1, <1>2, <1>3, <1>4, Outwards, PausedType, OuterSame
<1>5. CASE State([mem.s EXCEPT !.status = "running", !.log = Put(@, "drive", NoMsg)])
  <2> DEFINE u == [mem.s EXCEPT !.log = Put(@, "drive", NoMsg)]
             t == [u EXCEPT !.status = "running"]
  <2>1. u \in Scalar /\ u.queue = mem.s.queue /\ u.log = Put(mem.s.log, "drive", NoMsg)
    BY Outwards, RecordType DEF Marks, SomeMsg
  <2>2. State(t) BY <1>5
  <2> HIDE DEF u
  <2>3. t \in Scalar /\ t.queue = u.queue /\ t.log = u.log
    BY <2>1, StatusType DEF Statuses
  <2> HIDE DEF t
  <2>4. "drive" \in Marks BY DEF Marks
  <2> QED BY <1>1, <1>2, <1>3, <2>1, <2>2, <2>3, <2>4, OuterMark
<1> QED BY <1>4, <1>5 DEF Drive

\* What is known of an input at the head of a queue.
LEMMA HeadFacts ==
  ASSUME IInv, NEW q \in {chan, pend}, q # <<>>
  PROVE  /\ Head(q) \in Input
         /\ Head(q).k \in Naming => Head(q).m \in Msgs
         /\ Brings(Head(q)) \in SUBSET Waiting
         /\ Brings(Head(q)) \cap ToSet(mem.s.queue) = {}
<1>1. TypeInv /\ PlaceInv BY DEF IInv, PlaceAndKept
<1>2. q \in Seq(Input) /\ Names(q, sent) BY <1>1, TypeFacts DEF TypeInv
<1>3. /\ Head(q) \in Input /\ Carried(q) = Brings(Head(q)) \cup Carried(Tail(q))
      /\ Head(q).k \in Naming => Head(q).m \in sent
  BY <1>2, CarriedTail
<1>4. Brings(Head(q)) \subseteq Waiting BY <1>3 DEF Waiting
<1>5. Brings(Head(q)) \cap ToSet(mem.s.queue) = {}
  BY <1>1, <1>4 DEF PlaceInv, Settled
<1> QED BY <1>1, <1>3, <1>4, <1>5, TypeFacts

LEMMA RemovedHeld == \A s, i : Removed(s, i) \subseteq ToSet(s.queue)
  BY HoldsIs DEF Removed

\* A message taken up as a request or an answer.
LEMMA AcceptedTurns ==
  ASSUME NEW s \in Scalar, IsInjective(s.queue), NEW m \in Msgs, NEW N \in SUBSET {m},
         m \in ToSet(s.queue) \cup N, NEW R
  PROVE  Turns(s, Accepted([s EXCEPT !.queue = Without(@, m)], m), N, {m}, R)
<1> DEFINE e == [s EXCEPT !.queue = Without(@, m)]
           t == Accepted(e, m)
<1>1. e \in Scalar /\ e.queue = Without(s.queue, m) /\ e.log = s.log BY TakenFields
<1> HIDE DEF e
<1>2. PICK k \in {"user", "answer"} : t \in Scalar /\ t.queue = e.queue /\ t.log = Put(e.log, k, m)
  BY <1>1, AcceptedFields
<1> HIDE DEF t
<1>3. k \in Marks /\ k # "call" BY DEF Marks
<1>4. Turns(s, t, N, {m}, R) BY <1>1, <1>2, <1>3, MovesTaken
<1> QED BY <1>4 DEF t, e

LEMMA QueuedTurns ==
  ASSUME NEW s \in Scalar, IsInjective(s.queue), NEW m \in Msgs, m \notin ToSet(s.queue), NEW R
  PROVE  Turns(s, [s EXCEPT !.queue = Append(@, m)], {m}, {}, R)
<1> DEFINE t == [s EXCEPT !.queue = Append(@, m)]
<1>1. t \in Scalar /\ t.queue = Append(s.queue, m) /\ t.log = s.log BY QueueType
<1> HIDE DEF t
<1>2. Turns(s, t, {m}, {}, R) BY <1>1, MovesQueued
<1> QED BY <1>2 DEF t

LEMMA AcceptedNew ==
  ASSUME NEW s \in Scalar, IsInjective(s.queue), NEW m \in Msgs, m \notin ToSet(s.queue), NEW R
  PROVE  Turns(s, Accepted(s, m), {m}, {m}, R)
<1> DEFINE t == Accepted(s, m)
<1>1. PICK k \in {"user", "answer"} : t \in Scalar /\ t.queue = s.queue /\ t.log = Put(s.log, k, m)
  BY AcceptedFields
<1> HIDE DEF t
<1>2. k \in Marks /\ k # "call" BY DEF Marks
<1>3. Turns(s, t, {m}, {m}, R) BY <1>1, <1>2, MovesNew
<1> QED BY <1>3 DEF t

LEMMA ApplyPendingKeeps == ASSUME IInv, ApplyPending PROVE IInv' /\ Further
<1> DEFINE i == Head(pend)
           s == mem.s
           m == i.m
           taken == [s EXCEPT !.queue = Without(@, m)]
           talks == (i.k = "say" /\ (loop.was \/ ~Hold(s, m))) \/ (i.k = "steer" /\ Holds(s, m))
           after == IF i.k = "say" /\ ~talks THEN [s EXCEPT !.queue = Append(@, m)]
                    ELSE IF talks /\ ~loop.was THEN Accepted(taken, m) ELSE Applied(s, i)
           l == [loop EXCEPT
              !.moved = @ \/ talks \/ (i.k # "say" /\ ~loop.was /\ after.status = "running"),
              !.keep = @ \/ (~talks /\ i.k # "approve"),
              !.errors = IF talks /\ ~loop.was THEN 0 ELSE @]
           R == Removed(s, i)
<1>1. /\ loop.at = "apply" /\ pend # <<>> /\ pend' = Tail(pend)
      /\ State(after) /\ loop' = l /\ gone' = gone \cup R
      /\ UNCHANGED <<chan, side, disk, note, sent, spent>>
  BY DEF ApplyPending, rest
<1>2. /\ i \in Input /\ (i.k \in Naming => m \in Msgs)
      /\ Brings(i) \in SUBSET Waiting /\ Brings(i) \cap ToSet(s.queue) = {}
  BY <1>1, HeadFacts
<1>3. s \in Scalar /\ IsInjective(s.queue) BY Outwards
<1>4. InputPart(Brings(i)) BY <1>1, Outwards, PendingTaken
<1>5. R \subseteq ToSet(s.queue) BY RemovedHeld
<1>6. Outer(loop') /\ ~ Ending(loop')
  <2>1. l \in Task /\ l.at = "apply" /\ l.first = loop.first BY <1>1, Outwards DEF Task
  <2> HIDE DEF l
  <2> QED BY <1>1, <2>1 DEF Outer, Ending
<1> HIDE DEF R, l
<1>7. \E S \in SUBSET Msgs : Turns(s, after, Brings(i), S, R)
  <2>1. CASE i.k = "say" /\ ~ talks
    <3>1. m \in Msgs /\ Brings(i) = {m} /\ m \notin ToSet(s.queue)
      BY <1>2, <2>1 DEF Naming, Talk, Brings
    <3>2. after = [s EXCEPT !.queue = Append(@, m)] BY <2>1
    <3> HIDE DEF after
    <3>3. Turns(s, after, {m}, {}, R) BY <1>3, <3>1, <3>2, QueuedTurns
    <3> QED BY <3>1, <3>3
  <2>2. CASE talks /\ ~ loop.was
    <3>1. m \in Msgs /\ Brings(i) \in SUBSET {m} /\ m \in ToSet(s.queue) \cup Brings(i)
      BY <1>2, <2>2, HoldsIs DEF Naming, Talk, Brings
    <3>2. after = Accepted(taken, m) BY <2>2
    <3> HIDE DEF after
    <3>3. Turns(s, after, Brings(i), {m}, R) BY <1>3, <3>1, <3>2, AcceptedTurns
    <3> QED BY <3>1, <3>3
  <2>3. CASE ~ (i.k = "say" /\ ~ talks) /\ ~ (talks /\ ~ loop.was)
    <3>1. after = Applied(s, i) BY <2>3
    <3> HIDE DEF after
    <3>2. \E S \in SUBSET Msgs : Turns(s, Applied(s, i), Brings(i), S, R)
      BY <1>2, <1>3, AppliedTurns DEF R
    <3> QED BY <3>1, <3>2
  <2> QED BY <2>1, <2>2, <2>3
<1> HIDE DEF after
<1>8. PICK S \in SUBSET Msgs : Turns(s, after, Brings(i), S, R) BY <1>7
<1>9. Running /\ ~ Inside /\ side' \in 0 .. side BY <1>1, Outwards DEF Running, Inside
<1> QED BY <1>1, <1>2, <1>4, <1>5, <1>6, <1>8, <1>9, OuterStep

LEMMA DrainInputKeeps == ASSUME IInv, DrainInput PROVE IInv' /\ Further
<1> DEFINE i == Head(chan)
           s == mem.s
           l == [loop EXCEPT !.cut = @ \/ i.k = "interrupt"]
<1>1. /\ loop.at = "drain" /\ chan # <<>> /\ chan' = Tail(chan) /\ loop' = l
      /\ UNCHANGED <<side, disk, note, sent, spent>>
  BY DEF DrainInput, rest
<1>2. /\ i \in Input /\ (i.k \in Naming => i.m \in Msgs)
      /\ Brings(i) \in SUBSET Waiting /\ Brings(i) \cap ToSet(s.queue) = {}
  BY <1>1, HeadFacts
<1>3. s \in Scalar /\ IsInjective(s.queue) BY Outwards
<1>4. Outer(loop') /\ ~ Ending(loop')
  <2>1. l \in Task /\ l.at = "drain" /\ l.first = loop.first BY <1>1, Outwards DEF Task
  <2> HIDE DEF l
  <2> QED BY <1>1, <2>1 DEF Outer, Ending
<1> HIDE DEF l
<1>5. Running /\ ~ Inside /\ side' \in 0 .. side BY <1>1, Outwards DEF Running, Inside
<1>6. CASE ~ loop.cut
  <2> DEFINE t == Applied(s, i)
             R == Removed(s, i)
  <2>1. State(t) /\ pend' = pend /\ gone' = gone \cup R BY <1>6 DEF DrainInput
  <2>2. PICK S \in SUBSET Msgs : Turns(s, t, Brings(i), S, R) BY <1>2, <1>3, AppliedTurns
  <2>3. InputPart(Brings(i)) BY <1>1, <2>1, Outwards, InputsTaken
  <2>4. R \subseteq ToSet(s.queue) BY RemovedHeld
  <2> HIDE DEF t, R
  <2> QED BY <1>1, <1>2, <1>4, <1>5, <2>1, <2>2, <2>3, <2>4, OuterStep
<1>7. CASE loop.cut
  <2>1. State(s) /\ gone' = gone \cup {} BY <1>7 DEF DrainInput
  <2>2. Turns(s, s, {}, {}, {}) BY <1>3, MovesNot
  <2>3. InputPart({})
    <3>1. CASE i.k = "interrupt"
      <4>1. pend' = pend BY <3>1 DEF DrainInput
      <4>2. Brings(i) = {} BY <3>1 DEF Brings, Talk
      <4> QED BY <1>1, <4>1, <4>2, Outwards, InputsTaken
    <3>2. CASE i.k # "interrupt"
      <4>1. pend' = Append(pend, i) BY <1>7, <3>2 DEF DrainInput
      <4> QED BY <1>1, <4>1, Outwards, InputsKept
    <3> QED BY <3>1, <3>2
  <2> QED BY <1>1, <1>4, <1>5, <2>1, <2>2, <2>3, OuterStep
<1> QED BY <1>6, <1>7

LEMMA ParkInputKeeps == ASSUME IInv, ParkInput PROVE IInv' /\ Further
<1> DEFINE i == Head(chan)
           s == mem.s
           m == i.m
           R == Removed(s, i)
           taken == [s EXCEPT !.queue = Without(@, m)]
           t == CASE i.k = "say" /\ Hold(s, m) -> [s EXCEPT !.queue = Append(@, m)]
                  [] i.k = "say" /\ ~Hold(s, m) -> Accepted(s, m)
                  [] i.k = "steer" /\ Holds(s, m) -> Accepted(taken, m)
                  [] i.k = "interrupt" -> Halted(s)
                  [] OTHER -> Applied(s, i)
<1>1. /\ loop.at = "park" /\ chan # <<>> /\ chan' = Tail(chan) /\ pend' = pend
      /\ State(t) /\ gone' = gone \cup R
      /\ UNCHANGED <<side, disk, note, sent, spent>>
      /\ \/ loop' = [loop EXCEPT !.at = "top"]
         \/ i.k = "interrupt" /\ loop' = Saving(loop, "end")
         \/ loop' = Saving(Fresh(loop), "top")
         \/ loop' = Saving(loop, "top")
  BY DEF ParkInput, rest
<1>2. /\ i \in Input /\ (i.k \in Naming => m \in Msgs)
      /\ Brings(i) \in SUBSET Waiting /\ Brings(i) \cap ToSet(s.queue) = {}
  BY <1>1, HeadFacts
<1>3. s \in Scalar /\ IsInjective(s.queue) BY Outwards
<1>4. InputPart(Brings(i)) BY <1>1, Outwards, InputsTaken
<1>5. R \subseteq ToSet(s.queue) BY RemovedHeld
<1>6. Running /\ ~ Inside /\ side' \in 0 .. side BY <1>1, Outwards DEF Running, Inside
<1>7. Outer(loop') /\ (i.k # "interrupt" => ~ Ending(loop'))
  BY <1>1, Outwards, OuterSaving, OuterGoto DEF Onwards
<1> HIDE DEF R
<1>8. \E S \in SUBSET Msgs : Turns(s, t, Brings(i), S, R)
  <2>1. CASE i.k = "say" /\ Hold(s, m)
    <3>1. m \in Msgs /\ Brings(i) = {m} /\ m \notin ToSet(s.queue)
      BY <1>2, <2>1 DEF Naming, Talk, Brings
    <3>2. t = [s EXCEPT !.queue = Append(@, m)] BY <2>1
    <3> HIDE DEF t
    <3>3. Turns(s, t, {m}, {}, R) BY <1>3, <3>1, <3>2, QueuedTurns
    <3> QED BY <3>1, <3>3
  <2>2. CASE i.k = "say" /\ ~ Hold(s, m)
    <3>1. m \in Msgs /\ Brings(i) = {m} /\ m \notin ToSet(s.queue)
      BY <1>2, <2>2 DEF Naming, Talk, Brings
    <3>2. t = Accepted(s, m) BY <2>2
    <3> HIDE DEF t
    <3>3. Turns(s, t, {m}, {m}, R) BY <1>3, <3>1, <3>2, AcceptedNew
    <3> QED BY <3>1, <3>3
  <2>3. CASE i.k = "steer" /\ Holds(s, m)
    <3>1. m \in Msgs /\ Brings(i) = {} /\ m \in ToSet(s.queue)
      BY <1>2, <2>3, HoldsIs DEF Naming, Talk, Brings
    <3>2. t = Accepted(taken, m) BY <2>3
    <3> HIDE DEF t
    <3>3. Turns(s, t, {}, {m}, R) BY <1>3, <3>1, <3>2, AcceptedTurns
    <3> QED BY <3>1, <3>3
  <2>4. CASE i.k = "interrupt"
    <3>1. t = Halted(s) /\ Brings(i) = {} BY <2>4 DEF Brings, Talk
    <3> HIDE DEF t
    <3>2. Turns(s, t, {}, {}, R) BY <1>3, <3>1, HaltedType, MovesNot
    <3> QED BY <3>1, <3>2
  <2>5. CASE i.k \notin {"say", "interrupt"} /\ ~ (i.k = "steer" /\ Holds(s, m))
    <3>1. t = Applied(s, i) BY <2>5
    <3> HIDE DEF t
    <3>2. \E S \in SUBSET Msgs : Turns(s, Applied(s, i), Brings(i), S, R)
      BY <1>2, <1>3, AppliedTurns DEF R
    <3> QED BY <3>1, <3>2
  <2> QED BY <2>1, <2>2, <2>3, <2>4, <2>5
<1>9. i.k = "interrupt" => t.goal # "active" BY <1>3, HaltedType
<1> HIDE DEF t
<1>10. PICK S \in SUBSET Msgs : Turns(s, t, Brings(i), S, R) BY <1>8
<1> QED BY <1>1, <1>2, <1>4, <1>5, <1>6, <1>7, <1>9, <1>10, OuterStep

-----------------------------------------------------------------------------
(* The steps inside a call, and what an interrupt cuts off. *)

LEMMA InnerStep ==
  ASSUME IInv, NEW N \in SUBSET Waiting, NEW s, InputPart(N), State(s),
         Moves(mem.s, s, N, {}, {}), LoopPart({}), UNCHANGED gone
  PROVE  PlaceAndKept' /\ Further /\ mem'.s = s
<1>1. gone' = gone \cup {} OBVIOUS
<1>2. MemPart(N, {}, {}) BY <1>1, Outwards, MemMoves
<1>3. mem'.s = s BY Outwards, StateFields DEF Moves
<1> QED BY <1>2, <1>3, PartsKeep DEF IInv

LEMMA SpentSame ==
  ASSUME IInv, UNCHANGED spent
  PROVE  spent' \in [steps : 0 .. MaxSteps, reports : {spent.reports}, inputs : 0 .. MaxInputs]
  BY Outwards DEF TypeInv, TypeOK

LEMMA CallKeeps == ASSUME IInv, Call PROVE IInv' /\ Further
<1>1. /\ loop.at = "step" /\ spent' = [spent EXCEPT !.steps = @ + 1] /\ spent.steps < MaxSteps
      /\ UNCHANGED <<chan, pend, side, disk, note, sent, gone>>
  BY DEF Call, inputs
<1>2. PICK ask \in BOOLEAN :
        /\ State([mem.s EXCEPT !.log = Put(@, "call", NoMsg),
                               !.status = IF ask THEN "waiting" ELSE @])
        /\ loop' = Quietly(loop, IF ask THEN "ask" ELSE "tool")
  BY DEF Call
<1> DEFINE x == IF ask THEN "waiting" ELSE mem.s.status
           t == [mem.s EXCEPT !.log = Put(@, "call", NoMsg), !.status = x]
<1>3. State(t) BY <1>2
<1>4. t \in Scalar /\ t.queue = mem.s.queue /\ t.log = Put(mem.s.log, "call", NoMsg)
  <2>1. x \in Statuses BY Outwards, ScalarFields DEF Statuses
  <2> HIDE DEF x
  <2>2. "call" \in Marks /\ NoMsg \in SomeMsg BY DEF Marks, SomeMsg
  <2>3. Put(mem.s.log, "call", NoMsg) \in Seq(Entry)
    BY <2>2, Outwards, ScalarFields, GrowsPut DEF Grows
  <2> QED BY <2>1, <2>3, Outwards DEF Scalar
<1> HIDE DEF t, x
<1>5. /\ Grows(mem.s.log, t.log, {})
      /\ Answered(mem.s.log) => AnsweredBefore(t.log)
  <2>1. "call" \in Marks /\ NoMsg \in SomeMsg /\ {NoMsg} \ {NoMsg} = {} BY DEF Marks, SomeMsg
  <2>2. PICK a \in Seq(Entry) : a = mem.s.log BY Outwards, ScalarFields
  <2>3. /\ Grows(a, Put(a, "call", NoMsg), {NoMsg} \ {NoMsg})
        /\ AnsweredBefore(Put(a, "call", NoMsg)) <=>
             Answered(a) \/ (AnsweredBefore(a) /\ "call" = "result")
        /\ "call" # "call" => (Answered(Put(a, "call", NoMsg)) <=> AnsweredBefore(Put(a, "call", NoMsg)))
    BY <2>1, GrowsPut
  <2> QED BY <1>4, <2>1, <2>2, <2>3
<1>6. Moves(mem.s, t, {}, {}, {}) BY <1>4, <1>5, Outwards DEF Moves
<1>7. /\ loop' \in Task /\ loop'.at = "save" /\ loop'.phase = 0 /\ loop'.quiet
      /\ loop'.first = loop.first /\ loop'.then \in {"ask", "tool"}
  <2>1. PICK p \in {"ask", "tool"} : loop' = [Saving(loop, p) EXCEPT !.quiet = TRUE]
    BY <1>2 DEF Quietly
  <2>2. p \in Points BY DEF Points
  <2>3. PICK l \in Task : l = Saving(loop, p) /\ l.at = "save" /\ l.phase = 0 /\ l.then = p
                          /\ l.first = loop.first
    BY <2>2, Outwards, SavingFields
  <2> QED BY <2>1, <2>3 DEF Task
<1>8. spent' \in [steps : 0 .. MaxSteps, reports : {spent.reports}, inputs : 0 .. MaxInputs]
  <2>1. spent \in [steps : 0 .. MaxSteps, reports : 0 .. MaxReports, inputs : 0 .. MaxInputs]
    BY Outwards DEF TypeInv, TypeOK
  <2> QED BY <1>1, <2>1, Numbers
<1>9. LoopPart({})
  <2>1. side' \in 0 .. side BY <1>1, Outwards
  <2> QED BY <1>1, <1>7, <1>8, <2>1 DEF LoopPart, Running, Up, Steady
<1>10. InputPart({}) BY <1>1, Outwards, InputsSame
<1>11. PlaceAndKept' /\ Further /\ mem'.s = t
  BY <1>1, <1>3, <1>6, <1>9, <1>10, InnerStep
<1>12. PairInv'
  <2>1. Answered(mem.s.log) BY <1>1 DEF IInv, PairInv, Running, Inside
  <2> QED BY <1>5, <1>7, <1>11, <2>1 DEF PairInv, Inside
<1>13. GoalInv' BY <1>7 DEF GoalInv, Ending
<1> QED BY <1>11, <1>12, <1>13 DEF IInv

LEMMA ResultKeeps == ASSUME IInv, Result PROVE IInv' /\ Further
<1>1. /\ loop.at = "tool" /\ loop' = Saving(Fresh(loop), "top")
      /\ UNCHANGED <<chan, pend, side, disk, note, sent, spent, gone>>
  BY DEF Result, inputs, rest
<1>2. PICK done \in {FALSE, mem.s.goal = "active"} :
        State([mem.s EXCEPT !.log = Put(@, "result", NoMsg),
                            !.goal = IF done THEN "complete" ELSE @])
  BY DEF Result
<1> DEFINE g == IF done THEN "complete" ELSE mem.s.goal
           t == [mem.s EXCEPT !.log = Put(@, "result", NoMsg), !.goal = g]
<1>3. State(t) BY <1>2
<1>4. t \in Scalar /\ t.queue = mem.s.queue /\ t.log = Put(mem.s.log, "result", NoMsg)
  <2>1. g \in Goals BY Outwards, ScalarFields DEF Goals
  <2> HIDE DEF g
  <2>2. "result" \in Marks /\ NoMsg \in SomeMsg BY DEF Marks, SomeMsg
  <2>3. Put(mem.s.log, "result", NoMsg) \in Seq(Entry)
    BY <2>2, Outwards, ScalarFields, GrowsPut DEF Grows
  <2> QED BY <2>1, <2>3, Outwards DEF Scalar
<1> HIDE DEF t, g
<1>5. /\ Grows(mem.s.log, t.log, {})
      /\ AnsweredBefore(mem.s.log) => Answered(t.log)
  <2>1. "result" \in Marks /\ NoMsg \in SomeMsg /\ {NoMsg} \ {NoMsg} = {} BY DEF Marks, SomeMsg
  <2>2. PICK a \in Seq(Entry) : a = mem.s.log BY Outwards, ScalarFields
  <2>3. /\ Grows(a, Put(a, "result", NoMsg), {NoMsg} \ {NoMsg})
        /\ AnsweredBefore(Put(a, "result", NoMsg)) <=>
             Answered(a) \/ (AnsweredBefore(a) /\ "result" = "result")
        /\ "result" # "call" => (Answered(Put(a, "result", NoMsg)) <=> AnsweredBefore(Put(a, "result", NoMsg)))
    BY <2>1, GrowsPut
  <2> QED BY <1>4, <2>1, <2>2, <2>3
<1>6. Moves(mem.s, t, {}, {}, {}) BY <1>4, <1>5, Outwards DEF Moves
<1>7. Outer(loop') /\ ~ Ending(loop') BY <1>1, Outwards, OuterSaving DEF Onwards
<1>8. LoopPart({})
  <2>1. side' \in 0 .. side BY <1>1, Outwards
  <2> QED BY <1>1, <1>7, <2>1, SpentSame DEF LoopPart, Running, Up, Steady, Outer
<1>9. InputPart({}) BY <1>1, Outwards, InputsSame
<1>10. PlaceAndKept' /\ Further /\ mem'.s = t
  BY <1>1, <1>3, <1>6, <1>8, <1>9, InnerStep
<1>11. PairInv'
  <2>1. AnsweredBefore(mem.s.log) BY <1>1 DEF IInv, PairInv, Inside
  <2> QED BY <1>5, <1>7, <1>10, <2>1 DEF PairInv, Outer, Inside
<1>12. GoalInv' BY <1>7 DEF GoalInv
<1> QED BY <1>10, <1>11, <1>12 DEF IInv

LEMMA StepInputKeeps == ASSUME IInv, StepInput PROVE IInv' /\ Further
<1> DEFINE i == Head(chan)
           decides == i.k = "approve" /\ InStep
           x == IF decides /\ loop.at = "ask" THEN "running" ELSE mem.s.status
           t == [mem.s EXCEPT !.status = x]
<1>1. /\ (InStep \/ loop.at = "recover") /\ chan # <<>> /\ chan' = Tail(chan) /\ State(t)
      /\ pend' = IF i.k = "interrupt" \/ decides THEN pend ELSE Append(pend, i)
      /\ UNCHANGED <<side, disk, note, sent, spent, gone>>
  BY DEF StepInput, rest
<1>2. t \in Scalar /\ t.queue = mem.s.queue /\ t.log = mem.s.log /\ t.goal = mem.s.goal
  <2>1. x \in Statuses BY Outwards, ScalarFields DEF Statuses
  <2> HIDE DEF x
  <2> QED BY <2>1, Outwards, StatusType
<1> HIDE DEF t
<1>3. Moves(mem.s, t, {}, {}, {}) BY <1>2, Outwards, MovesNot DEF Turns
<1>4. InputPart({})
  <2>1. CASE i.k = "interrupt" \/ decides
    <3>1. pend' = pend BY <1>1, <2>1
    <3>2. Brings(i) = {} BY <2>1 DEF Brings, Talk
    <3> QED BY <1>1, <3>1, <3>2, Outwards, InputsTaken
  <2>2. CASE ~ (i.k = "interrupt" \/ decides)
    <3>1. pend' = Append(pend, i) BY <1>1, <2>2
    <3> QED BY <1>1, <3>1, Outwards, InputsKept
  <2> QED BY <2>1, <2>2
<1>5. /\ loop' \in Task /\ loop'.first = loop.first
      /\ \/ loop' = loop
         \/ loop'.at = "cancel" /\ loop'.cut = InStep
         \/ loop.at = "ask" /\ loop'.at = "tool"
  <2>1. \/ loop' = [loop EXCEPT !.at = "cancel", !.cut = InStep, !.then = "off",
                                !.quiet = FALSE, !.phase = 0]
        \/ loop.at = "ask" /\ loop' = [loop EXCEPT !.at = "tool"]
        \/ loop' = loop
    BY DEF StepInput
  <2>2. "cancel" \in Points /\ "off" \in Points /\ "tool" \in Points BY DEF Points
  <2>3. InStep \in BOOLEAN BY DEF InStep
  <2>4. CASE loop' = [loop EXCEPT !.at = "cancel", !.cut = InStep, !.then = "off",
                                  !.quiet = FALSE, !.phase = 0]
    <3>1. PICK b \in BOOLEAN : b = InStep BY <2>3
    <3>2. loop' = [loop EXCEPT !.at = "cancel", !.cut = b, !.then = "off",
                               !.quiet = FALSE, !.phase = 0]
      BY <2>4, <3>1
    <3>3. /\ loop' \in Task /\ loop'.first = loop.first /\ loop'.at = "cancel"
          /\ loop'.cut = b
      <4>1. 0 \in 0 .. 1 OBVIOUS
      <4> QED BY <2>2, <3>1, <3>2, <4>1, Outwards DEF Task
    <3> QED BY <3>1, <3>3
  <2>5. CASE loop.at = "ask" /\ loop' = [loop EXCEPT !.at = "tool"]
    BY <2>2, <2>5, Outwards DEF Task
  <2> QED BY <2>1, <2>4, <2>5, Outwards
<1>6. LoopPart({})
  <2>1. side' \in 0 .. side BY <1>1, Outwards
  <2>2. mem'.s.queue = mem.s.queue BY <1>1, <1>2, Outwards, StateFields
  <2>3. Running BY <1>1 DEF Running, InStep
  <2>4. Steady' => Steady BY <1>5 DEF Steady
  <2>5. Up' BY <1>5, <2>3 DEF Up, Running
  <2> QED BY <1>1, <1>5, <2>1, <2>2, <2>3, <2>4, <2>5, SpentSame DEF LoopPart
<1>7. PlaceAndKept' /\ Further /\ mem'.s = t BY <1>1, <1>3, <1>4, <1>6, InnerStep
<1>8. loop.at = "save" => loop.quiet /\ loop.then \in {"ask", "tool"}
  BY <1>1 DEF InStep, IInv, PairInv
<1>9. PairInv'
  <2>1. CASE loop' = loop BY <1>2, <1>7, <2>1 DEF IInv, PairInv, Inside, Running
  <2>2. CASE loop'.at = "cancel" /\ loop'.cut = InStep
    <3>1. ~ InStep => Answered(mem.s.log) BY <1>1 DEF IInv, PairInv, Running, Inside
    <3> QED BY <1>2, <1>7, <2>2, <3>1 DEF PairInv, Inside, Running
  <2>3. CASE loop.at = "ask" /\ loop'.at = "tool"
    BY <1>2, <1>7, <2>3 DEF IInv, PairInv, Inside, Running
  <2> QED BY <1>5, <2>1, <2>2, <2>3
<1>10. GoalInv' BY <1>1, <1>5, <1>8 DEF GoalInv, Ending, InStep
<1> QED BY <1>7, <1>9, <1>10 DEF IInv

LEMMA CancelInputKeeps == ASSUME IInv, CancelInput PROVE IInv' /\ Further
<1> DEFINE i == Head(chan)
<1>1. /\ loop.at = "cancel" /\ chan # <<>> /\ chan' = Tail(chan)
      /\ pend' = IF i.k = "interrupt" THEN pend ELSE Append(pend, i)
      /\ UNCHANGED <<side, loop, mem, disk, note, sent, spent, gone>>
  BY DEF CancelInput, rest
<1>2. State(mem.s) BY <1>1, Outwards
<1>3. Moves(mem.s, mem.s, {}, {}, {}) BY Outwards, MovesNot DEF Turns
<1>4. InputPart({})
  <2>1. CASE i.k = "interrupt"
    <3>1. pend' = pend BY <1>1, <2>1
    <3>2. Brings(i) = {} BY <2>1 DEF Brings, Talk
    <3> QED BY <1>1, <3>1, <3>2, Outwards, InputsTaken
  <2>2. CASE i.k # "interrupt"
    <3>1. pend' = Append(pend, i) BY <1>1, <2>2
    <3> QED BY <1>1, <3>1, Outwards, InputsKept
  <2> QED BY <2>1, <2>2
<1>5. LoopPart({})
  <2>1. side' \in 0 .. side BY <1>1, Outwards
  <2> QED BY <1>1, <2>1, Outwards, SpentSame DEF LoopPart, Running, Up, Steady
<1>6. PlaceAndKept' /\ Further BY <1>1, <1>2, <1>3, <1>4, <1>5, InnerStep
<1>7. PairInv' BY <1>1 DEF IInv, PairInv, Running, Inside
<1>8. GoalInv' BY <1>1 DEF IInv, GoalInv, Ending
<1> QED BY <1>6, <1>7, <1>8 DEF IInv

LEMMA CancelledKeeps == ASSUME IInv, Cancelled PROVE IInv' /\ Further
<1> DEFINE log == IF loop.cut THEN Repaired(mem.s.log) ELSE mem.s.log
           u == [mem.s EXCEPT !.log = log]
           t == Halted(u)
           l == [loop EXCEPT !.cut = FALSE]
<1>1. /\ loop.at = "cancel" /\ loop' = Saving(l, "end")
      /\ mem' = [mem EXCEPT !.s = t, !.dirty = @ \/ loop.cut]
      /\ UNCHANGED <<chan, pend, side, disk, note, sent, spent, gone>>
  BY DEF Cancelled, inputs, rest
<1>2. /\ log \in Seq(Entry) /\ Len(mem.s.log) <= Len(log) /\ Answered(log)
      /\ Logged(log) = Logged(mem.s.log) /\ Distinct(log)
      /\ loop.cut \/ log = mem.s.log
  <2>1. PICK a \in Seq(Entry) : a = mem.s.log BY Outwards, ScalarFields
  <2>2. Distinct(a) BY <2>1, Outwards DEF PlaceInv
  <2>3. CASE loop.cut
    <3>1. log = Repaired(a) BY <2>1, <2>3
    <3> HIDE DEF log
    <3> QED BY <2>1, <2>2, <2>3, <3>1, RepairedFacts
  <2>4. CASE ~ loop.cut
    <3>1. log = a BY <2>1, <2>4
    <3>2. Answered(a) BY <1>1, <2>1, <2>4 DEF IInv, PairInv, Running, Inside
    <3>3. Len(a) \in Nat OBVIOUS
    <3> HIDE DEF log
    <3> QED BY <2>1, <2>2, <3>1, <3>2, <3>3
  <2> QED BY <2>3, <2>4
<1> HIDE DEF log
<1>3. u \in Scalar /\ u.queue = mem.s.queue /\ u.log = log BY <1>2, Outwards, LogType
<1> HIDE DEF u
<1>4. t \in Scalar /\ t.queue = mem.s.queue /\ t.log = log /\ t.goal # "active"
  BY <1>3, HaltedType
<1>5. l \in Task /\ l.first = loop.first BY Outwards DEF Task
<1> HIDE DEF t, l
<1>6. Outer(loop') BY <1>1, <1>5, OuterSaving DEF Onwards
<1>7. /\ mem' \in Memory /\ mem'.s = t /\ mem'.written = mem.written
      /\ mem'.dirty = (mem.dirty \/ loop.cut)
  <2>1. mem \in Memory BY Outwards DEF TypeInv, TypeOK
  <2>2. loop.cut \in BOOLEAN BY Outwards DEF Task
  <2>3. PICK d \in BOOLEAN : d = (mem.dirty \/ loop.cut) BY <2>1, <2>2 DEF Memory
  <2>4. mem' = [mem EXCEPT !.s = t, !.dirty = d] BY <1>1, <2>3
  <2> QED BY <1>4, <2>1, <2>3, <2>4 DEF Memory
<1>8. MemPart({}, {}, {})
  <2>1. ~ Steady' BY <1>6 DEF Outer, Steady
  <2>2. ~ mem'.dirty => t.log = mem.s.log BY <1>2, <1>4, <1>7
  <2>3. ~ mem'.dirty => Logged(Behind(mem'.s.log, mem.written)) = Logged(Unsaved) \cup {}
    BY <1>7, <2>2 DEF Unsaved
  <2>4. mem.dirty => mem'.dirty BY <1>7
  <2>5. mem'.dirty \/ Extends(mem.s.log, mem'.s.log)
    <3>1. Len(mem.s.log) \in Nat BY Outwards, ScalarFields
    <3> QED BY <1>7, <2>2, <3>1 DEF Extends
  <2> QED BY <1>1, <1>2, <1>4, <1>7, <2>1, <2>3, <2>4, <2>5, Outwards DEF MemPart
<1>9. LoopPart({})
  <2>1. side' \in 0 .. side BY <1>1, Outwards
  <2> QED BY <1>1, <1>6, <2>1, SpentSame DEF LoopPart, Running, Up, Steady, Outer
<1>10. InputPart({}) BY <1>1, Outwards, InputsSame
<1>11. PlaceAndKept' /\ Further BY <1>8, <1>9, <1>10, PartsKeep DEF IInv
<1>12. PairInv' BY <1>2, <1>4, <1>6, <1>7 DEF PairInv, Outer, Inside
<1>13. GoalInv' BY <1>4, <1>7 DEF GoalInv
<1> QED BY <1>11, <1>12, <1>13 DEF IInv

-----------------------------------------------------------------------------
(* The store: loading, and the two writes of a save. *)

LEMMA BehindLogged ==
  ASSUME NEW a \in Seq(Entry), NEW w \in 0 .. Len(a)
  PROVE  /\ Behind(a, w) \in Seq(Entry) /\ Logged(Behind(a, w)) \subseteq Logged(a)
         /\ w = Len(a) => Logged(Behind(a, w)) = {}
         /\ Distinct(a) => Distinct(Behind(a, w))
<1>1. Len(a) \in Nat /\ DOMAIN a = 1 .. Len(a) OBVIOUS
<1>2. PICK b \in Seq(Entry) : /\ b = Behind(a, w) /\ Len(b) = Len(a) - w
                              /\ \A i \in 1 .. Len(b) : b[i] = a[w + i]
  BY BehindFacts
<1>3. \A i \in DOMAIN b : i \in Nat /\ w + i \in DOMAIN a /\ b[i] = a[w + i]
  BY <1>1, <1>2
<1>4. Logged(b) \subseteq Logged(a) BY <1>3 DEF Logged
<1>5. w = Len(a) => Logged(b) = {} BY <1>1, <1>2 DEF Logged
<1>6. ASSUME Distinct(a) PROVE Distinct(b)
  <2> SUFFICES ASSUME NEW i \in DOMAIN b, NEW j \in DOMAIN b, b[i].m # NoMsg, b[i].m = b[j].m
               PROVE  i = j
    BY DEF Distinct
  <2>1. w + i = w + j BY <1>3, <1>6 DEF Distinct
  <2> QED BY <1>3, <2>1
<1> QED BY <1>2, <1>4, <1>5, <1>6

LEMMA JoinedLogged ==
  ASSUME NEW a \in Seq(Entry), NEW b \in Seq(Entry)
  PROVE  /\ a \o b \in Seq(Entry) /\ Logged(a \o b) = Logged(a) \cup Logged(b)
         /\ Distinct(a) /\ Distinct(b) /\ Logged(a) \cap Logged(b) = {} => Distinct(a \o b)
<1>1. Len(a) \in Nat /\ Len(b) \in Nat /\ DOMAIN a = 1 .. Len(a) /\ DOMAIN b = 1 .. Len(b)
  OBVIOUS
<1>2. PICK c \in Seq(Entry) : /\ c = a \o b /\ Len(c) = Len(a) + Len(b)
                              /\ \A i \in 1 .. Len(a) : c[i] = a[i]
                              /\ \A i \in 1 .. Len(b) : c[Len(a) + i] = b[i]
  <2>1. /\ a \o b \in Seq(Entry) /\ Len(a \o b) = Len(a) + Len(b)
        /\ \A i \in 1 .. Len(a) : (a \o b)[i] = a[i]
        /\ \A i \in 1 .. Len(b) : (a \o b)[Len(a) + i] = b[i]
    BY Joined
  <2> QED BY <2>1, Zenon
<1>3. DOMAIN c = 1 .. Len(a) + Len(b) BY <1>2
<1>4. \A i \in DOMAIN c : \/ i \in DOMAIN a /\ c[i] = a[i]
                          \/ i - Len(a) \in DOMAIN b /\ c[i] = b[i - Len(a)]
  <2> SUFFICES ASSUME NEW i \in DOMAIN c, i \notin DOMAIN a
               PROVE  i - Len(a) \in DOMAIN b /\ c[i] = b[i - Len(a)]
    BY <1>1, <1>2
  <2>1. i - Len(a) \in DOMAIN b /\ Len(a) + (i - Len(a)) = i BY <1>1, <1>3
  <2> QED BY <1>1, <1>2, <2>1
<1>5. Logged(c) = Logged(a) \cup Logged(b)
  <2>1. Logged(c) \subseteq Logged(a) \cup Logged(b) BY <1>4 DEF Logged
  <2>2. Logged(a) \subseteq Logged(c)
    <3>1. \A i \in DOMAIN a : i \in DOMAIN c /\ c[i] = a[i] BY <1>1, <1>2, <1>3
    <3> QED BY <3>1 DEF Logged
  <2>3. Logged(b) \subseteq Logged(c)
    <3>1. \A i \in DOMAIN b : Len(a) + i \in DOMAIN c /\ c[Len(a) + i] = b[i]
      BY <1>1, <1>2, <1>3
    <3> QED BY <3>1 DEF Logged
  <2> QED BY <2>1, <2>2, <2>3
<1>6. ASSUME Distinct(a), Distinct(b), Logged(a) \cap Logged(b) = {} PROVE Distinct(c)
  <2> SUFFICES ASSUME NEW i \in DOMAIN c, NEW j \in DOMAIN c, c[i].m # NoMsg, c[i].m = c[j].m
               PROVE  i = j
    BY DEF Distinct
  <2>1. CASE i \in DOMAIN a /\ c[i] = a[i] /\ j \in DOMAIN a /\ c[j] = a[j]
    BY <1>6, <2>1 DEF Distinct
  <2>2. CASE /\ i - Len(a) \in DOMAIN b /\ c[i] = b[i - Len(a)]
             /\ j - Len(a) \in DOMAIN b /\ c[j] = b[j - Len(a)]
    <3>1. i - Len(a) = j - Len(a) BY <1>6, <2>2 DEF Distinct
    <3> QED BY <1>1, <1>3, <3>1
  <2>3. CASE /\ i \in DOMAIN a /\ c[i] = a[i]
             /\ j - Len(a) \in DOMAIN b /\ c[j] = b[j - Len(a)]
    BY <1>6, <2>3 DEF Logged
  <2>4. CASE /\ j \in DOMAIN a /\ c[j] = a[j]
             /\ i - Len(a) \in DOMAIN b /\ c[i] = b[i - Len(a)]
    BY <1>6, <2>4 DEF Logged
  <2> QED BY <1>4, <2>1, <2>2, <2>3, <2>4
<1> QED BY <1>2, <1>5, <1>6

\* What a save of the messages writes.
LEMMA WrittenFacts ==
  ASSUME IInv, loop.at = "save"
  PROVE  /\ Written \in Seq(Entry) /\ Distinct(Written)
         /\ Logged(Written) \subseteq Logged(disk.log) \cup Logged(mem.s.log)
         /\ Logged(disk.log) \ Notices \subseteq Logged(Written)
         /\ [disk EXCEPT !.log = Written] \in Scalar
         /\ [disk EXCEPT !.log = Written].log = Written
         /\ [disk EXCEPT !.log = Written].queue = disk.queue
<1>1. /\ TypeInv /\ PlaceInv /\ KeptInv /\ Running /\ Up
  BY DEF IInv, PlaceAndKept, Running, Up
<1>2. /\ mem.s.log \in Seq(Entry) /\ disk.log \in Seq(Entry) /\ disk \in Scalar
      /\ mem.written \in 0 .. Len(mem.s.log)
  BY <1>1, TypeFacts, ScalarFields
<1>3. /\ Written \in Seq(Entry) /\ Distinct(Written)
      /\ Logged(Written) \subseteq Logged(disk.log) \cup Logged(mem.s.log)
      /\ Logged(disk.log) \ Notices \subseteq Logged(Written)
  <2>1. CASE mem.dirty
    <3>1. Written = mem.s.log BY <2>1 DEF Written
    <3> QED BY <1>1, <1>2, <3>1 DEF PlaceInv, KeptInv
  <2>2. CASE ~ mem.dirty
    <3>1. Written = disk.log \o Unsaved BY <2>2 DEF Written, Unsaved, Behind
    <3>2. PICK a \in Seq(Entry) : a = disk.log BY <1>2
    <3>3. PICK c \in Seq(Entry) : c = mem.s.log BY <1>2
    <3>4. PICK b \in Seq(Entry) : b = Unsaved /\ Logged(b) \subseteq Logged(c) /\ Distinct(b)
      BY <1>1, <1>2, <3>3, BehindLogged DEF Unsaved, PlaceInv
    <3>5. Distinct(a) /\ Logged(a) \cap Logged(b) = {}
      BY <1>1, <2>2, <3>2, <3>4 DEF PlaceInv
    <3>6. /\ a \o b \in Seq(Entry) /\ Logged(a \o b) = Logged(a) \cup Logged(b)
          /\ Distinct(a \o b)
      BY <3>4, <3>5, JoinedLogged
    <3>7. Written = a \o b BY <3>1, <3>2, <3>4
    <3> QED BY <3>2, <3>3, <3>4, <3>6, <3>7
  <2> QED BY <2>1, <2>2
<1> QED BY <1>2, <1>3, LogType

\* A step that leaves the inputs, the notice and what was handed over, and writes
\* to the store what is in memory.
LEMMA StoreStep ==
  ASSUME IInv, Up, Up',
         UNCHANGED <<chan, pend, side, note, spent, sent, gone>>,
         loop' \in Task, loop'.first = loop.first,
         mem' \in Memory, mem'.s = mem.s, mem'.written \in 0 .. Len(mem.s.log),
         disk' \in Scalar, IsInjective(disk'.queue), Distinct(disk'.log),
         disk'.queue \in {disk.queue, mem.s.queue},
         Logged(disk'.log) \subseteq Logged(disk.log) \cup Logged(mem.s.log),
         Logged(disk.log) \ Notices \subseteq Logged(disk'.log),
         ToSet(disk'.queue) \cap Logged(disk'.log) = {},
         loop'.at = "save" /\ loop'.phase = 1 => disk'.queue = mem.s.queue,
         Running' /\ ~ mem'.dirty => Logged(Unsaved') \cap Logged(disk'.log) = {},
         Steady' => Logged(Unsaved') = {}
  PROVE  PlaceAndKept' /\ Conserved
<1>1. TypeInv /\ PlaceInv /\ KeptInv BY DEF IInv, PlaceAndKept
<1> DEFINE Q == ToSet(mem.s.queue)
           L == Logged(mem.s.log)
           D == ToSet(disk.queue)
           E == Logged(disk.log)
           DD == ToSet(disk'.queue)
           EE == Logged(disk'.log)
<1>2. DD \subseteq D \cup Q /\ EE \subseteq E \cup L /\ E \ Notices \subseteq EE OBVIOUS
<1>3. mem'.written <= Len(mem'.s.log)
  <2>1. Len(mem.s.log) \in Nat BY <1>1, TypeFacts, ScalarFields
  <2> QED BY <2>1
<1>4. Q \cup D \subseteq sent /\ L \cup E \subseteq sent BY <1>1 DEF TypeInv
<1>5. TypeInv'
  <2>1. ToSet(mem'.s.queue) \cup DD \subseteq sent /\ Logged(mem'.s.log) \cup EE \subseteq sent
    BY <1>2, <1>4
  <2>2. TypeOK' BY <1>1 DEF TypeInv, TypeOK
  <2> QED BY <1>1, <1>3, <2>1, <2>2 DEF TypeInv
<1>6. Given' = {} BY DEF Up, Given
<1>7. Waiting' = Waiting /\ Noted' = Noted BY DEF Waiting, Noted
<1>8. Settled = Q \cup L \cup E \cup D /\ Settled' = Q \cup L \cup EE \cup DD
  BY DEF Settled, Stored
<1>9. PlaceInv'
  <2>1. Settled' \subseteq Settled BY <1>2, <1>8
  <2>2. /\ Waiting' \cap (Given' \cup Noted' \cup Settled') = {}
        /\ Given' \cap (Noted' \cup Settled') = {} /\ Noted' \cap Settled' = {}
    BY <1>1, <1>6, <1>7, <2>1 DEF PlaceInv
  <2>3. Q \cap (L \cup EE) = {} BY <1>1, <1>2 DEF PlaceInv
  <2>4. /\ CarriedOnce(chan') /\ CarriedOnce(pend') /\ Carried(chan') \cap Carried(pend') = {}
        /\ IsInjective(mem'.s.queue) /\ Distinct(mem'.s.log)
    BY <1>1 DEF PlaceInv
  <2>5. ToSet(mem'.s.queue) \cap (Logged(mem'.s.log) \cup Logged(disk'.log)) = {} BY <2>3
  <2>6. /\ loop'.at = "save" /\ loop'.phase = 1 => disk'.queue = mem'.s.queue
        /\ Running' /\ ~ mem'.dirty => Logged(Unsaved') \cap Logged(disk'.log) = {}
        /\ Steady' => Logged(Unsaved') = {}
    OBVIOUS
  <2> QED BY <2>2, <2>4, <2>5, <2>6 DEF PlaceInv
<1>10. InHand' = InHand BY DEF InHand
<1>11. Stored = E \cup D /\ Stored' = EE \cup DD BY DEF Stored
<1>12. InHand = Waiting \cup {loop.first, note} \cup Q \cup L BY DEF InHand, Waiting
<1>13. KeptInv'
  <2>1. /\ loop.first \in L \cup {NoMsg} /\ E \ Notices \subseteq L /\ D \subseteq Q \cup L \cup gone
        /\ sent \ Notices \subseteq InHand \cup Stored \cup gone
    BY <1>1 DEF KeptInv
  <2>2. EE \ Notices \subseteq L /\ DD \subseteq Q \cup L \cup gone BY <1>2, <2>1
  <2>3. sent \ Notices \subseteq InHand \cup EE \cup DD \cup gone
    BY <1>2, <1>11, <1>12, <2>1
  <2>4. loop'.at # "off" BY DEF Up
  <2> QED BY <1>10, <1>11, <2>1, <2>2, <2>3, <2>4 DEF KeptInv
<1>14. Conserved
  <2>1. InHand' \cup Stored' \subseteq InHand \cup Stored BY <1>2, <1>10, <1>11, <1>12
  <2> QED BY <1>2, <2>1 DEF Conserved
<1> QED BY <1>5, <1>9, <1>13, <1>14 DEF PlaceAndKept

LEMMA SavedFields ==
  ASSUME NEW p \in Points, loop \in Task
  PROVE  /\ Saved(p) \in Task /\ Saved(p).at = p /\ Saved(p).first = loop.first
         /\ ~ Saved(p).quiet /\ Saved(p).phase = 0
<1>1. "off" \in Points /\ 0 \in 0 .. 1 BY DEF Points
<1> QED BY <1>1 DEF Saved, Task

\* Where a save may lead, and what is then known of the calls.
LEMMA SavedPairs ==
  ASSUME IInv, loop.at = "save",
         \/ loop'.at = loop.then
         \/ loop'.at = "broken",
         ~ loop'.quiet, mem'.s = mem.s
  PROVE  /\ loop'.at \notin {"off", "load", "save", "cancel"}
         /\ PairInv' /\ GoalInv'
<1>1. IF loop.quiet THEN loop.then \in {"ask", "tool"} ELSE loop.then \in Onwards
  BY DEF IInv, PairInv
<1>2. loop'.at \notin {"off", "load", "save", "cancel"} BY <1>1 DEF Onwards
<1>3. loop.quiet => AnsweredBefore(mem.s.log) BY DEF IInv, PairInv, Inside
<1>4. ~ loop.quiet => Answered(mem.s.log)
  BY DEF IInv, PairInv, Inside, Running
<1>5. Inside' => loop.quiet BY <1>1, <1>2 DEF Inside, Onwards
<1>6. Running' /\ ~ Inside' => ~ loop.quiet BY <1>1, <1>2 DEF Inside, Running
<1>7. PairInv' BY <1>2, <1>3, <1>4, <1>5, <1>6 DEF PairInv
<1>8. GoalInv' BY <1>2 DEF IInv, GoalInv, Ending
<1> QED BY <1>2, <1>7, <1>8

LEMMA SaveScalarKeeps == ASSUME IInv, SaveScalar PROVE IInv' /\ Conserved
<1>1. TypeInv /\ PlaceInv BY DEF IInv, PlaceAndKept
<1>2. /\ loop.at = "save" /\ disk' = [mem.s EXCEPT !.log = disk.log]
      /\ loop' = [loop EXCEPT !.phase = 1]
      /\ UNCHANGED <<chan, pend, side, mem, note, sent, spent, gone>>
  BY DEF SaveScalar, inputs, rest
<1>3. disk' \in Scalar /\ disk'.queue = mem.s.queue /\ disk'.log = disk.log
  <2>1. PICK log \in Seq(Entry) : log = disk.log BY <1>1, TypeFacts, ScalarFields
  <2> QED BY <1>2, <2>1, Outwards, LogType
<1>4. /\ loop' \in Task /\ loop'.at = "save" /\ loop'.first = loop.first
      /\ loop'.quiet = loop.quiet /\ loop'.then = loop.then
  <2>1. 1 \in 0 .. 1 OBVIOUS
  <2> QED BY <1>2, <2>1, Outwards DEF Task
<1>5. Unsaved' = Unsaved BY <1>2 DEF Unsaved
<1>6. PlaceAndKept' /\ Conserved
  <2>1. Up /\ Up' BY <1>2, <1>4 DEF Up
  <2>2. /\ mem' \in Memory /\ mem'.s = mem.s /\ mem'.written \in 0 .. Len(mem.s.log)
    BY <1>1, <1>2, TypeFacts DEF TypeInv, TypeOK
  <2>3. IsInjective(disk'.queue) /\ Distinct(disk'.log) BY <1>1, <1>3 DEF PlaceInv
  <2>4. ToSet(disk'.queue) \cap Logged(disk'.log) = {} BY <1>1, <1>3 DEF PlaceInv
  <2>5. Running' /\ ~ mem'.dirty => Logged(Unsaved') \cap Logged(disk'.log) = {}
    BY <1>1, <1>2, <1>3, <1>5 DEF PlaceInv, Running
  <2>6. Steady' => Logged(Unsaved') = {}
    BY <1>1, <1>2, <1>4, <1>5 DEF PlaceInv, Steady
  <2> QED BY <1>2, <1>3, <1>4, <2>1, <2>2, <2>3, <2>4, <2>5, <2>6, StoreStep
<1>7. PairInv'
  <2>1. Inside' <=> Inside BY <1>2, <1>4 DEF Inside
  <2>2. mem' = mem /\ loop'.at = loop.at BY <1>2, <1>4
  <2> QED BY <1>2, <1>4, <2>1, <2>2 DEF IInv, PairInv, Running
<1>8. GoalInv' BY <1>2, <1>4 DEF IInv, GoalInv, Ending
<1> QED BY <1>6, <1>7, <1>8 DEF IInv

LEMMA SaveMessagesKeeps == ASSUME IInv, SaveMessages PROVE IInv' /\ Conserved
<1>1. TypeInv /\ PlaceInv BY DEF IInv, PlaceAndKept
<1>2. /\ loop.at = "save" /\ loop.phase = 1 /\ disk' = [disk EXCEPT !.log = Written]
      /\ mem' = [mem EXCEPT !.written = Len(mem.s.log), !.dirty = FALSE]
      /\ loop' = Saved(loop.then)
      /\ UNCHANGED <<chan, pend, side, note, sent, spent, gone>>
  BY DEF SaveMessages, inputs, rest
<1>3. /\ disk' \in Scalar /\ disk'.queue = disk.queue /\ disk'.log = Written
      /\ Distinct(disk'.log)
      /\ Logged(disk'.log) \subseteq Logged(disk.log) \cup Logged(mem.s.log)
      /\ Logged(disk.log) \ Notices \subseteq Logged(disk'.log)
  BY <1>2, WrittenFacts
<1>4. /\ loop' \in Task /\ loop'.at = loop.then /\ loop'.first = loop.first /\ ~ loop'.quiet
      /\ loop'.phase = 0
  <2>1. loop.then \in Points BY Outwards DEF Task
  <2> QED BY <1>2, <2>1, Outwards, SavedFields
<1>5. /\ mem' \in Memory /\ mem'.s = mem.s /\ mem'.written = Len(mem.s.log)
      /\ Len(mem.s.log) \in Nat
  <2>1. Len(mem.s.log) \in Nat /\ mem \in Memory
    BY <1>1, TypeFacts, ScalarFields DEF TypeInv, TypeOK
  <2> QED BY <1>2, <2>1 DEF Memory
<1>6. /\ loop'.at \notin {"off", "load", "save", "cancel"} /\ PairInv' /\ GoalInv'
  BY <1>2, <1>4, <1>5, SavedPairs
<1>7. Logged(Unsaved') = {}
  <2>1. PICK a \in Seq(Entry) : a = mem.s.log BY Outwards, ScalarFields
  <2>2. Len(a) \in 0 .. Len(a) OBVIOUS
  <2>3. Logged(Behind(a, Len(a))) = {} BY <2>2, BehindLogged
  <2>4. Unsaved' = Behind(a, Len(a)) BY <1>5, <2>1 DEF Unsaved
  <2> QED BY <2>3, <2>4
<1>8. PlaceAndKept' /\ Conserved
  <2>1. Up /\ Up' BY <1>2, <1>6 DEF Up
  <2>2. disk'.queue = mem.s.queue BY <1>1, <1>2, <1>3 DEF PlaceInv
  <2>3. IsInjective(disk'.queue) BY <1>1, <1>3 DEF PlaceInv
  <2>4. ToSet(disk'.queue) \cap Logged(disk'.log) = {} BY <1>1, <1>3, <2>2 DEF PlaceInv
  <2>5. mem'.written \in 0 .. Len(mem.s.log) BY <1>5
  <2> QED BY <1>2, <1>3, <1>4, <1>5, <1>7, <2>1, <2>2, <2>3, <2>4, <2>5, StoreStep
<1> QED BY <1>6, <1>8 DEF IInv

LEMMA SaveFailsKeeps == ASSUME IInv, SaveFails PROVE IInv' /\ Conserved
<1>1. TypeInv /\ PlaceInv BY DEF IInv, PlaceAndKept
<1>2. /\ loop.at = "save"
      /\ loop' = Saved(IF loop.quiet THEN loop.then ELSE "broken")
      /\ disk' = disk \/ (loop.phase = 1 /\ disk' = [disk EXCEPT !.log = Written])
      /\ UNCHANGED <<chan, pend, side, mem, note, sent, spent, gone>>
  BY DEF SaveFails, inputs, rest
<1>3. /\ loop' \in Task /\ loop'.first = loop.first /\ ~ loop'.quiet /\ loop'.phase = 0
      /\ loop'.at = IF loop.quiet THEN loop.then ELSE "broken"
  <2>1. loop.then \in Points /\ "broken" \in Points BY Outwards DEF Task, Points
  <2> QED BY <1>2, <2>1, Outwards, SavedFields
<1>4. /\ loop'.at \notin {"off", "load", "save", "cancel"} /\ PairInv' /\ GoalInv'
  BY <1>2, <1>3, SavedPairs
<1>5. Running' => Logged(Unsaved') = {}
  <2>1. Running' => loop.quiet BY <1>3 DEF Running
  <2> QED BY <1>1, <1>2, <2>1 DEF PlaceInv, Steady, Unsaved
<1>6. /\ disk' \in Scalar /\ disk'.queue = disk.queue /\ Distinct(disk'.log)
      /\ Logged(disk'.log) \subseteq Logged(disk.log) \cup Logged(mem.s.log)
      /\ Logged(disk.log) \ Notices \subseteq Logged(disk'.log)
      /\ ToSet(disk'.queue) \cap Logged(disk'.log) = {}
  <2>1. CASE disk' = disk BY <1>1, <2>1, TypeFacts DEF PlaceInv
  <2>2. CASE loop.phase = 1 /\ disk' = [disk EXCEPT !.log = Written]
    <3>1. /\ disk' \in Scalar /\ disk'.queue = disk.queue /\ Distinct(disk'.log)
          /\ Logged(disk'.log) \subseteq Logged(disk.log) \cup Logged(mem.s.log)
          /\ Logged(disk.log) \ Notices \subseteq Logged(disk'.log)
      BY <1>2, <2>2, WrittenFacts
    <3>2. disk.queue = mem.s.queue BY <1>1, <1>2, <2>2 DEF PlaceInv
    <3> QED BY <1>1, <3>1, <3>2 DEF PlaceInv
  <2> QED BY <1>2, <2>1, <2>2
<1>7. PlaceAndKept' /\ Conserved
  <2>1. Up /\ Up' BY <1>2, <1>4 DEF Up
  <2>2. IsInjective(disk'.queue) BY <1>1, <1>6 DEF PlaceInv
  <2>3. /\ mem' \in Memory /\ mem'.s = mem.s /\ mem'.written \in 0 .. Len(mem.s.log)
    BY <1>1, <1>2, TypeFacts DEF TypeInv, TypeOK
  <2>4. Steady' => Running' BY <1>4 DEF Steady, Running
  <2> QED BY <1>2, <1>3, <1>4, <1>5, <1>6, <2>1, <2>2, <2>3, <2>4, StoreStep
<1> QED BY <1>4, <1>7 DEF IInv

\* The store is read, what was cut off repaired, and the first message recorded.
LEMMA LoadKeeps == ASSUME IInv, Load PROVE IInv' /\ Conserved
<1>1. TypeInv /\ PlaceInv /\ KeptInv BY DEF IInv, PlaceAndKept
<1> DEFINE r == Repaired(disk.log)
           f == loop.first
           s == [disk EXCEPT !.log = r]
           t == [s EXCEPT !.status = "running", !.asked = FALSE, !.log = Put(r, "user", f)]
           u == IF f = NoMsg THEN s ELSE t
           F == {f} \ {NoMsg}
           E == Logged(disk.log)
           D == ToSet(disk.queue)
<1>2. /\ loop.at = "load"
      /\ mem' = [s |-> u, written |-> Len(disk.log), dirty |-> r # disk.log]
      /\ loop' = IF f = NoMsg THEN [loop EXCEPT !.at = "boot"] ELSE Saving(loop, "boot")
      /\ UNCHANGED <<chan, pend, side, disk, note, sent, spent, gone>>
  BY DEF Load, inputs, rest
<1>3. /\ disk \in Scalar /\ disk.log \in Seq(Entry) /\ disk.queue \in Seq(Msgs)
      /\ f \in SomeMsg /\ Distinct(disk.log) /\ IsInjective(disk.queue)
  BY <1>1, TypeFacts, ScalarFields DEF PlaceInv, Task
<1>4. /\ r \in Seq(Entry) /\ Len(disk.log) \in Nat /\ Len(r) \in Nat /\ Len(disk.log) <= Len(r)
      /\ Answered(r) /\ Logged(r) = E /\ Distinct(r)
  BY <1>3, RepairedFacts
<1>5. F \cap (E \cup D) = {} /\ F \cap Noted = {} /\ F \cap Waiting = {} /\ F \subseteq Msgs
  <2>1. Given = F BY <1>2 DEF Given
  <2> QED BY <1>1, <1>3, <2>1 DEF PlaceInv, Settled, Stored, SomeMsg
<1>6. /\ Grows(r, Put(r, "user", f), F) /\ Answered(Put(r, "user", f))
  <2>1. "user" \in Marks BY DEF Marks
  <2>2. PICK a \in Seq(Entry) : a = r BY <1>4
  <2>3. Grows(a, Put(a, "user", f), F) /\ NoCalls(a, Put(a, "user", f))
    BY <1>3, <2>1, GrowsPut
  <2>4. Answered(Put(a, "user", f)) BY <1>4, <2>2, <2>3, GrowsAnswered
  <2> QED BY <2>2, <2>3, <2>4
<1> HIDE DEF r
<1>7. s \in Scalar /\ s.queue = disk.queue /\ s.log = r /\ s.goal = disk.goal
  BY <1>3, <1>4, LogType
<1>8. t \in Scalar /\ t.queue = disk.queue /\ t.log = Put(r, "user", f)
  <2>1. PICK log \in Seq(Entry) : log = Put(r, "user", f) BY <1>6 DEF Grows
  <2>2. t = [s EXCEPT !.status = "running", !.asked = FALSE, !.log = log] BY <2>1
  <2> HIDE DEF s, t
  <2> QED BY <1>7, <2>1, <2>2 DEF Scalar, Statuses
<1>9. /\ u \in Scalar /\ u.queue = disk.queue /\ Answered(u.log) /\ Grows(r, u.log, F)
  <2>1. CASE f = NoMsg
    <3>1. u = s /\ F = {} BY <2>1
    <3> HIDE DEF u, s, F
    <3> QED BY <1>4, <1>7, <3>1, GrowsNot
  <2>2. CASE f # NoMsg
    <3>1. u = t BY <2>2
    <3> HIDE DEF u, t, F
    <3> QED BY <1>6, <1>8, <3>1
  <2> QED BY <2>1, <2>2
<1> HIDE DEF s, t, u
<1>10. /\ u.log \in Seq(Entry) /\ Len(disk.log) <= Len(u.log) /\ Len(u.log) \in Nat
       /\ Logged(u.log) = E \cup F /\ Distinct(u.log)
  <2>1. PICK a \in Seq(Entry), b \in Seq(Entry) : a = r /\ b = u.log
    BY <1>4, <1>9, ScalarFields
  <2>2. Grows(a, b, F) /\ Distinct(a) /\ Logged(a) = E /\ Logged(a) \cap F = {}
    BY <1>4, <1>5, <1>9, <2>1
  <2>3. Logged(b) = Logged(a) \cup F /\ Distinct(b) BY <1>5, <2>2, GrowsLogged
  <2>4. Len(a) <= Len(b) /\ Len(b) \in Nat /\ Len(a) \in Nat BY <2>2 DEF Grows
  <2> QED BY <1>4, <2>1, <2>2, <2>3, <2>4
<1>11. /\ mem' \in Memory /\ mem'.s = u /\ mem'.written = Len(disk.log)
       /\ mem'.dirty = (r # disk.log)
  BY <1>2, <1>4, <1>9 DEF Memory
<1>12. /\ loop' \in Task /\ loop'.first = f /\ loop'.at \in {"boot", "save"}
       /\ loop'.at = "save" => ~ loop'.quiet /\ loop'.phase = 0 /\ loop'.then = "boot"
  <2>1. "boot" \in Points BY DEF Points
  <2> QED BY <1>2, <2>1, Outwards, SavingFields, ZenonT(30) DEF Task
<1>13. ~ mem'.dirty => Logged(Unsaved') \subseteq F
  <2> SUFFICES ASSUME ~ mem'.dirty PROVE Logged(Unsaved') \subseteq F OBVIOUS
  <2>1. r = disk.log BY <1>11
  <2>2. PICK a \in Seq(Entry), b \in Seq(Entry) : a = r /\ b = u.log
    BY <1>4, <1>9, ScalarFields
  <2>3. Grows(a, b, F) /\ Len(a) \in 0 .. Len(a) BY <1>9, <2>2
  <2>4. Logged(Behind(b, Len(a))) = Logged(Behind(a, Len(a))) \cup F
    BY <1>5, <2>3, GrowsTail
  <2>5. Logged(Behind(a, Len(a))) = {} BY <2>3, BehindLogged
  <2>6. Unsaved' = Behind(b, Len(a)) BY <1>11, <2>1, <2>2 DEF Unsaved
  <2> QED BY <2>4, <2>5, <2>6
<1>14. Given' = {} /\ Noted' = Noted /\ Waiting' = Waiting
  BY <1>2, <1>12 DEF Given, Noted, Waiting
<1>15. Settled' = D \cup E \cup F BY <1>2, <1>9, <1>10, <1>11 DEF Settled, Stored
<1>16. E \cup D \subseteq Settled BY DEF Settled, Stored
<1>17. TypeInv'
  <2>1. TypeOK' BY <1>1, <1>2, <1>11, <1>12 DEF TypeInv, TypeOK
  <2>2. Logged(mem'.s.log) \subseteq sent /\ ToSet(mem'.s.queue) \subseteq sent
    BY <1>1, <1>9, <1>10, <1>11 DEF TypeInv
  <2> QED BY <1>1, <1>2, <1>10, <1>11, <1>12, <2>1, <2>2 DEF TypeInv
<1>18. PlaceInv'
  <2>1. /\ Waiting' \cap (Given' \cup Noted' \cup Settled') = {}
        /\ Given' \cap (Noted' \cup Settled') = {} /\ Noted' \cap Settled' = {}
    BY <1>1, <1>5, <1>14, <1>15, <1>16 DEF PlaceInv
  <2>2. D \cap (E \cup F) = {} BY <1>1, <1>5 DEF PlaceInv
  <2>3. /\ CarriedOnce(chan') /\ CarriedOnce(pend') /\ Carried(chan') \cap Carried(pend') = {}
        /\ IsInjective(mem'.s.queue) /\ IsInjective(disk'.queue)
        /\ Distinct(mem'.s.log) /\ Distinct(disk'.log)
    BY <1>1, <1>2, <1>9, <1>10, <1>11 DEF PlaceInv
  <2>4. /\ ToSet(mem'.s.queue) \cap (Logged(mem'.s.log) \cup Logged(disk'.log)) = {}
        /\ ToSet(disk'.queue) \cap Logged(disk'.log) = {}
    BY <1>2, <1>9, <1>10, <1>11, <2>2
  <2>5. ~ (loop'.at = "save" /\ loop'.phase = 1) BY <1>12
  <2>6. ~ mem'.dirty => Logged(Unsaved') \cap Logged(disk'.log) = {}
    BY <1>2, <1>5, <1>13
  <2>7. ~ Steady' BY <1>12 DEF Steady
  <2> QED BY <2>1, <2>3, <2>4, <2>5, <2>6, <2>7 DEF PlaceInv
<1>19. KeptInv' /\ Conserved
  <2>1. mem.s.queue = <<>> /\ mem.s.log = <<>>
    BY <1>1, <1>2 DEF KeptInv, Up, Blank
  <2>2. InHand \subseteq Waiting \cup {f, note}
    BY <2>1 DEF InHand, Waiting, Logged, ToSet
  <2>3. InHand' = Waiting \cup {f, note} \cup D \cup E \cup F
    BY <1>2, <1>9, <1>10, <1>11, <1>12 DEF InHand, Waiting
  <2>4. Waiting \cup {f, note} \subseteq InHand BY DEF InHand, Waiting
  <2>5. Stored = E \cup D /\ Stored' = E \cup D BY <1>2 DEF Stored
  <2>6. sent' \ Notices \subseteq InHand' \cup Stored' \cup gone'
    BY <1>1, <1>2, <2>2, <2>3, <2>5 DEF KeptInv
  <2>7. KeptInv' BY <1>2, <1>9, <1>10, <1>11, <1>12, <2>6 DEF KeptInv, Up
  <2>8. Conserved BY <1>2, <2>3, <2>4, <2>5 DEF Conserved
  <2> QED BY <2>7, <2>8
<1>20. PairInv' BY <1>9, <1>11, <1>12 DEF PairInv, Inside, Onwards
<1>21. GoalInv' BY <1>12 DEF GoalInv, Ending
<1> QED BY <1>17, <1>18, <1>19, <1>20, <1>21 DEF IInv, PlaceAndKept

-----------------------------------------------------------------------------
(* The task ends. *)

LEMMA ForgetKeeps ==
  ASSUME IInv, NEW next \in {Off, Start(NoMsg)}, NEW writer \in {note, NoMsg},
         Forget(next, writer)
  PROVE  IInv' /\ Conserved
<1>1. TypeInv /\ PlaceInv BY DEF IInv, PlaceAndKept
<1>2. /\ loop' = next /\ chan' = <<>> /\ pend' = <<>> /\ side' = 0
      /\ mem' = [s |-> Blank, written |-> 0, dirty |-> FALSE] /\ note' = writer
      /\ gone' = gone \cup (sent \ (Stored \cup {writer}))
      /\ UNCHANGED <<disk, spent, sent>>
  BY DEF Forget
<1>3. /\ loop' \in Task /\ loop'.first = NoMsg /\ loop'.at \in {"off", "load"}
  <2>1. Off \in Task /\ Off.first = NoMsg /\ Off.at = "off"
    BY DEF Off, Task, Points, SomeMsg
  <2>2. /\ Start(NoMsg) \in Task /\ Start(NoMsg).first = NoMsg /\ Start(NoMsg).at = "load"
    BY <2>1 DEF Start, Task, Points, SomeMsg
  <2> QED BY <1>2, <2>1, <2>2
<1>4. /\ Blank \in Scalar /\ Blank.queue = <<>> /\ Blank.log = <<>>
  BY DEF Blank, Scalar, Statuses, Goals
<1>5. mem' \in Memory /\ mem'.s = Blank /\ mem'.written = 0 /\ mem'.dirty = FALSE
  BY <1>2, <1>4 DEF Memory
<1>6. /\ Logged(<<>>) = {} /\ ToSet(<<>>) = {} /\ IsInjective(<<>>) /\ Distinct(<<>>)
  BY DEF Logged, ToSet, IsInjective, Distinct
<1>7. ~ Up' /\ ~ Running' /\ ~ Steady' /\ ~ Inside' /\ loop'.at # "save"
  BY <1>3 DEF Up, Running, Steady, Inside
<1>8. Given' = {} /\ Noted' \subseteq Noted /\ Waiting' = {}
  BY <1>2, <1>3, CarriedNot DEF Given, Noted, Waiting
<1>9. Stored' = Stored BY <1>2 DEF Stored
<1>10. Settled' = Stored BY <1>4, <1>5, <1>6, <1>9 DEF Settled
<1>11. TypeInv'
  <2>1. TypeOK'
    <3>1. <<>> \in Seq(Input) /\ 0 \in 0 .. MaxReports BY Numbers
    <3>2. note' \in SomeMsg /\ gone' \subseteq sent'
      BY <1>1, <1>2 DEF TypeInv, TypeOK, SomeMsg
    <3> QED BY <1>1, <1>2, <1>3, <1>5, <3>1, <3>2 DEF TypeInv, TypeOK
  <2>2. side' <= spent'.reports /\ mem'.written <= Len(mem'.s.log)
    <3>1. spent.reports \in Nat BY <1>1, Numbers DEF TypeInv, TypeOK
    <3> QED BY <1>2, <1>4, <1>5, <3>1
  <2>3. Names(chan', sent') /\ Names(pend', sent') BY <1>2, CarriedNot
  <2> QED BY <1>1, <1>2, <1>3, <1>4, <1>5, <1>6, <2>1, <2>2, <2>3 DEF TypeInv
<1>12. PlaceInv'
  <2>1. Noted' \cap Settled' = {} BY <1>1, <1>8, <1>10 DEF PlaceInv, Settled
  <2> QED BY <1>1, <1>2, <1>4, <1>5, <1>6, <1>7, <1>8, <2>1, CarriedNot DEF PlaceInv
<1>13. InHand' \subseteq {NoMsg, note} /\ writer \in InHand'
  BY <1>2, <1>3, <1>4, <1>5, <1>6, CarriedNot DEF InHand
<1>14. KeptInv'
  <2>1. sent' \ Notices \subseteq InHand' \cup Stored' \cup gone' BY <1>2, <1>9, <1>13
  <2> QED BY <1>2, <1>3, <1>5, <1>7, <2>1 DEF KeptInv
<1>15. Conserved
  <2>1. note \in InHand BY DEF InHand
  <2> QED BY <1>2, <1>9, <1>13, <2>1 DEF Conserved
<1>16. PairInv' /\ GoalInv' BY <1>3, <1>7 DEF PairInv, GoalInv, Ending
<1> QED BY <1>11, <1>12, <1>14, <1>15, <1>16 DEF IInv, PlaceAndKept

-----------------------------------------------------------------------------
(* What the daemon hands over: new messages, in the channel (those of A), as *)
(* the first of a loop started (B), or as a notice to be written (C).        *)

Arrives(A, B, C) ==
  LET M == A \cup B \cup C
  IN  /\ M \subseteq Msgs /\ M \cap sent = {} /\ sent' = sent \cup M /\ C \subseteq Notices
      /\ A \cap B = {} /\ A \cap C = {} /\ B \cap C = {}
      /\ chan' \in Seq(Input) /\ Names(chan', sent') /\ CarriedOnce(chan')
      /\ Carried(chan') = Carried(chan) \cup A
      /\ loop' \in Task /\ Given' = Given \cup B
      /\ \/ loop' = loop
         \/ loop.at = "off" /\ loop'.at = "load" /\ loop'.first \in B \cup {NoMsg}
      /\ note' \in C \cup {note} /\ Noted' = Noted \cup C
      /\ spent' \in [steps : 0 .. MaxSteps, reports : {spent.reports}, inputs : 0 .. MaxInputs]
      /\ loop'.at # "off" \/ chan' = <<>>
      /\ UNCHANGED <<pend, side, mem, disk, gone>>

LEMMA ArrivalKeeps ==
  ASSUME IInv, NEW A, NEW B, NEW C, Arrives(A, B, C) PROVE IInv' /\ Conserved
<1> DEFINE M == A \cup B \cup C
<1>0. /\ M \subseteq Msgs /\ M \cap sent = {} /\ sent' = sent \cup M /\ C \subseteq Notices
      /\ A \cap B = {} /\ A \cap C = {} /\ B \cap C = {}
      /\ chan' \in Seq(Input) /\ Names(chan', sent') /\ CarriedOnce(chan')
      /\ Carried(chan') = Carried(chan) \cup A
      /\ loop' \in Task /\ Given' = Given \cup B
      /\ \/ loop' = loop
         \/ loop.at = "off" /\ loop'.at = "load" /\ loop'.first \in B \cup {NoMsg}
      /\ note' \in C \cup {note} /\ Noted' = Noted \cup C
      /\ spent' \in [steps : 0 .. MaxSteps, reports : {spent.reports}, inputs : 0 .. MaxInputs]
      /\ loop'.at # "off" \/ chan' = <<>>
      /\ UNCHANGED <<pend, side, mem, disk, gone>>
  BY DEF Arrives
<1> USE <1>0
<1>1. TypeInv /\ PlaceInv /\ KeptInv BY DEF IInv, PlaceAndKept
<1>2. /\ chan \in Seq(Input) /\ pend \in Seq(Input) /\ sent \subseteq Msgs /\ gone \subseteq sent
  BY <1>1, TypeFacts
<1>3. Up' <=> Up BY DEF Up
<1>4. Running' <=> Running BY DEF Running
<1>5. Steady' <=> Steady BY DEF Steady
<1>6. Inside' <=> Inside BY DEF Inside
<1>7. Settled' = Settled /\ Stored' = Stored /\ Unsaved' = Unsaved
  BY DEF Settled, Stored, Unsaved
<1>8. Waiting' = Waiting \cup A BY DEF Waiting
<1>9. Waiting \cup Given \cup Noted \cup Settled \subseteq sent
  <2>1. Waiting \subseteq sent BY <1>1, WaitingSent
  <2> QED BY <1>1, <2>1 DEF TypeInv, Given, Noted, Settled, Stored
<1>10. loop'.first \in sent' \cup {NoMsg} BY <1>1 DEF TypeInv
<1>11. TypeInv'
  <2>1. TypeOK'
    <3>1. note' \in SomeMsg /\ sent' \subseteq Msgs /\ gone' \subseteq sent'
      BY <1>1, <1>2 DEF TypeInv, TypeOK, SomeMsg
    <3>2. spent' \in [steps : 0 .. MaxSteps, reports : 0 .. MaxReports, inputs : 0 .. MaxInputs]
      BY <1>1 DEF TypeInv, TypeOK
    <3> QED BY <1>1, <3>1, <3>2 DEF TypeInv, TypeOK
  <2>2. side' <= spent'.reports /\ mem'.written <= Len(mem'.s.log)
    BY <1>1 DEF TypeInv
  <2>3. Names(pend', sent')
    <3>1. Names(pend, sent) /\ sent \subseteq sent' BY <1>1 DEF TypeInv
    <3> QED BY <3>1, NamesMore
  <2>4. note' \in sent' \cup {NoMsg} /\ note' \in Notices \cup {NoMsg} BY <1>1 DEF TypeInv
  <2>5. /\ ToSet(mem'.s.queue) \cup ToSet(disk'.queue) \subseteq sent'
        /\ Logged(mem'.s.log) \cup Logged(disk'.log) \subseteq sent'
    BY <1>1 DEF TypeInv
  <2> QED BY <1>10, <2>1, <2>2, <2>3, <2>4, <2>5 DEF TypeInv
<1>12. PlaceInv'
  <2>1. /\ Waiting' \cap (Given' \cup Noted' \cup Settled') = {}
        /\ Given' \cap (Noted' \cup Settled') = {} /\ Noted' \cap Settled' = {}
    BY <1>1, <1>7, <1>8, <1>9 DEF PlaceInv
  <2>2. Carried(chan') \cap Carried(pend') = {}
    <3>1. Carried(pend) \subseteq sent BY <1>9 DEF Waiting
    <3> QED BY <1>1, <3>1 DEF PlaceInv
  <2>3. CarriedOnce(pend') BY <1>1 DEF PlaceInv
  <2>4. loop'.at = "save" /\ loop'.phase = 1 => disk'.queue = mem'.s.queue
    BY <1>1 DEF PlaceInv
  <2> QED BY <1>1, <1>4, <1>5, <1>7, <2>1, <2>2, <2>3, <2>4 DEF PlaceInv
<1>13. InHand' \ {NoMsg} \subseteq InHand \cup M
  <2>1. loop'.first \in {loop.first, NoMsg} \cup M OBVIOUS
  <2> QED BY <2>1 DEF InHand
<1>14. InHand \ {NoMsg} \subseteq InHand' \cup {loop.first}
  <2>1. note \in {NoMsg, note'} BY DEF Noted
  <2> QED BY <2>1 DEF InHand
<1>15. loop.first \in InHand' \cup {NoMsg}
  <2>1. CASE loop' = loop BY <2>1 DEF InHand
  <2>2. CASE loop.at = "off" BY <1>1, <2>2 DEF KeptInv
  <2> QED BY <2>1, <2>2
<1>16. M \subseteq InHand'
  <2>1. B \subseteq {loop'.first} BY DEF Given
  <2>2. C \subseteq {note'} BY DEF Noted
  <2> QED BY <2>1, <2>2 DEF InHand
<1>17. NoMsg \notin sent BY <1>1, TypeFacts
<1>18. KeptInv'
  <2>1. sent' \ Notices \subseteq InHand' \cup Stored' \cup gone'
    BY <1>1, <1>7, <1>14, <1>15, <1>16, <1>17 DEF KeptInv
  <2>2. loop'.at = "off" => chan' = <<>> /\ pend' = <<>> /\ loop'.first = NoMsg
    BY <1>1 DEF KeptInv
  <2>3. Up' => loop' = loop BY DEF Up
  <2> QED BY <1>1, <1>3, <2>1, <2>2, <2>3 DEF KeptInv
<1>19. Conserved BY <1>7, <1>13, <1>16 DEF Conserved
<1>20. PairInv'
  <2>1. CASE loop' = loop BY <1>4, <1>6, <2>1 DEF IInv, PairInv
  <2>2. CASE loop'.at = "load" BY <2>2 DEF PairInv, Inside, Running
  <2> QED BY <2>1, <2>2
<1>21. GoalInv' BY DEF IInv, GoalInv, Ending
<1> QED BY <1>11, <1>12, <1>18, <1>19, <1>20, <1>21 DEF IInv, PlaceAndKept

\* An input put into the channel, of a live loop or of one started for it.
LEMMA HandedKeeps ==
  ASSUME IInv, NEW i \in Input, Brings(i) \in SUBSET (Msgs \ sent), sent' = sent \cup Brings(i),
         i.k \in Naming => i.m \in sent', chan' = Append(chan, i),
         \/ Alive /\ loop' = loop
         \/ ~ Alive /\ loop' = Start(NoMsg),
         spent' \in [steps : 0 .. MaxSteps, reports : {spent.reports}, inputs : 0 .. MaxInputs],
         UNCHANGED <<pend, side, mem, disk, note, gone>>
  PROVE  IInv' /\ Conserved
<1>1. TypeInv /\ PlaceInv BY DEF IInv, PlaceAndKept
<1>2. chan \in Seq(Input) /\ CarriedOnce(chan) /\ Names(chan, sent)
  BY <1>1, TypeFacts DEF PlaceInv, TypeInv
<1>3. Carried(chan) \subseteq sent BY <1>2, CarriedNamed
<1>4. Names(chan, sent') BY <1>2, NamesMore
<1>5. /\ chan' \in Seq(Input) /\ Carried(chan') = Carried(chan) \cup Brings(i)
      /\ CarriedOnce(chan') /\ Names(chan', sent')
  <2>1. chan' \in Seq(Input) BY <1>2, Appended
  <2>2. Brings(i) \cap Carried(chan) = {} BY <1>3
  <2> QED BY <1>2, <1>4, <2>1, <2>2, CarriedAppend
<1>6. /\ loop' \in Task /\ loop'.at # "off"
      /\ \/ loop' = loop
         \/ loop.at = "off" /\ loop'.at = "load" /\ loop'.first = NoMsg
  <2>1. CASE Alive /\ loop' = loop BY <2>1, Outwards DEF Alive
  <2>2. CASE ~ Alive /\ loop' = Start(NoMsg)
    <3>1. Off \in Task BY DEF Off, Task, Points, SomeMsg
    <3>2. Start(NoMsg) \in Task /\ Start(NoMsg).at = "load" /\ Start(NoMsg).first = NoMsg
      BY <3>1 DEF Start, Task, Points, SomeMsg
    <3> QED BY <2>2, <3>2 DEF Alive
  <2> QED BY <2>1, <2>2
<1>7. Given' = Given BY <1>6 DEF Given
<1>8. Noted' = Noted BY DEF Noted
<1>9. /\ Given' = Given \cup {} /\ Noted' = Noted \cup {}
      /\ Brings(i) = Brings(i) \cup {} \cup {} /\ Brings(i) \in SUBSET Msgs
      /\ Brings(i) \cap sent = {}
  BY <1>7, <1>8
<1>10. Arrives(Brings(i), {}, {}) BY <1>5, <1>6, <1>9 DEF Arrives
<1> QED BY <1>10, ArrivalKeeps

LEMMA SpendType ==
  ASSUME IInv, Spend
  PROVE  spent' \in [steps : 0 .. MaxSteps, reports : {spent.reports}, inputs : 0 .. MaxInputs]
<1>1. spent \in [steps : 0 .. MaxSteps, reports : 0 .. MaxReports, inputs : 0 .. MaxInputs]
  BY Outwards DEF TypeInv, TypeOK
<1> QED BY <1>1, Numbers DEF Spend

LEMMA OffChannel == ASSUME IInv, ~ Alive PROVE chan = <<>> /\ loop.at = "off"
  BY DEF IInv, PlaceAndKept, KeptInv, Alive

LEMMA DeliveredElse ==
  ASSUME IInv, NEW i, Deliver(i), Alive \/ i.k # "say"
  PROVE  /\ chan' = Append(chan, i)
         /\ \/ Alive /\ loop' = loop
            \/ ~ Alive /\ loop' = Start(NoMsg)
<1>1. Append(<<>>, i) = <<i>> OBVIOUS
<1>2. CASE Alive BY <1>2 DEF Deliver
<1>3. CASE ~ Alive
  <2>1. chan = <<>> /\ i.k # "say" BY <1>3, OffChannel
  <2>2. chan' = <<i>> /\ loop' = Start(NoMsg) BY <1>3, <2>1 DEF Deliver
  <2> QED BY <1>1, <1>3, <2>1, <2>2
<1> QED BY <1>2, <1>3

LEMMA SendKeeps ==
  ASSUME IInv, NEW k \in Kinds, NEW m \in Msgs, Send(k, m) PROVE IInv' /\ Conserved
<1> DEFINE i == In(k, m)
<1>1. /\ k \in {"say", "queue"} /\ m \notin sent /\ m \notin Notices /\ sent' = sent \cup {m}
      /\ Deliver(i) /\ Spend
  BY DEF Send
<1>2. i \in Input /\ i.k = k /\ i.m = m BY DEF In, Input, SomeMsg
<1> HIDE DEF i
<1>3. Brings(i) = {m} BY <1>1, <1>2 DEF Brings, Talk
<1>4. UNCHANGED <<pend, side, mem, disk, note, gone>> BY <1>1 DEF Deliver
<1>5. CASE Alive \/ k # "say"
  <2>1. /\ chan' = Append(chan, i)
        /\ (Alive /\ loop' = loop) \/ (~ Alive /\ loop' = Start(NoMsg))
    BY <1>1, <1>2, <1>5, DeliveredElse
  <2>2. Brings(i) \in SUBSET (Msgs \ sent) /\ sent' = sent \cup Brings(i) BY <1>1, <1>3
  <2>3. i.k \in Naming => i.m \in sent' BY <1>1, <1>2
  <2> QED BY <1>1, <1>2, <1>4, <2>1, <2>2, <2>3, SpendType, HandedKeeps
<1>6. CASE ~ Alive /\ k = "say"
  <2>1. chan' = <<>> /\ loop' = Start(m) /\ chan = <<>> /\ loop.at = "off"
    BY <1>1, <1>2, <1>6, OffChannel DEF Deliver
  <2>2. loop' \in Task /\ loop'.at = "load" /\ loop'.first = m
    <3>1. Off \in Task BY DEF Off, Task, Points, SomeMsg
    <3> QED BY <2>1, <3>1 DEF Start, Task, Points, SomeMsg
  <2>3. Given' = Given \cup {m}
    <3>1. Given = {} BY <2>1 DEF Given
    <3>2. Given' = {m} \ {NoMsg} BY <2>2 DEF Given
    <3> QED BY <3>1, <3>2, Numbers
  <2>4. Noted' = Noted \cup {} BY <1>4 DEF Noted
  <2>5. /\ {m} = {} \cup {m} \cup {} /\ {m} \in SUBSET Msgs /\ {m} \cap sent = {}
    BY <1>1
  <2>6. /\ chan' \in Seq(Input) /\ Names(chan', sent') /\ CarriedOnce(chan')
        /\ Carried(chan') = Carried(chan) \cup {}
    BY <2>1, CarriedNot
  <2>7. note' \in {} \cup {note} BY <1>4
  <2>8. Arrives({}, {m}, {})
    BY <1>1, <1>4, <2>1, <2>2, <2>3, <2>4, <2>5, <2>6, <2>7, SpendType DEF Arrives
  <2> QED BY <2>8, ArrivalKeeps
<1> QED BY <1>5, <1>6

LEMMA ControlKeeps ==
  ASSUME IInv, NEW k \in Kinds, NEW m \in SomeMsg, Control(k, m) PROVE IInv' /\ Conserved
<1> DEFINE i == In(k, m)
<1>1. /\ k \notin Talk /\ (k \in Naming => m \in sent) /\ sent' = sent /\ Deliver(i) /\ Spend
  BY DEF Control, Naming, Talk
<1>2. i \in Input /\ i.k = k /\ i.m = m BY DEF In, Input
<1> HIDE DEF i
<1>3. Brings(i) = {} BY <1>1, <1>2 DEF Brings
<1>4. UNCHANGED <<pend, side, mem, disk, note, gone>> BY <1>1 DEF Deliver
<1>5. /\ chan' = Append(chan, i)
      /\ (Alive /\ loop' = loop) \/ (~ Alive /\ loop' = Start(NoMsg))
  BY <1>1, <1>2, DeliveredElse DEF Talk
<1>6. /\ Brings(i) \in SUBSET (Msgs \ sent) /\ sent' = sent \cup Brings(i)
      /\ i.k \in Naming => i.m \in sent'
  BY <1>1, <1>2, <1>3
<1> QED BY <1>1, <1>2, <1>4, <1>5, <1>6, SpendType, HandedKeeps

LEMMA NoticeKeeps ==
  ASSUME IInv, NEW m \in Notices, Notice(m) PROVE IInv' /\ Conserved
<1> DEFINE i == In("notice", m)
<1>1. /\ m \notin sent /\ sent' = sent \cup {m} /\ Spend /\ m \in Msgs
      /\ UNCHANGED <<pend, side, loop, mem, disk, gone>>
  BY Numbers DEF Notice
<1>2. i \in Input /\ i.k = "notice" /\ i.m = m BY <1>1 DEF In, Input, Kinds, SomeMsg
<1>3. Brings(i) = {m} BY <1>2 DEF Brings, Talk
<1>4. CASE Alive
  <2>1. chan' = Append(chan, i) /\ note' = note BY <1>4 DEF Notice
  <2> HIDE DEF i
  <2>2. Brings(i) \in SUBSET (Msgs \ sent) /\ sent' = sent \cup Brings(i) BY <1>1, <1>3
  <2>3. i.k \in Naming => i.m \in sent' BY <1>1, <1>2
  <2> QED BY <1>1, <1>2, <1>4, <2>1, <2>2, <2>3, SpendType, HandedKeeps
<1>5. CASE ~ Alive
  <2>1. note = NoMsg /\ note' = m /\ chan' = chan BY <1>5 DEF Notice
  <2>2. TypeInv /\ PlaceInv /\ chan = <<>> BY <1>5, OffChannel DEF IInv, PlaceAndKept
  <2>3. /\ chan' \in Seq(Input) /\ Names(chan', sent') /\ CarriedOnce(chan')
        /\ Carried(chan') = Carried(chan) \cup {}
    BY <2>1, <2>2, CarriedNot
  <2>4. Given' = Given \cup {} BY <1>1 DEF Given
  <2>5. Noted' = Noted \cup {m}
    <3>1. Noted = {} BY <2>1 DEF Noted
    <3>2. Noted' = {m} \ {NoMsg} BY <2>1 DEF Noted
    <3> QED BY <1>1, <3>1, <3>2, Numbers
  <2>6. /\ {m} = {} \cup {} \cup {m} /\ {m} \in SUBSET Msgs /\ {m} \cap sent = {}
        /\ {m} \subseteq Notices /\ note' \in {m} \cup {note}
    BY <1>1, <2>1
  <2>7. loop' \in Task /\ (loop'.at # "off" \/ chan' = <<>>) BY <1>1, <2>1, <2>2, Outwards
  <2>8. Arrives({}, {}, {m})
    BY <1>1, <2>3, <2>4, <2>5, <2>6, <2>7, SpendType DEF Arrives
  <2> QED BY <2>8, ArrivalKeeps
<1> QED BY <1>4, <1>5

\* The notice goes into the store; what is in memory of it stays unaware.
LEMMA WriteNoticeKeeps == ASSUME IInv, WriteNotice PROVE IInv' /\ Conserved
<1>1. TypeInv /\ PlaceInv /\ KeptInv BY DEF IInv, PlaceAndKept
<1>2. /\ note # NoMsg /\ note' = NoMsg
      /\ disk' = [disk EXCEPT !.log = Put(@, "notice", note)]
      /\ UNCHANGED <<chan, pend, side, loop, mem, spent, sent, gone>>
  BY DEF WriteNotice
<1>3. note \in sent /\ note \in Notices /\ note \in Msgs
  BY <1>1, <1>2, TypeFacts DEF TypeInv
<1>4. disk' \in Scalar /\ disk'.queue = disk.queue /\ disk'.log = Put(disk.log, "notice", note)
  BY <1>1, <1>2, <1>3, TypeFacts, RecordType DEF Marks, SomeMsg
<1>5. Noted = {note} /\ Noted' = {} BY <1>2 DEF Noted
<1>6. note \notin Waiting \cup Given \cup Settled BY <1>1, <1>5 DEF PlaceInv
<1>7. Logged(disk'.log) = Logged(disk.log) \cup {note} /\ Distinct(disk'.log)
  <2>1. PICK a \in Seq(Entry) : a = disk.log BY <1>1, TypeFacts, ScalarFields
  <2>2. "notice" \in Marks BY DEF Marks
  <2>3. note \in SomeMsg /\ {note} \ {NoMsg} = {note} BY <1>2, <1>3 DEF SomeMsg
  <2>4. Grows(a, Put(a, "notice", note), {note}) BY <2>2, <2>3, GrowsPut
  <2>5. Distinct(a) /\ Logged(a) \cap {note} = {}
    BY <1>1, <1>6, <2>1 DEF PlaceInv, Settled, Stored
  <2> QED BY <1>3, <1>4, <2>1, <2>4, <2>5, GrowsLogged
<1>8. Logged(Unsaved) \subseteq Logged(mem.s.log) /\ Unsaved' = Unsaved
  <2>1. PICK a \in Seq(Entry) : a = mem.s.log /\ mem.written \in 0 .. Len(a)
    BY <1>1, TypeFacts, ScalarFields
  <2>2. Logged(Behind(a, mem.written)) \subseteq Logged(a) BY <2>1, BehindLogged
  <2> QED BY <1>2, <2>1, <2>2 DEF Unsaved
<1>9. /\ Waiting' = Waiting /\ Given' = Given /\ Settled' = Settled \cup {note}
      /\ Stored' = Stored \cup {note}
  BY <1>2, <1>4, <1>7 DEF Waiting, Given, Settled, Stored
<1>10. TypeInv'
  <2>1. TypeOK' BY <1>1, <1>2, <1>4 DEF TypeInv, TypeOK, SomeMsg
  <2> QED BY <1>1, <1>2, <1>3, <1>4, <1>7, <2>1 DEF TypeInv
<1>11. PlaceInv'
  <2>1. /\ Waiting' \cap (Given' \cup Noted' \cup Settled') = {}
        /\ Given' \cap (Noted' \cup Settled') = {} /\ Noted' \cap Settled' = {}
    BY <1>1, <1>5, <1>6, <1>9 DEF PlaceInv
  <2>2. note \notin ToSet(mem.s.queue) \cup ToSet(disk.queue) \cup Logged(mem.s.log)
    BY <1>6 DEF Settled, Stored
  <2>3. /\ ToSet(mem'.s.queue) \cap (Logged(mem'.s.log) \cup Logged(disk'.log)) = {}
        /\ ToSet(disk'.queue) \cap Logged(disk'.log) = {}
    BY <1>1, <1>2, <1>4, <1>7, <2>2 DEF PlaceInv
  <2>4. /\ IsInjective(mem'.s.queue) /\ IsInjective(disk'.queue)
        /\ Distinct(mem'.s.log) /\ Distinct(disk'.log)
        /\ CarriedOnce(chan') /\ CarriedOnce(pend') /\ Carried(chan') \cap Carried(pend') = {}
    BY <1>1, <1>2, <1>4, <1>7 DEF PlaceInv
  <2>5. Running' /\ ~ mem'.dirty => Logged(Unsaved') \cap Logged(disk'.log) = {}
    BY <1>1, <1>2, <1>7, <1>8, <2>2 DEF PlaceInv, Running
  <2>6. Steady' => Logged(Unsaved') = {} BY <1>1, <1>2, <1>8 DEF PlaceInv, Steady
  <2>7. loop'.at = "save" /\ loop'.phase = 1 => disk'.queue = mem'.s.queue
    BY <1>1, <1>2, <1>4 DEF PlaceInv
  <2> QED BY <2>1, <2>3, <2>4, <2>5, <2>6, <2>7 DEF PlaceInv
<1>12. InHand' \subseteq InHand \cup {NoMsg} /\ InHand \subseteq InHand' \cup {note}
  BY <1>2 DEF InHand
<1>13. KeptInv'
  <2>1. sent' \ Notices \subseteq InHand' \cup Stored' \cup gone'
    BY <1>1, <1>2, <1>3, <1>9, <1>12 DEF KeptInv
  <2>2. Logged(disk'.log) \ Notices = Logged(disk.log) \ Notices BY <1>3, <1>7
  <2> QED BY <1>1, <1>2, <1>4, <2>1, <2>2 DEF KeptInv, Up
<1>14. Conserved
  <2>1. note \in InHand BY DEF InHand
  <2> QED BY <1>2, <1>7, <1>9, <1>12, <2>1 DEF Conserved
<1>15. PairInv' BY <1>2 DEF IInv, PairInv, Inside, Running
<1>16. GoalInv' BY <1>2 DEF IInv, GoalInv, Ending
<1> QED BY <1>10, <1>11, <1>13, <1>14, <1>15, <1>16 DEF IInv, PlaceAndKept

\* Only the reports that wait and their count change, if anything.
LEMMA AsideKeeps ==
  ASSUME IInv, UNCHANGED <<chan, pend, loop, mem, disk, note, sent, gone>>,
         side' \in 0 .. MaxReports, side' <= spent'.reports,
         spent' \in [steps : 0 .. MaxSteps, reports : 0 .. MaxReports, inputs : 0 .. MaxInputs]
  PROVE  IInv' /\ Conserved
<1>1. TypeInv /\ PlaceInv /\ KeptInv BY DEF IInv, PlaceAndKept
<1>2. TypeInv' BY <1>1 DEF TypeInv, TypeOK
<1>3. /\ Waiting' = Waiting /\ Given' = Given /\ Noted' = Noted /\ Settled' = Settled
      /\ Unsaved' = Unsaved /\ InHand' = InHand /\ Stored' = Stored
  BY DEF Waiting, Given, Noted, Settled, Unsaved, InHand, Stored
<1>4. PlaceInv' BY <1>1, <1>3 DEF PlaceInv, Running, Steady
<1>5. KeptInv' BY <1>1, <1>3 DEF KeptInv, Up
<1>6. Conserved BY <1>3 DEF Conserved
<1>7. PairInv' BY DEF IInv, PairInv, Inside, Running
<1>8. GoalInv' BY DEF IInv, GoalInv, Ending
<1> QED BY <1>2, <1>4, <1>5, <1>6, <1>7, <1>8 DEF IInv, PlaceAndKept

LEMMA ReportKeeps == ASSUME IInv, Report PROVE IInv' /\ Conserved
<1>1. /\ spent.reports < MaxReports /\ spent' = [spent EXCEPT !.reports = @ + 1]
      /\ side' = side + 1 /\ UNCHANGED <<chan, pend, loop, mem, disk, note, sent, gone>>
  BY DEF Report
<1>2. /\ spent \in [steps : 0 .. MaxSteps, reports : 0 .. MaxReports, inputs : 0 .. MaxInputs]
      /\ side \in Nat /\ side <= spent.reports
  BY Outwards DEF TypeInv, TypeOK
<1>3. /\ spent' \in [steps : 0 .. MaxSteps, reports : 0 .. MaxReports, inputs : 0 .. MaxInputs]
      /\ spent'.reports = spent.reports + 1 /\ spent.reports \in Nat
  BY <1>1, <1>2, Numbers
<1>4. side' \in 0 .. MaxReports /\ side' <= spent'.reports BY <1>1, <1>2, <1>3, Numbers
<1> QED BY <1>1, <1>3, <1>4, AsideKeeps

LEMMA IdleKeeps == ASSUME IInv, UNCHANGED vars PROVE IInv' /\ Conserved
<1>1. UNCHANGED <<chan, pend, side, loop, mem, disk, note, spent, sent, gone>>
  BY DEF vars
<1>2. /\ spent \in [steps : 0 .. MaxSteps, reports : 0 .. MaxReports, inputs : 0 .. MaxInputs]
      /\ side \in 0 .. MaxReports /\ side <= spent.reports
  BY Outwards DEF TypeInv, TypeOK
<1> QED BY <1>1, <1>2, AsideKeeps

-----------------------------------------------------------------------------
(* The invariant holds of every run. *)

LEMMA InitHolds == Init => IInv
<1> SUFFICES ASSUME Init PROVE IInv OBVIOUS
<1>1. /\ chan = <<>> /\ pend = <<>> /\ side = 0 /\ loop = Off /\ disk = Blank
      /\ mem = [s |-> Blank, written |-> 0, dirty |-> FALSE] /\ note = NoMsg
      /\ spent = [steps |-> 0, reports |-> 0, inputs |-> 0] /\ sent = {} /\ gone = {}
  BY DEF Init
<1>2. Off \in Task /\ Off.at = "off" /\ Off.first = NoMsg
  BY DEF Off, Task, Points, SomeMsg
<1>3. Blank \in Scalar /\ Blank.queue = <<>> /\ Blank.log = <<>>
  BY DEF Blank, Scalar, Statuses, Goals
<1>4. mem \in Memory /\ mem.s = Blank /\ mem.written = 0 BY <1>1, <1>3 DEF Memory
<1>5. /\ Logged(<<>>) = {} /\ ToSet(<<>>) = {} /\ IsInjective(<<>>) /\ Distinct(<<>>)
  BY DEF Logged, ToSet, IsInjective, Distinct
<1>6. ~ Up /\ ~ Running /\ ~ Steady /\ ~ Inside
  BY <1>1, <1>2 DEF Up, Running, Steady, Inside
<1>7. TypeInv
  <2>1. TypeOK
    <3>1. <<>> \in Seq(Input) /\ 0 \in 0 .. MaxReports BY Numbers
    <3>2. spent \in [steps : 0 .. MaxSteps, reports : 0 .. MaxReports, inputs : 0 .. MaxInputs]
      BY <1>1, Numbers
    <3> QED BY <1>1, <1>2, <1>3, <1>4, <3>1, <3>2 DEF TypeOK, SomeMsg
  <2> QED BY <1>1, <1>2, <1>3, <1>4, <1>5, <2>1, CarriedNot DEF TypeInv
<1>8. Waiting = {} /\ Given = {} /\ Noted = {}
  BY <1>1, <1>2, CarriedNot DEF Waiting, Given, Noted
<1>9. PlaceInv BY <1>1, <1>2, <1>3, <1>4, <1>5, <1>6, <1>8, CarriedNot DEF PlaceInv
<1>10. KeptInv BY <1>1, <1>2, <1>4, <1>6 DEF KeptInv
<1>11. PairInv /\ GoalInv BY <1>1, <1>2, <1>6 DEF PairInv, GoalInv, Ending
<1> QED BY <1>7, <1>9, <1>10, <1>11 DEF IInv, PlaceAndKept

\* The steps between loads and saves, and the others.
Work == \/ Boot \/ Top \/ ApplyPending \/ Applying \/ Flush \/ Branch
        \/ DrainInput \/ Drained \/ Call \/ Result \/ EndTurn \/ ModelError \/ Retry
        \/ StepInput \/ CancelInput \/ Cancelled \/ Rested
        \/ ParkInput \/ ParkReport \/ Drive
Ends == \E next \in {Off, Start(NoMsg)}, writer \in {note, NoMsg} : Forget(next, writer)

LEMMA NextIs ==
  ASSUME Next
  PROVE  \/ Work \/ Load \/ SaveScalar \/ SaveMessages \/ SaveFails \/ Ends
         \/ Daemon
  BY DEF Next, LoopStep, Faults, Work, Ends, Stop, Abort, Finished

LEMMA WorkKeeps == ASSUME IInv, Work PROVE IInv' /\ Further
  BY BootKeeps, TopKeeps, ApplyPendingKeeps, ApplyingKeeps, FlushKeeps, BranchKeeps,
     DrainInputKeeps, DrainedKeeps, CallKeeps, ResultKeeps, EndTurnKeeps, ModelErrorKeeps,
     RetryKeeps, StepInputKeeps, CancelInputKeeps, CancelledKeeps, RestedKeeps,
     ParkInputKeeps, ParkReportKeeps, DriveKeeps
  DEF Work

LEMMA DaemonKeeps == ASSUME IInv, Daemon PROVE IInv' /\ Conserved
  BY SendKeeps, ControlKeeps, NoticeKeeps, WriteNoticeKeeps, ReportKeeps DEF Daemon

LEMMA StepKeeps == ASSUME IInv, [Next]_vars PROVE IInv' /\ Conserved
<1>1. CASE Work BY <1>1, WorkKeeps DEF Further
<1>2. CASE Ends BY <1>2, ForgetKeeps DEF Ends
<1>3. CASE Load \/ SaveScalar \/ SaveMessages \/ SaveFails
  BY <1>3, LoadKeeps, SaveScalarKeeps, SaveMessagesKeeps, SaveFailsKeeps
<1>4. CASE Daemon BY <1>4, DaemonKeeps
<1>5. CASE UNCHANGED vars BY <1>5, IdleKeeps
<1> QED BY <1>1, <1>2, <1>3, <1>4, <1>5, NextIs

\* The inductive invariant holds in every reachable state.
THEOREM SessionInvariant == Spec => []IInv
<1>1. IInv /\ [Next]_vars => IInv' BY StepKeeps
<1> QED BY InitHolds, <1>1, PTL DEF Spec

\* Every variable keeps its type: the counts stay within their bounds, and the loop
\* never takes a report that is not there.
THEOREM SessionTypes == Spec => []TypeOK
<1>1. IInv => TypeOK BY DEF IInv, PlaceAndKept, TypeInv
<1> QED BY SessionInvariant, <1>1, PTL

\* When the model is called, every tool call of the transcript has its result, however
\* calls were cut off before (repair_unanswered_tool_calls, run_interactive).
THEOREM CallsPaired == Spec => []PairedCalls
<1>1. IInv => PairedCalls
  BY DEF IInv, PairInv, PairedCalls, Running, Inside, Answered
<1> QED BY SessionInvariant, <1>1, PTL

\* No message is in the stored transcript twice, whatever stops, failing saves and
\* restarts come between (persist_to_store, load_or_initialize_state).
THEOREM NothingRecordedTwice == Spec => []RecordedOnce
<1>1. IInv => RecordedOnce
  BY DEF IInv, PlaceAndKept, PlaceInv, Distinct, RecordedOnce
<1> QED BY SessionInvariant, <1>1, PTL

\* After an interrupt no goal is active that would drive the session on (run_interactive).
THEOREM InterruptsStopGoals == Spec => []InterruptStopsGoal
<1>1. IInv => InterruptStopsGoal BY DEF IInv, GoalInv, Ending, InterruptStopsGoal
<1> QED BY SessionInvariant, <1>1, PTL

\* Nothing people or agents send is dropped: NothingDropped without the notices.
Kept == sent \ Notices \subseteq InHand \cup Stored \cup gone

\* A message people or agents send is in the loop's hands or in the store until a stop
\* takes it or the user removes it, with every operation in use (deliver, run_interactive).
THEOREM MessagesKept == Spec => []Kept
<1>1. IInv => Kept BY DEF IInv, PlaceAndKept, KeptInv, Kept
<1> QED BY SessionInvariant, <1>1, PTL

-----------------------------------------------------------------------------
(* Without notices, and with a store that does not fail. *)

NoNotice == note = NoMsg /\ sent \cap Notices = {}

LEMMA NoticesInit == Init => NoNotice BY DEF Init, NoNotice

LEMMA NoticesStep ==
  ASSUME "notice" \notin Ops, IInv, NoNotice, [Next]_vars PROVE NoNotice'
<1>1. CASE Work BY <1>1, WorkKeeps DEF Further, Onward, NoNotice
<1>2. CASE Ends BY <1>2 DEF Ends, Forget, NoNotice
<1>3. CASE Load \/ SaveScalar \/ SaveMessages \/ SaveFails
  BY <1>3 DEF Load, SaveScalar, SaveMessages, SaveFails, rest, NoNotice
<1>4. CASE Daemon
  <2>1. ASSUME NEW k \in Kinds, NEW m \in Msgs, Send(k, m) PROVE NoNotice'
    BY <2>1 DEF Send, Deliver, NoNotice
  <2>2. ASSUME NEW k \in Kinds, NEW m \in SomeMsg, Control(k, m) PROVE NoNotice'
    BY <2>2 DEF Control, Deliver, NoNotice
  <2>3. CASE WriteNotice BY <2>3 DEF WriteNotice, NoNotice
  <2>4. CASE Report BY <2>4 DEF Report, NoNotice
  <2>5. ~ \E m \in Notices : Notice(m) BY DEF Notice
  <2> QED BY <1>4, <2>1, <2>2, <2>3, <2>4, <2>5 DEF Daemon
<1>5. CASE UNCHANGED vars BY <1>5 DEF vars, NoNotice
<1> QED BY <1>1, <1>2, <1>3, <1>4, <1>5, NextIs

\* Without that operation no notice waits for its writer or was ever handed over.
THEOREM NoNoticeEver == ASSUME "notice" \notin Ops PROVE Spec => [](IInv /\ NoNotice)
<1>1. Init => NoNotice BY NoticesInit
<1>2. IInv /\ NoNotice /\ [Next]_vars => NoNotice' BY NoticesStep
<1> QED BY <1>1, <1>2, SessionInvariant, PTL DEF Spec

\* Nothing at all that was handed over is dropped, when no notice is recorded: that one
\* goes to the store past a loop that starts just then, which may write over it.
THEOREM NothingIsDropped == ASSUME "notice" \notin Ops PROVE Spec => []NothingDropped
<1>1. IInv /\ NoNotice => NothingDropped
  BY DEF IInv, PlaceAndKept, KeptInv, NoNotice, NothingDropped
<1> QED BY NoNoticeEver, <1>1, PTL

StoreInv ==
  Running => /\ mem.written = Len(disk.log)
             /\ mem.dirty \/ Extends(disk.log, mem.s.log)

LEMMA ExtendsFacts ==
  ASSUME NEW a \in Seq(Entry), NEW b \in Seq(Entry)
  PROVE  /\ Extends(a, a)
         /\ Extends(a, b) => IsPrefix(a, b)
         /\ Extends(a, b) => b = a \o Behind(b, Len(a))
         /\ \A c \in Seq(Entry) : Extends(a, b) /\ Extends(b, c) => Extends(a, c)
<1>1. Len(a) \in Nat /\ Len(b) \in Nat /\ DOMAIN a = 1 .. Len(a) /\ DOMAIN b = 1 .. Len(b)
  OBVIOUS
<1>2. Extends(a, a) BY <1>1 DEF Extends
<1>3. ASSUME Extends(a, b) PROVE IsPrefix(a, b)
  <2>1. Len(a) <= Len(b) /\ \A i \in 1 .. Len(a) : b[i] = a[i] BY <1>1, <1>3 DEF Extends
  <2>2. SubSeq(a, 1, Len(a)) = a /\ SubSeq(b, 1, Len(a)) = a BY <1>1, <2>1
  <2> QED BY <2>1, <2>2 DEF IsPrefix
<1>4. ASSUME Extends(a, b) PROVE b = a \o Behind(b, Len(a))
  <2>1. Len(a) <= Len(b) /\ \A i \in 1 .. Len(a) : b[i] = a[i] BY <1>1, <1>4 DEF Extends
  <2>2. Len(a) \in 0 .. Len(b) BY <1>1, <2>1
  <2>3. PICK d \in Seq(Entry) : /\ d = Behind(b, Len(a)) /\ Len(d) = Len(b) - Len(a)
                                /\ \A i \in 1 .. Len(d) : d[i] = b[Len(a) + i]
    BY <2>2, BehindFacts
  <2>4. /\ a \o d \in Seq(Entry) /\ Len(a \o d) = Len(a) + Len(d)
        /\ \A i \in 1 .. Len(a) : (a \o d)[i] = a[i]
        /\ \A i \in 1 .. Len(d) : (a \o d)[Len(a) + i] = d[i]
    BY Joined
  <2>5. PICK c \in Seq(Entry) : c = a \o d BY <2>4
  <2>6. Len(c) = Len(b)
    <3>1. Len(c) = Len(a) + Len(d) BY <2>4, <2>5
    <3> QED BY <1>1, <2>3, <3>1
  <2>7. \A i \in 1 .. Len(b) : c[i] = b[i]
    <3> SUFFICES ASSUME NEW i \in 1 .. Len(b) PROVE c[i] = b[i] OBVIOUS
    <3>1. CASE i <= Len(a)
      <4>1. i \in 1 .. Len(a) BY <3>1
      <4> QED BY <2>1, <2>4, <2>5, <4>1
    <3>2. CASE i > Len(a)
      <4>1. i - Len(a) \in 1 .. Len(d) /\ Len(a) + (i - Len(a)) = i BY <1>1, <2>3, <3>2
      <4> QED BY <2>3, <2>4, <2>5, <4>1
    <3> QED BY <1>1, <3>1, <3>2
  <2>8. c = b BY <2>6, <2>7
  <2> QED BY <2>3, <2>5, <2>8
<1>5. ASSUME NEW c \in Seq(Entry), Extends(a, b), Extends(b, c) PROVE Extends(a, c)
  <2>1. Len(c) \in Nat OBVIOUS
  <2>2. Len(a) <= Len(b) /\ Len(b) <= Len(c) /\ \A i \in DOMAIN a : i \in DOMAIN b
    BY <1>1, <1>5 DEF Extends
  <2> QED BY <1>1, <1>5, <2>1, <2>2 DEF Extends
<1> QED BY <1>2, <1>3, <1>4, <1>5

LEMMA LogsTyped == ASSUME IInv PROVE mem.s.log \in Seq(Entry) /\ disk.log \in Seq(Entry)
  BY TypeFacts, ScalarFields DEF IInv, PlaceAndKept

LEMMA StoreWork == ASSUME IInv, StoreInv, Work PROVE StoreInv'
<1>1. IInv' /\ Onward BY WorkKeeps DEF Further
<1>2. PICK a \in Seq(Entry) : a = disk.log BY LogsTyped
<1>3. PICK b \in Seq(Entry) : b = mem.s.log BY LogsTyped
<1>4. PICK c \in Seq(Entry) : c = mem'.s.log
  BY <1>1 DEF IInv, PlaceAndKept, TypeInv, TypeOK, Memory, Scalar
<1>5. Running /\ disk' = disk /\ mem'.written = mem.written BY <1>1 DEF Onward
<1>6. mem'.dirty \/ Extends(a, c)
  BY <1>1, <1>2, <1>3, <1>4, <1>5, ExtendsFacts DEF Onward, StoreInv
<1>7. mem'.written = Len(disk'.log) BY <1>5 DEF StoreInv
<1> QED BY <1>2, <1>4, <1>5, <1>6, <1>7 DEF StoreInv

LEMMA StoreLoad == ASSUME IInv, Load PROVE StoreInv'
<1> DEFINE r == Repaired(disk.log)
           s == [disk EXCEPT !.log = r]
           t == [s EXCEPT !.status = "running", !.asked = FALSE,
                          !.log = Put(r, "user", loop.first)]
<1>1. /\ mem'.s \in {s, t} /\ mem'.written = Len(disk.log) /\ mem'.dirty = (r # disk.log)
      /\ disk' = disk
  BY DEF Load
<1>2. PICK a \in Seq(Entry) : a = disk.log BY LogsTyped
<1>3. s.log = r /\ t.log = Put(r, "user", loop.first)
  BY TypeFacts DEF IInv, PlaceAndKept, Scalar
<1>4. loop.first \in SomeMsg /\ "user" \in Marks
  BY TypeFacts DEF IInv, PlaceAndKept, Task, Marks
<1>5. Extends(a, a) /\ Extends(a, Put(a, "user", loop.first))
  <2>1. Grows(a, Put(a, "user", loop.first), {loop.first} \ {NoMsg}) BY <1>4, GrowsPut
  <2> QED BY <2>1, ExtendsFacts DEF Grows, Extends
<1>6. mem'.dirty \/ Extends(disk.log, mem'.s.log)
  <2>1. ASSUME r = disk.log PROVE Extends(disk.log, mem'.s.log)
    <3>1. mem'.s.log \in {a, Put(a, "user", loop.first)} BY <1>1, <1>2, <1>3, <2>1
    <3> QED BY <1>2, <1>5, <3>1
  <2> QED BY <1>1, <2>1
<1> QED BY <1>1, <1>6 DEF StoreInv

LEMMA StoreSaved == ASSUME IInv, StoreInv, SaveMessages PROVE StoreInv'
<1>1. /\ loop.at = "save" /\ disk' = [disk EXCEPT !.log = Written]
      /\ mem' = [mem EXCEPT !.written = Len(mem.s.log), !.dirty = FALSE]
  BY DEF SaveMessages
<1>2. /\ disk'.log = Written
  BY <1>1, WrittenFacts
<1>3. PICK a \in Seq(Entry) : a = disk.log BY LogsTyped
<1>4. PICK b \in Seq(Entry) : b = mem.s.log BY LogsTyped
<1>5. Written = b
  <2>1. CASE mem.dirty BY <1>4, <2>1 DEF Written
  <2>2. CASE ~ mem.dirty
    <3>1. mem.written = Len(a) /\ Extends(a, b)
      BY <1>1, <1>3, <1>4, <2>2 DEF StoreInv, Running
    <3>2. b = a \o Behind(b, Len(a)) BY <3>1, ExtendsFacts
    <3>3. Written = a \o Behind(b, Len(a)) BY <1>3, <1>4, <2>2, <3>1 DEF Written, Behind
    <3> QED BY <3>2, <3>3
  <2> QED BY <2>1, <2>2
<1>6. mem'.s = mem.s /\ mem'.written = Len(mem.s.log)
  BY <1>1, TypeFacts DEF IInv, PlaceAndKept
<1>7. Extends(b, b) BY ExtendsFacts
<1>8. Extends(disk'.log, mem'.s.log) /\ mem'.written = Len(disk'.log)
  BY <1>2, <1>4, <1>5, <1>6, <1>7
<1> QED BY <1>8 DEF StoreInv

LEMMA StoreKeeps ==
  ASSUME "notice" \notin Ops, "fail" \notin Ops, IInv, NoNotice, StoreInv, [Next]_vars
  PROVE  StoreInv'
<1>1. CASE Work BY <1>1, StoreWork
<1>2. CASE Ends
  <2>1. loop' = Off \/ loop' = Start(NoMsg) BY <1>2 DEF Ends, Forget
  <2>2. loop'.at \in {"off", "load"}
    <3>1. Off.at = "off" BY DEF Off
    <3>2. Start(NoMsg).at = "load" BY DEF Start, Off
    <3> QED BY <2>1, <3>1, <3>2
  <2>3. ~ Running' BY <2>2 DEF Running
  <2> QED BY <2>3 DEF StoreInv
<1>3. CASE Load BY <1>3, StoreLoad
<1>4. CASE SaveScalar
  <2>1. mem' = mem /\ disk'.log = disk.log /\ Running
    <3>1. mem' = mem /\ disk' = [mem.s EXCEPT !.log = disk.log] /\ loop.at = "save"
      BY <1>4 DEF SaveScalar
    <3>2. mem.s \in Scalar BY TypeFacts DEF IInv, PlaceAndKept
    <3> QED BY <3>1, <3>2 DEF Scalar, Running
  <2> QED BY <2>1 DEF StoreInv
<1>5. CASE SaveMessages BY <1>5, StoreSaved
<1>6. CASE SaveFails BY <1>6 DEF SaveFails
<1>7. CASE Daemon
  <2>1. mem' = mem /\ disk' = disk
    BY <1>7 DEF Daemon, Send, Control, Deliver, Notice, WriteNotice, Report, NoNotice
  <2>2. loop' = loop \/ loop'.at = "load"
    BY <1>7, ZenonT(30) DEF Daemon, Send, Control, Deliver, Notice, WriteNotice, Report, Start, Off
  <2> QED BY <2>1, <2>2 DEF StoreInv, Running
<1>8. CASE UNCHANGED vars BY <1>8 DEF vars, StoreInv, Running
<1> QED BY <1>1, <1>2, <1>3, <1>4, <1>5, <1>6, <1>7, <1>8, NextIs

\* The loop knows how much of the transcript is stored, and the stored one is the
\* beginning of its own, when the store does not fail and no notice goes past the loop.
THEOREM StoredIsPrefix ==
  ASSUME "notice" \notin Ops, "fail" \notin Ops PROVE Spec => []StoreFollows
<1>1. Init => StoreInv BY DEF Init, StoreInv, Running, Off
<1>2. IInv /\ NoNotice /\ StoreInv /\ [Next]_vars => StoreInv' BY StoreKeeps
<1>3. IInv /\ StoreInv => StoreFollows
  <2> SUFFICES ASSUME IInv, StoreInv, Running
               PROVE  /\ Len(disk.log) = mem.written
                      /\ mem.dirty \/ IsPrefix(disk.log, mem.s.log)
    BY DEF StoreFollows, Running
  <2>1. PICK a \in Seq(Entry) : a = disk.log BY LogsTyped
  <2>2. PICK b \in Seq(Entry) : b = mem.s.log BY LogsTyped
  <2>3. Extends(a, b) => IsPrefix(a, b) BY ExtendsFacts
  <2> QED BY <2>1, <2>2, <2>3 DEF StoreInv
<1> QED BY <1>1, <1>2, <1>3, NoNoticeEver, PTL DEF Spec

-----------------------------------------------------------------------------
(* What the session promises of a message. *)

LEMMA WhereIs ==
  \A m : /\ m \in Notices \/ m \notin sent => Where(m) = "out"
         /\ m \in sent \ Notices /\ m \in Logged(disk.log) => Where(m) = "recorded"
         /\ m \in sent \ Notices /\ m \notin InHand \cup Stored => Where(m) = "lost"
         /\ /\ m \in sent \ Notices /\ m \in InHand \cup Stored
            /\ m \notin Logged(disk.log)
            => Where(m) = "inside"
<1>1. Logged(disk.log) \subseteq Stored BY DEF Stored
<1> QED BY <1>1 DEF Where

LEMMA WhereIsNext ==
  \A m : /\ m \in Notices \/ m \notin sent' => Where(m)' = "out"
         /\ m \in sent' \ Notices /\ m \in Logged(disk.log)' => Where(m)' = "recorded"
         /\ m \in sent' \ Notices /\ m \notin (InHand \cup Stored)' => Where(m)' = "lost"
         /\ /\ m \in sent' \ Notices /\ m \in (InHand \cup Stored)'
            /\ m \notin Logged(disk.log)'
            => Where(m)' = "inside"
<1>1. Logged(disk.log)' \subseteq Stored' BY DEF Stored
<1> QED BY <1>1 DEF Where

\* No step moves a message otherwise than Inbox says.
LEMMA WhereMoves ==
  ASSUME TypeInv, Conserved, NEW m \in Msgs PROVE Promise!Onward(Where(m), Where(m)')
<1>1. Logged(disk.log) \subseteq sent /\ Logged(disk.log) \subseteq Stored
  BY DEF TypeInv, Stored
<1>2. m # NoMsg BY LoopNoMsg
<1>3. CASE m \in Notices \/ m \notin sent
  <2>1. Where(m) = "out" BY <1>3, WhereIs
  <2>2. CASE m \in Notices \/ m \notin sent'
    <3>1. Where(m)' = "out" BY <2>2, WhereIsNext
    <3> QED BY <2>1, <3>1 DEF Promise!Onward
  <2>3. CASE m \in sent' \ Notices
    <3>1. m \in (sent' \ sent) \ Notices BY <1>3, <2>3
    <3>2. disk' = disk /\ m \in InHand' BY <3>1 DEF Conserved
    <3>3. m \notin Logged(disk.log)' BY <1>1, <3>1, <3>2
    <3>4. Where(m)' = "inside" BY <2>3, <3>2, <3>3, WhereIsNext
    <3> QED BY <2>1, <3>4 DEF Promise!Onward
  <2> QED BY <2>2, <2>3
<1>4. CASE m \in sent \ Notices /\ m \in Logged(disk.log)
  <2>1. Where(m) = "recorded" BY <1>4, WhereIs
  <2>2. m \in sent' \ Notices /\ m \in Logged(disk.log)' BY <1>4 DEF Conserved
  <2>3. Where(m)' = "recorded" BY <2>2, WhereIsNext
  <2> QED BY <2>1, <2>3 DEF Promise!Onward
<1>5. CASE m \in sent \ Notices /\ m \notin InHand \cup Stored
  <2>1. Where(m) = "lost" BY <1>5, WhereIs
  <2>2. m \in sent' \ Notices /\ m \notin (InHand \cup Stored)' BY <1>2, <1>5 DEF Conserved
  <2>3. Where(m)' = "lost" BY <2>2, WhereIsNext
  <2> QED BY <2>1, <2>3 DEF Promise!Onward
<1>6. CASE m \in sent \ Notices /\ m \in InHand \cup Stored /\ m \notin Logged(disk.log)
  <2>1. Where(m) = "inside" BY <1>6, WhereIs
  <2>2. m \in sent' \ Notices BY <1>6 DEF Conserved
  <2>3. Where(m)' \in {"inside", "recorded", "lost"} BY <2>2, WhereIsNext
  <2> QED BY <2>1, <2>3 DEF Promise!Onward
<1> QED BY <1>3, <1>4, <1>5, <1>6

\* The session implements Inbox: a message is recorded once or lost, and once it is
\* recorded it stays, through saves that fail, stops and restarts.
THEOREM SessionPromises == Spec => Promised
<1>1. ASSUME Init PROVE Promise!Init
  <2>1. \A m \in Msgs : Where(m) = "out" BY <1>1, WhereIs DEF Init
  <2> QED BY <2>1 DEF Promise!Init
<1>2. ASSUME IInv, [Next]_vars PROVE Promise!Next
  <2>1. TypeInv /\ Conserved BY <1>2, StepKeeps DEF IInv, PlaceAndKept
  <2>2. \A m \in Msgs : Promise!Onward(Where(m), Where(m)') BY <2>1, WhereMoves
  <2>3. \A m \in Msgs : Where(m)' \in Promise!Places
    BY WhereIsNext DEF Promise!Places
  <2> QED BY <2>2, <2>3 DEF Promise!Next
<1>3. Init => Promise!Init BY <1>1
<1>4. IInv /\ [Next]_vars => [Promise!Next]_[m \in Msgs |-> Where(m)] BY <1>2
<1> QED BY <1>3, <1>4, SessionInvariant, PTL DEF Spec, Promised, Promise!Spec

-----------------------------------------------------------------------------
(* The question the user was asked. *)

\* What QuestionStands asks of the transcript a step leaves.
Stands(s, log) ==
  s.asked /\ Len(log) > Len(s.log) /\ Last(log).k = "answer"
  => Last(log).m \notin Held \/ Holds(s, Last(log).m)

LEMMA StandsSame == ASSUME NEW s \in Scalar PROVE Stands(s, s.log)
<1>1. Len(s.log) \in Nat BY ScalarFields
<1> QED BY <1>1 DEF Stands

LEMMA LastPut ==
  ASSUME NEW a \in Seq(Entry), NEW k \in Marks, NEW m \in SomeMsg
  PROVE  Last(Put(a, k, m)).k = k /\ Last(Put(a, k, m)).m = m
<1> DEFINE e == [k |-> k, m |-> m]
<1>1. e \in Entry BY DEF Entry
<1>2. Len(Append(a, e)) = Len(a) + 1 /\ Append(a, e)[Len(a) + 1] = e BY <1>1, Appended
<1> QED BY <1>2 DEF Put, Last

LEMMA StandsPut ==
  ASSUME NEW s \in Scalar, NEW k \in Marks, NEW m \in SomeMsg,
         k = "answer" => m \notin Held \/ Holds(s, m)
  PROVE  Stands(s, Put(s.log, k, m))
<1>1. Last(Put(s.log, k, m)).k = k /\ Last(Put(s.log, k, m)).m = m
  BY ScalarFields, LastPut
<1> QED BY <1>1 DEF Stands

\* Taken for the answer: not an envelope, unless it was held and is taken from there.
LEMMA StandsAccepted ==
  ASSUME NEW s \in Scalar, NEW u \in Scalar, NEW m \in Msgs,
         u.log = s.log, u.status = s.status, u.asked = s.asked, Hold(s, m) => Holds(s, m)
  PROVE  Stands(s, Accepted(u, m).log)
<1> DEFINE k == IF u.status = "waiting" /\ u.asked THEN "answer" ELSE "user"
<1>1. Accepted(u, m).log = Put(s.log, k, m)
  <2>1. Accepted(u, m) = [u EXCEPT !.status = "running", !.asked = FALSE,
                                   !.log = Put(u.log, k, m)]
    BY DEF Accepted
  <2> HIDE DEF k
  <2> QED BY <2>1 DEF Scalar
<1>2. k \in Marks /\ m \in SomeMsg BY DEF Marks, SomeMsg
<1>3. k = "answer" => m \notin Held \/ Holds(s, m) BY DEF Hold
<1> HIDE DEF k
<1> QED BY <1>1, <1>2, <1>3, StandsPut

\* What an input adds when a run is active is never the answer.
LEMMA StandsApplied ==
  ASSUME NEW s \in Scalar, IsInjective(s.queue), NEW i \in Input, i.k \in Naming => i.m \in Msgs
  PROVE  Stands(s, Applied(s, i).log)
<1> DEFINE m == i.m
           t == Applied(s, i)
<1>0. i.k \in Kinds BY DEF Input
<1>1. CASE i.k = "say" \/ i.k = "notice"
  <2>1. PICK k \in {"user", "notice"} : t = [s EXCEPT !.log = Put(@, k, m)]
    BY <1>1 DEF Applied, Steered
  <2>2. k \in Marks /\ m \in SomeMsg BY <1>1 DEF Marks, SomeMsg, Naming, Talk
  <2>3. t.log = Put(s.log, k, m) BY <2>1, <2>2, RecordType
  <2> QED BY <2>2, <2>3, StandsPut
<1>2. CASE i.k = "steer" /\ Holds(s, m)
  <2>1. t = [Steered(s, m) EXCEPT !.queue = Without(@, m)] BY <1>2 DEF Applied
  <2>2. "user" \in Marks /\ m \in SomeMsg BY <1>2 DEF Marks, SomeMsg, Naming
  <2>3. PICK u \in Scalar : /\ u = Steered(s, m) /\ u.queue = s.queue
                            /\ u.log = Put(s.log, "user", m)
    BY <2>2, RecordType DEF Steered
  <2>4. t.log = u.log
    <3>1. IsInjective(u.queue) BY <2>3
    <3> QED BY <2>1, <2>3, <3>1, TakenFields
  <2> QED BY <2>2, <2>3, <2>4, StandsPut
<1>3. CASE i.k \in {"goal", "resume", "cancel"} /\ t # s
  <2>1. PICK g \in Goals, k \in {"goal", "drive"} :
          t = [s EXCEPT !.goal = g, !.status = "running", !.log = Put(@, k, NoMsg)]
    BY <1>3 DEF Applied, Goals
  <2>2. k \in Marks /\ NoMsg \in SomeMsg BY DEF Marks, SomeMsg
  <2>3. t.log = Put(s.log, k, NoMsg) BY <2>1 DEF Scalar
  <2> QED BY <2>2, <2>3, StandsPut
<1>4. CASE i.k = "queue"
  <2>1. t = [s EXCEPT !.queue = Append(@, m)] BY <1>4 DEF Applied
  <2>2. t.log = s.log BY <2>1 DEF Scalar
  <2> QED BY <2>2, StandsSame
<1>5. CASE i.k \in {"unqueue", "drop"}
  <2>1. PICK q : t = [s EXCEPT !.queue = q] BY <1>5 DEF Applied
  <2>2. t.log = s.log BY <2>1 DEF Scalar
  <2> QED BY <2>2, StandsSame
<1>6. CASE t = s BY <1>6, StandsSame
<1>7. CASE i.k \in {"interrupt", "approve"} \/ (i.k = "steer" /\ ~ Holds(s, m))
  <2>1. t = s BY <1>7 DEF Applied
  <2> QED BY <2>1, StandsSame
<1> QED BY <1>0, <1>1, <1>2, <1>3, <1>4, <1>5, <1>6, <1>7 DEF Kinds

LEMMA StandsApplyPending == ASSUME IInv, ApplyPending PROVE Stands(mem.s, mem'.s.log)
<1> DEFINE i == Head(pend)
           s == mem.s
           m == i.m
           taken == [s EXCEPT !.queue = Without(@, m)]
           talks == \/ i.k = "say" /\ (loop.was \/ ~Hold(s, m))
                    \/ i.k = "steer" /\ Holds(s, m)
           after == IF i.k = "say" /\ ~talks THEN [s EXCEPT !.queue = Append(@, m)]
                    ELSE IF talks /\ ~loop.was THEN Accepted(taken, m) ELSE Applied(s, i)
<1>1. pend # <<>> /\ State(after) BY DEF ApplyPending
<1>2. s \in Scalar /\ IsInjective(s.queue) BY Outwards
<1>3. i \in Input /\ (i.k \in Naming => m \in Msgs) BY <1>1, HeadFacts
<1>4. mem'.s = after BY <1>1, TypeFacts DEF IInv, PlaceAndKept, State
<1>5. CASE i.k = "say" /\ ~ talks
  <2>1. after = [s EXCEPT !.queue = Append(@, m)] BY <1>5
  <2>2. after.log = s.log BY <1>2, <2>1 DEF Scalar
  <2> QED BY <1>2, <1>4, <2>2, StandsSame
<1>6. CASE talks /\ ~ loop.was
  <2>1. after = Accepted(taken, m) BY <1>6
  <2>2. m \in Msgs /\ (Hold(s, m) => Holds(s, m)) BY <1>3, <1>6 DEF Naming, Talk
  <2>3. taken \in Scalar /\ taken.log = s.log BY <1>2, TakenFields
  <2>4. taken.status = s.status /\ taken.asked = s.asked BY <1>2 DEF Scalar
  <2> HIDE DEF taken, after
  <2> QED BY <1>2, <1>4, <2>1, <2>2, <2>3, <2>4, StandsAccepted
<1>7. CASE ~ (i.k = "say" /\ ~ talks) /\ ~ (talks /\ ~ loop.was)
  <2>1. after = Applied(s, i) BY <1>7
  <2> HIDE DEF after
  <2> QED BY <1>2, <1>3, <1>4, <2>1, StandsApplied
<1> QED BY <1>5, <1>6, <1>7

LEMMA StandsParkInput == ASSUME IInv, ParkInput PROVE Stands(mem.s, mem'.s.log)
<1> DEFINE i == Head(chan)
           s == mem.s
           m == i.m
           taken == [s EXCEPT !.queue = Without(@, m)]
           t == CASE i.k = "say" /\ Hold(s, m) -> [s EXCEPT !.queue = Append(@, m)]
                  [] i.k = "say" /\ ~Hold(s, m) -> Accepted(s, m)
                  [] i.k = "steer" /\ Holds(s, m) -> Accepted(taken, m)
                  [] i.k = "interrupt" -> Halted(s)
                  [] OTHER -> Applied(s, i)
<1>1. chan # <<>> /\ State(t) BY DEF ParkInput
<1>2. s \in Scalar /\ IsInjective(s.queue) BY Outwards
<1>3. i \in Input /\ (i.k \in Naming => m \in Msgs) BY <1>1, HeadFacts
<1>4. mem'.s = t BY <1>1, TypeFacts DEF IInv, PlaceAndKept, State
<1>5. CASE i.k = "say" /\ Hold(s, m)
  <2>1. t = [s EXCEPT !.queue = Append(@, m)] BY <1>5
  <2>2. t.log = s.log BY <1>2, <2>1 DEF Scalar
  <2> QED BY <1>2, <1>4, <2>2, StandsSame
<1>6. CASE i.k = "say" /\ ~Hold(s, m)
  <2>1. t = Accepted(s, m) BY <1>6
  <2>2. m \in Msgs BY <1>3, <1>6 DEF Naming, Talk
  <2> HIDE DEF t
  <2> QED BY <1>2, <1>4, <1>6, <2>1, <2>2, StandsAccepted
<1>7. CASE i.k = "steer" /\ Holds(s, m)
  <2>1. t = Accepted(taken, m) BY <1>7
  <2>2. m \in Msgs BY <1>3, <1>7 DEF Naming
  <2>3. taken \in Scalar /\ taken.log = s.log BY <1>2, TakenFields
  <2>4. taken.status = s.status /\ taken.asked = s.asked BY <1>2 DEF Scalar
  <2> HIDE DEF taken, t
  <2> QED BY <1>2, <1>4, <1>7, <2>1, <2>2, <2>3, <2>4, StandsAccepted
<1>8. CASE i.k = "interrupt"
  <2>1. t = Halted(s) BY <1>8
  <2> HIDE DEF t
  <2> QED BY <1>2, <1>4, <2>1, HaltedType, StandsSame
<1>9. CASE i.k # "say" /\ ~ (i.k = "steer" /\ Holds(s, m)) /\ i.k # "interrupt"
  <2>1. t = Applied(s, i) BY <1>9
  <2> HIDE DEF t
  <2> QED BY <1>2, <1>3, <1>4, <2>1, StandsApplied
<1> QED BY <1>5, <1>6, <1>7, <1>8, <1>9

LEMMA StandsParkReport == ASSUME IInv, ParkReport PROVE Stands(mem.s, mem'.s.log)
<1> DEFINE r == Reported(mem.s, 1)
           x == IF r.status = "idle" THEN "running" ELSE r.status
<1>1. State([r EXCEPT !.status = x]) BY DEF ParkReport
<1>2. mem.s \in Scalar /\ mem.s.log \in Seq(Entry) BY Outwards, ScalarFields
<1> DEFINE e == [k |-> "report", m |-> NoMsg]
<1>3. "report" \in Marks /\ NoMsg \in SomeMsg BY DEF Marks, SomeMsg
<1>4. PICK a \in Seq(Entry) : a = mem.s.log BY <1>2
<1>5. a \o [i \in 1 .. 1 |-> e] = Append(a, e)
  <2>1. e \in Entry BY <1>3 DEF Entry
  <2> HIDE DEF e
  <2> QED BY <2>1
<1>6. r.log = Put(a, "report", NoMsg)
  <2>1. r.log = mem.s.log \o [i \in 1 .. 1 |-> e] BY <1>2 DEF Reported, Scalar
  <2> QED BY <1>4, <1>5, <2>1 DEF Put
<1>7. r \in Scalar /\ Turns(mem.s, r, {}, {}, {}) BY Outwards, ReportedTurns
<1> HIDE DEF r
<1>8. mem'.s.log = r.log
  <2>1. mem'.s = [r EXCEPT !.status = x]
    BY <1>1, TypeFacts DEF IInv, PlaceAndKept, State
  <2> HIDE DEF x
  <2> QED BY <1>7, <2>1 DEF Scalar
<1>9. Stands(mem.s, Put(mem.s.log, "report", NoMsg)) BY <1>2, <1>3, StandsPut
<1> QED BY <1>4, <1>6, <1>8, <1>9

LEMMA StandsDrive == ASSUME IInv, Drive PROVE Stands(mem.s, mem'.s.log)
<1>1. mem.s \in Scalar BY Outwards
<1>2. "drive" \in Marks /\ NoMsg \in SomeMsg BY DEF Marks, SomeMsg
<1>3. CASE State(Paused(mem.s))
  <2>1. mem'.s = Paused(mem.s) BY <1>3, TypeFacts DEF IInv, PlaceAndKept, State
  <2> QED BY <1>1, <2>1, PausedType, StandsSame
<1>4. CASE State([mem.s EXCEPT !.status = "running", !.log = Put(@, "drive", NoMsg)])
  <2>1. mem'.s = [mem.s EXCEPT !.status = "running", !.log = Put(@, "drive", NoMsg)]
    BY <1>4, TypeFacts DEF IInv, PlaceAndKept, State
  <2>2. mem'.s.log = Put(mem.s.log, "drive", NoMsg) BY <1>1, <2>1 DEF Scalar
  <2> QED BY <1>1, <1>2, <2>2, StandsPut
<1> QED BY <1>3, <1>4 DEF Drive

\* While the loop lives, an envelope does not take the place of the answer to the
\* question the user was asked, unless the user says so.
THEOREM QuestionsStand == Spec => QuestionStands
<1>1. ASSUME IInv, Next, loop.at \in {"park", "apply"} PROVE Stands(mem.s, mem'.s.log)
  <2>1. mem.s \in Scalar /\ Len(mem.s.log) \in Nat BY Outwards, <1>1, ScalarFields
  <2>2. CASE ApplyPending BY <1>1, <2>2, StandsApplyPending
  <2>3. CASE Applying
    <3>1. PICK x : State([mem.s EXCEPT !.status = x]) BY <2>3 DEF Applying
    <3>2. mem'.s = [mem.s EXCEPT !.status = x]
      BY <1>1, <3>1, TypeFacts DEF IInv, PlaceAndKept, State
    <3>3. mem'.s.log = mem.s.log BY <2>1, <3>2 DEF Scalar
    <3> QED BY <2>1, <3>3, StandsSame
  <2>4. CASE ParkInput BY <1>1, <2>4, StandsParkInput
  <2>5. CASE ParkReport BY <1>1, <2>5, StandsParkReport
  <2>6. CASE Drive BY <1>1, <2>6, StandsDrive
  <2>7. CASE Ends
    <3>1. mem'.s.log = <<>> BY <2>7 DEF Ends, Forget, Blank
    <3> QED BY <2>1, <3>1 DEF Stands
  <2>8. CASE Daemon
    <3>1. mem' = mem
      BY <2>8 DEF Daemon, Send, Control, Deliver, Notice, WriteNotice, Report
    <3> QED BY <2>1, <3>1, StandsSame
  <2>9. ~ (Load \/ SaveScalar \/ SaveMessages \/ SaveFails)
    BY <1>1 DEF Load, SaveScalar, SaveMessages, SaveFails
  <2>10. Work => ApplyPending \/ Applying \/ ParkInput \/ ParkReport \/ Drive
    BY <1>1
    DEF Work, Boot, Top, Flush, Ready, Branch, DrainInput, Drained, Call, Result, EndTurn,
        ModelError, Retry, StepInput, InStep, CancelInput, Cancelled, Rested
  <2> QED BY <1>1, <2>2, <2>3, <2>4, <2>5, <2>6, <2>7, <2>8, <2>9, <2>10, NextIs
<1>2. IInv /\ [Next]_vars =>
        [mem.s.asked /\ loop.at \in {"park", "apply"} /\ Len(mem'.s.log) > Len(mem.s.log)
           /\ Last(mem'.s.log).k = "answer"
         => \/ Last(mem'.s.log).m \notin Held
            \/ Holds(mem.s, Last(mem'.s.log).m)]_vars
  BY <1>1 DEF Stands
<1> QED BY <1>2, SessionInvariant, PTL DEF Spec, QuestionStands
==============================================================================

--------------------------- MODULE DeliveryProofs ---------------------------
(***************************************************************************)
(* Theorems about Delivery, for any number of mails, stops and attempts.   *)
(***************************************************************************)
EXTENDS Delivery, FiniteSetTheorems, TLAPS

LEMMA BoundsAreNats ==
  /\ MaxFaults \in Nat /\ MaxAttempts \in Nat /\ MaxSends \in Nat
  /\ IsFiniteSet(Mails) /\ NoMail \notin Mails /\ Agents \subseteq Mails
  BY DeliveryBounds, DeliveryMails, DeliveryAgents

(***************************************************************************)
(* Types.  A mail in hand is a mail, and is no longer in the batch.        *)
(***************************************************************************)
InHand == /\ loop.at # "list" => loop.on \in Mails \ loop.batch
TypeInv == TypeOK /\ InHand

LoopOK == /\ loop \in Turn /\ (loop.at = "list" <=> loop.on = NoMail) /\ InHand

LEMMA ThreadSize == TypeOK => IsFiniteSet(Thread) /\ Cardinality(Thread) \in Nat
<1>1. Thread \subseteq Mails BY DEF Thread
<1>2. IsFiniteSet(Thread) BY <1>1, FS_Subset, BoundsAreNats
<1> QED BY <1>2, FS_CardinalityType

LEMMA OldestListed == \A S : Oldest(S) \subseteq S
  BY DEF Oldest

LEMMA TakeLoop ==
  ASSUME NEW S \in SUBSET Mails, Take(S)
  PROVE  LoopOK'
<1>1. CASE S = {} /\ loop' = Rest
  BY <1>1 DEF Rest, Turn, LoopOK, InHand
<1>2. CASE \E m \in S : loop' = [at |-> "hand", on |-> m, batch |-> S \ {m}]
  BY <1>2, BoundsAreNats DEF Turn, LoopOK, InHand
<1> QED BY <1>1, <1>2 DEF Take

LEMMA GoLoop ==
  ASSUME TypeInv, loop.at # "list", NEW at \in {"mark", "fail"}, Go(at)
  PROVE  LoopOK'
  BY BoundsAreNats DEF TypeInv, TypeOK, InHand, LoopOK, Turn, Go

LEMMA SetRowType ==
  ASSUME TypeInv, loop.at # "list", NEW r \in Rows, SetRow(r)
  PROVE  row' \in [Mails -> Rows]
  BY DEF TypeInv, TypeOK, InHand, SetRow

LEMMA NotedType == TypeInv /\ loop.at # "list" => Noted \in Rows
  BY DEF TypeInv, TypeOK, InHand, Noted

LEMMA PlaceType ==
  ASSUME TypeOK, NEW c \in Copies, NEW p \in Session!Places,
         place' = [place EXCEPT ![c] = p]
  PROVE  Session!TypeOK'
  BY DEF TypeOK, Session!TypeOK

LEMMA CopyOf ==
  ASSUME NEW m \in Mails, NEW n \in 1 .. MaxFaults + 2 PROVE <<m, n>> \in Copies
  BY DEF Copies

LEMMA MadeSize ==
  ASSUME NEW m \in Mails
  PROVE  /\ Made(m) \subseteq 1 .. MaxFaults + 2 /\ IsFiniteSet(Made(m))
         /\ Cardinality(Made(m)) \in Nat
<1>1. Made(m) \subseteq 1 .. MaxFaults + 2 BY DEF Made
<1>2. IsFiniteSet(1 .. MaxFaults + 2) BY FS_Interval, BoundsAreNats
<1>3. IsFiniteSet(Made(m)) BY <1>1, <1>2, FS_Subset
<1> QED BY <1>1, <1>3, FS_CardinalityType

LEMMA EnterType ==
  ASSUME TypeOK, NEW m \in Mails, Enter(m)
  PROVE  Session!TypeOK'
<1> DEFINE n == Cardinality(Made(m)) + 1
<1>1. n \in 1 .. MaxFaults + 2 BY MadeSize, BoundsAreNats DEF Enter
<1>2. place' = [place EXCEPT ![<<m, n>>] = "inside"] BY DEF Enter
<1>3. "inside" \in Session!Places BY DEF Session!Places
<1> QED BY <1>1, <1>2, <1>3, CopyOf, PlaceType

LEMMA InitTypes == Init => TypeInv
<1> SUFFICES ASSUME Init PROVE TypeInv
  OBVIOUS
<1>1. Session!TypeOK BY DEF Init, Session!Init, Session!TypeOK, Session!Places
<1>2. LoopOK BY DEF Init, Rest, LoopOK, InHand, Turn
<1> QED BY <1>1, <1>2 DEF Init, TypeInv, TypeOK, LoopOK, Quiet, Calls, Events, Rows

LEMMA NextTypes == TypeInv /\ [Next]_vars => TypeInv'
<1> SUFFICES ASSUME TypeInv, [Next]_vars PROVE TypeInv'
  OBVIOUS
<1>t. TypeOK /\ InHand /\ LoopOK BY DEF TypeInv, TypeOK, LoopOK
<1>1. CASE List
  <2>1. LoopOK' BY <1>1, OldestListed, TakeLoop DEF List
  <2> QED BY <1>1, <1>t, <2>1 DEF List, TypeInv, TypeOK, LoopOK, Session!TypeOK
<1>2. CASE HandOver
  <2>1. loop.on \in Mails BY <1>2, <1>t DEF HandOver, InHand
  <2>2. LoopOK' BY <1>2, GoLoop DEF HandOver
  <2>3. Session!TypeOK' BY <1>2, <1>t, <2>1, EnterType DEF HandOver, TypeOK, Session!TypeOK
  <2>4. nobody' \subseteq Mails \ Agents BY <1>2, <1>t, <2>1 DEF HandOver, TypeOK
  <2> QED BY <1>2, <1>t, <2>2, <2>3, <2>4 DEF HandOver, TypeInv, TypeOK, LoopOK
<1>3. CASE Mark
  <2>1. LoopOK' BY <1>3, <1>t, TakeLoop DEF Mark, TypeOK, Turn
  <2>2. row' \in [Mails -> Rows]
    <3>1. [Noted EXCEPT !.st = "done"] \in Rows BY <1>3, NotedType DEF Mark, Rows
    <3> QED BY <1>3, <1>t, <3>1, SetRowType DEF Mark, TypeOK
  <2>3. used' \in [faults : Nat, sends : Nat, pauses : Nat] BY <1>3, <1>t DEF Mark, TypeOK
  <2> QED BY <1>3, <1>t, <2>1, <2>2, <2>3 DEF Mark, TypeInv, TypeOK, LoopOK, Session!TypeOK
<1>4. CASE Fail
  <2>1. LoopOK' BY <1>4, <1>t, TakeLoop DEF Fail, TypeOK, Turn
  <2>2. row' \in [Mails -> Rows]
    <3>1. [st |-> IF Noted.st = "none" THEN "open" ELSE Noted.st,
           attempts |-> Noted.attempts + 1, wait |-> TRUE] \in Rows
      BY <1>4, NotedType DEF Fail, Rows
    <3> QED BY <1>4, <3>1, SetRowType DEF Fail
  <2> QED BY <1>4, <1>t, <2>1, <2>2 DEF Fail, TypeInv, TypeOK, LoopOK, Session!TypeOK
<1>5. CASE Stop
  <2>1. Session!TypeOK' BY <1>5, <1>t DEF Stop, TypeOK, Session!TypeOK, Session!Places
  <2>2. send' \in [Mails -> Calls] BY <1>5, <1>t DEF Stop, TypeOK, Quiet, Calls
  <2>3. LoopOK' BY <1>5 DEF Stop, Rest, LoopOK, InHand, Turn
  <2> QED BY <1>5, <1>t, <2>1, <2>2, <2>3 DEF Stop, TypeInv, TypeOK, LoopOK
<1>6. ASSUME NEW m \in Mails, Prepare(m) PROVE TypeInv'
  <2>1. send' \in [Mails -> Calls] /\ used' \in [faults : Nat, sends : Nat, pauses : Nat]
    BY <1>6, <1>t DEF Prepare, TypeOK, Calls
  <2> QED BY <1>6, <1>t, <2>1 DEF Prepare, sessions, TypeInv, TypeOK, InHand, Session!TypeOK
<1>7. ASSUME NEW m \in Mails, AppendEvent(m) PROVE TypeInv'
  <2>1. send' \in [Mails -> Calls] BY <1>7, <1>t DEF AppendEvent, TypeOK, Calls
  <2>2. event' \in [Mails -> Events]
    BY <1>7, <1>t, ThreadSize DEF AppendEvent, Number, TypeOK, Calls, Events
  <2> QED BY <1>7, <1>t, <2>1, <2>2 DEF AppendEvent, sessions, TypeInv, TypeOK, InHand, Session!TypeOK
<1>8. ASSUME NEW m \in Mails, AddRow(m) PROVE TypeInv'
  <2>1. send' \in [Mails -> Calls] BY <1>8, <1>t DEF AddRow, TypeOK, Calls, Quiet
  <2>2. row' \in [Mails -> Rows] BY <1>8, <1>t DEF AddRow, TypeOK, Rows
  <2> QED BY <1>8, <1>t, <2>1, <2>2 DEF AddRow, sessions, TypeInv, TypeOK, InHand, Session!TypeOK
<1>9. ASSUME NEW m \in Mails, Elapse(m) PROVE TypeInv'
  <2>1. row' \in [Mails -> Rows] BY <1>9, <1>t DEF Elapse, TypeOK, Rows
  <2> QED BY <1>9, <1>t, <2>1 DEF Elapse, TypeInv, TypeOK, InHand, Session!TypeOK
<1>10. ASSUME NEW m \in Mails, Pause(m) PROVE TypeInv'
  <2>1. paused' \subseteq Agents /\ used' \in [faults : Nat, sends : Nat, pauses : Nat]
    BY <1>10, <1>t DEF Pause, TypeOK
  <2> QED BY <1>10, <1>t, <2>1 DEF Pause, TypeInv, TypeOK, InHand, Session!TypeOK
<1>11. ASSUME NEW c \in Copies, Record(c) PROVE TypeInv'
  <2>1. Session!TypeOK' BY <1>11, <1>t, PlaceType DEF Record, Session!Places
  <2> QED BY <1>11, <1>t, <2>1 DEF Record, TypeInv, TypeOK, InHand
<1>12. CASE UNCHANGED vars
  BY <1>12, <1>t DEF vars, TypeInv, TypeOK, InHand, Session!TypeOK
<1> QED BY <1>1, <1>2, <1>3, <1>4, <1>5, <1>6, <1>7, <1>8, <1>9, <1>10, <1>11, <1>12
        DEF Next, LoopStep

\* Every reachable state is well typed; the loop holds one mail, taken out of its batch.
THEOREM DeliveryTyping == Spec => []TypeInv
  BY InitTypes, NextTypes, PTL DEF Spec

\* Every reachable state satisfies the type invariant the runs check.
THEOREM DeliveryTypes == Spec => []TypeOK
  BY DeliveryTyping, PTL DEF TypeInv

-----------------------------------------------------------------------------
(***************************************************************************)
(* Copies.  A hand-over makes one copy, the next; nothing else makes or    *)
(* unmakes one.                                                            *)
(***************************************************************************)
Copied(m) == Cardinality(Made(m))
InOrder == \A m \in Mails : Made(m) = 1 .. Copied(m)

LEMMA SizeOf ==
  ASSUME NEW k \in Nat PROVE Cardinality(1 .. k) = k
  BY FS_Interval

LEMMA EnterOne ==
  ASSUME TypeInv, InOrder, NEW m \in Mails, Enter(m)
  PROVE  /\ Made(m)' = 1 .. Copied(m) + 1 /\ Copied(m)' = Copied(m) + 1
         /\ \A k \in Mails \ {m} : Made(k)' = Made(k) /\ Copied(k)' = Copied(k)
<1> DEFINE n == Copied(m) + 1
<1>1. n \in 1 .. MaxFaults + 2 /\ Copied(m) \in Nat
  BY MadeSize, BoundsAreNats DEF Enter, Copied
<1>2. place' = [place EXCEPT ![<<m, n>>] = "inside"] BY DEF Enter, Copied
<1>3. place \in [Copies -> Session!Places] BY DEF TypeInv, TypeOK, Session!TypeOK
<1>4. Made(m)' = Made(m) \cup {n}
  BY <1>1, <1>2, <1>3, CopyOf DEF Made
<1>5. Made(m)' = 1 .. n BY <1>4, <1>1 DEF InOrder
<1>6. Copied(m)' = n BY <1>5, <1>1, SizeOf DEF Copied
<1>7. ASSUME NEW k \in Mails \ {m} PROVE Made(k)' = Made(k) /\ Copied(k)' = Copied(k)
  BY <1>2, <1>3, CopyOf DEF Made, Copied
<1> QED BY <1>5, <1>6, <1>7

LEMMA SameMade ==
  ASSUME \A c \in Copies : place'[c] # "out" <=> place[c] # "out"
  PROVE  \A m \in Mails : Made(m)' = Made(m) /\ Copied(m)' = Copied(m)
  BY CopyOf DEF Made, Copied

LEMMA SamePlace ==
  UNCHANGED place => \A m \in Mails : Made(m)' = Made(m) /\ Copied(m)' = Copied(m)
  BY DEF Made, Copied

(***************************************************************************)
(* A mail in hand or listed has not been marked, one about to be marked    *)
(* has been handed over, and every copy but the last was followed by a     *)
(* fault.                                                                  *)
(***************************************************************************)
Open(m) == row[m].st # "done"
Unmarked == loop.at # "list" => \A m \in loop.batch \cup {loop.on} : Open(m)
Handed(m) == Made(m) # {} \/ m \in nobody
Honest == /\ MarkedWasHanded
          /\ loop.at = "mark" => Handed(loop.on)
Over(m) == ~Open(m) \/ (loop.at = "mark" /\ loop.on = m)
Counted == \A m \in Mails : Copied(m) <= used.faults + (IF Over(m) THEN 1 ELSE 0)
Inv == TypeInv /\ InOrder /\ Unmarked /\ Honest /\ Counted

LEMMA InitInv == Init => Inv
<1> SUFFICES ASSUME Init PROVE Inv
  OBVIOUS
<1>1. TypeInv BY InitTypes
<1>2. \A m \in Mails : Made(m) = {} /\ Copied(m) = 0
  BY CopyOf, FS_EmptySet DEF Init, Session!Init, Made, Copied
<1>3. InOrder BY <1>2 DEF InOrder
<1>4. Unmarked /\ Honest BY DEF Init, Rest, Unmarked, Honest, MarkedWasHanded
<1>5. Counted BY <1>2 DEF Init, Counted
<1> QED BY <1>1, <1>3, <1>4, <1>5 DEF Inv

LEMMA TakeOpen ==
  ASSUME NEW S, Take(S)
  PROVE  /\ loop'.at \in {"list", "hand"}
         /\ loop'.at = "hand" => loop'.batch \cup {loop'.on} \subseteq S
  BY DEF Take, Rest

LEMMA ListKeeps == Inv /\ List => Inv'
<1> SUFFICES ASSUME Inv, List PROVE Inv'
  OBVIOUS
<1> DEFINE due == {m \in Mails : Due(m)}
<1>t. TypeInv' BY NextTypes DEF Inv, Next, LoopStep
<1>1. Take(Oldest(due)) /\ UNCHANGED <<row, place, nobody, used>> BY DEF List
<1>2. Oldest(due) \subseteq due BY OldestListed
<1>3. loop.at = "list" /\ loop'.at \in {"list", "hand"} BY <1>1, TakeOpen DEF List
<1>4. Unmarked'
  <2>1. \A m \in due : row[m].st # "done" BY DEF Due, Tries
  <2>2. \A m \in due : Open(m)' BY <2>1, <1>1 DEF Open
  <2> QED BY <2>2, <1>1, <1>2, <1>3, TakeOpen DEF Unmarked
<1>5. \A m \in Mails : Made(m)' = Made(m) /\ Copied(m)' = Copied(m) BY <1>1, SamePlace
<1>6. InOrder' BY <1>5 DEF Inv, InOrder
<1>7. Honest' BY <1>1, <1>3, <1>5 DEF Inv, Honest, MarkedWasHanded
<1>8. Counted'
  <2>1. \A m \in Mails : Over(m)' <=> Over(m) BY <1>1, <1>3 DEF Over, Open
  <2> QED BY <1>1, <1>5, <2>1 DEF Inv, Counted
<1> QED BY <1>t, <1>4, <1>6, <1>7, <1>8 DEF Inv

LEMMA HandOverKeeps == Inv /\ HandOver => Inv'
<1> SUFFICES ASSUME Inv, HandOver PROVE Inv'
  OBVIOUS
<1>t. TypeInv' BY NextTypes DEF Inv, Next, LoopStep
<1>0. PICK m \in Mails : m = loop.on BY DEF Inv, TypeInv, InHand, HandOver
<1>1. loop.at = "hand" /\ Open(m)
  BY <1>0 DEF Inv, TypeInv, InHand, HandOver, Unmarked
<1>2. UNCHANGED <<row, used>> /\ loop'.on = m /\ loop'.batch = loop.batch
      /\ loop'.at \in {"mark", "fail"}
  BY <1>0 DEF HandOver, Go, Inv, TypeInv, TypeOK, Turn
<1>3. Unmarked' BY <1>0, <1>1, <1>2 DEF Inv, Unmarked, Open
<1>4. Copied(m) <= used.faults
  BY <1>0, <1>1, MadeSize DEF Inv, Counted, Over, Copied, TypeInv, TypeOK
<1>5. \A k \in Mails \ {m} : Over(k)' <=> Over(k) BY <1>0, <1>1, <1>2 DEF Over, Open
<1>6. CASE Enter(m) /\ Go("mark") /\ UNCHANGED nobody
  <2>1. /\ Made(m)' = 1 .. Copied(m) + 1 /\ Copied(m)' = Copied(m) + 1
        /\ \A k \in Mails \ {m} : Made(k)' = Made(k) /\ Copied(k)' = Copied(k)
    BY <1>1, <1>6, EnterOne DEF Inv
  <2>2. Copied(m) \in Nat BY <1>1, MadeSize DEF Copied
  <2>3. InOrder' BY <2>1 DEF Inv, InOrder
  <2>4. Made(m)' # {}
    <3>1. 1 \in 1 .. Copied(m) + 1 BY <2>2
    <3> QED BY <2>1, <3>1
  <2>5. Honest' BY <1>1, <1>2, <1>6, <2>1, <2>4 DEF Inv, Honest, MarkedWasHanded, Handed
  <2>6. Over(m)' BY <1>2, <1>6 DEF Over, Go, Inv, TypeInv, TypeOK, Turn
  <2>7. Counted' BY <1>1, <1>2, <1>4, <1>5, <2>1, <2>2, <2>6 DEF Inv, Counted, TypeInv, TypeOK
  <2> QED BY <1>t, <1>3, <2>3, <2>5, <2>7 DEF Inv
<1>7. CASE /\ UNCHANGED place
           /\ \/ nobody' = nobody \cup {m} /\ Go("mark")
              \/ Go("fail") /\ UNCHANGED nobody
  <2>1. \A k \in Mails : Made(k)' = Made(k) /\ Copied(k)' = Copied(k) BY <1>7, SamePlace
  <2>2. InOrder' BY <2>1 DEF Inv, InOrder
  <2>3. nobody \subseteq nobody' /\ (loop'.at = "mark" => m \in nobody')
    BY <1>7, <1>0, <1>1 DEF Go, Inv, TypeInv, TypeOK, Turn
  <2>4. Honest' BY <1>2, <2>1, <2>3 DEF Inv, Honest, MarkedWasHanded, Handed
  <2>5. Counted'
    <3>1. \A k \in Mails : Copied(k) <= used.faults + (IF Over(k)' THEN 1 ELSE 0)
      BY <1>4, <1>5, MadeSize DEF Inv, Counted, Copied, TypeInv, TypeOK
    <3> QED BY <3>1, <1>2, <2>1 DEF Counted
  <2> QED BY <1>t, <1>3, <2>2, <2>4, <2>5 DEF Inv
<1> QED BY <1>0, <1>6, <1>7 DEF HandOver

LEMMA MarkKeeps == Inv /\ Mark => Inv'
<1> SUFFICES ASSUME Inv, Mark PROVE Inv'
  OBVIOUS
<1>t. TypeInv' BY NextTypes DEF Inv, Next, LoopStep
<1>0. PICK m \in Mails : m = loop.on BY DEF Inv, TypeInv, InHand, Mark
<1>1. m \notin loop.batch /\ loop.at = "mark" BY <1>0 DEF Inv, TypeInv, InHand, Mark
<1>2. Take(loop.batch) /\ UNCHANGED <<place, nobody>> BY DEF Mark
<1>3. \A k \in Mails : Made(k)' = Made(k) /\ Copied(k)' = Copied(k) BY <1>2, SamePlace
<1>4. InOrder' BY <1>3 DEF Inv, InOrder
<1>5. \A k \in Mails \ {m} : row'[k] = row[k]
  <2>1. row \in [Mails -> Rows] BY DEF Inv, TypeInv, TypeOK
  <2>2. SetRow([Noted EXCEPT !.st = "done"]) \/ UNCHANGED row BY DEF Mark
  <2> QED BY <1>0, <2>1, <2>2 DEF SetRow
<1>6. loop'.at # "mark" BY <1>2, TakeOpen
<1>7. Unmarked'
  <2>1. loop.batch \subseteq Mails BY DEF Inv, TypeInv, TypeOK, Turn
  <2>2. \A k \in loop.batch : Open(k)' BY <1>0, <1>1, <1>5, <2>1 DEF Inv, Unmarked, Open
  <2> QED BY <1>2, <2>2, TakeOpen DEF Unmarked
<1>8. Honest'
  BY <1>0, <1>1, <1>2, <1>3, <1>5, <1>6 DEF Inv, Honest, MarkedWasHanded, Handed
<1>9. Counted'
  <2>1. \A k \in Mails \ {m} : Over(k)' <=> Over(k) BY <1>0, <1>1, <1>5, <1>6 DEF Over, Open
  <2>2. used.faults \in Nat /\ used'.faults >= used.faults
    BY DEF Mark, Inv, TypeInv, TypeOK
  <2>3. Over(m)' \/ used'.faults = used.faults + 1
    BY <1>0, <1>1 DEF Mark, SetRow, Noted, Over, Open, Inv, TypeInv, TypeOK, Rows
  <2>4. \A k \in Mails : Copied(k) \in Nat BY MadeSize DEF Copied
  <2>5. Copied(m) <= used.faults + 1 BY <1>0, <1>1, <2>2, <2>4 DEF Inv, Counted
  <2>n. used'.faults \in Nat BY <1>t DEF TypeInv, TypeOK
  <2>6. Copied(m) <= used'.faults + (IF Over(m)' THEN 1 ELSE 0)
    <3>1. CASE Over(m)' BY <3>1, <2>n, <2>2, <2>4, <2>5
    <3>2. CASE ~Over(m)' BY <3>2, <2>3, <2>n, <2>2, <2>4, <2>5
    <3> QED BY <3>1, <3>2
  <2>7. ASSUME NEW k \in Mails \ {m}
        PROVE  Copied(k) <= used'.faults + (IF Over(k)' THEN 1 ELSE 0)
    <3>1. Copied(k) <= used.faults + (IF Over(k) THEN 1 ELSE 0) BY DEF Inv, Counted
    <3>2. used'.faults \in Nat BY <1>t DEF TypeInv, TypeOK
    <3> QED BY <2>1, <2>2, <2>4, <3>1, <3>2
  <2> QED BY <1>3, <2>6, <2>7 DEF Counted
<1> QED BY <1>t, <1>4, <1>7, <1>8, <1>9 DEF Inv

LEMMA FailKeeps == Inv /\ Fail => Inv'
<1> SUFFICES ASSUME Inv, Fail PROVE Inv'
  OBVIOUS
<1>t. TypeInv' BY NextTypes DEF Inv, Next, LoopStep
<1>0. PICK m \in Mails : m = loop.on BY DEF Inv, TypeInv, InHand, Fail
<1>1. m \notin loop.batch /\ loop.at = "fail" /\ Open(m)
  BY <1>0 DEF Inv, TypeInv, InHand, Fail, Unmarked
<1>2. Take(loop.batch) /\ UNCHANGED <<place, nobody, used>> BY DEF Fail
<1>3. \A k \in Mails : Made(k)' = Made(k) /\ Copied(k)' = Copied(k) BY <1>2, SamePlace
<1>4. InOrder' BY <1>3 DEF Inv, InOrder
<1>5. \A k \in Mails : Open(k)' <=> Open(k)
  BY <1>0, <1>1 DEF Fail, SetRow, Noted, Open, Inv, TypeInv, TypeOK
<1>6. loop'.at # "mark" BY <1>2, TakeOpen
<1>7. Unmarked'
  <2>1. loop.batch \subseteq Mails BY DEF Inv, TypeInv, TypeOK, Turn
  <2>2. \A k \in loop.batch : Open(k)' BY <1>0, <1>1, <1>5, <2>1 DEF Inv, Unmarked
  <2> QED BY <1>2, <2>2, TakeOpen DEF Unmarked
<1>8. Honest' BY <1>2, <1>3, <1>5, <1>6 DEF Inv, Honest, MarkedWasHanded, Open
<1>9. \A k \in Mails : Over(k)' <=> Over(k) BY <1>0, <1>1, <1>5, <1>6 DEF Over
<1>10. Counted' BY <1>2, <1>3, <1>9 DEF Inv, Counted
<1> QED BY <1>t, <1>4, <1>7, <1>8, <1>10 DEF Inv

LEMMA StopKeeps == Inv /\ Stop => Inv'
<1> SUFFICES ASSUME Inv, Stop PROVE Inv'
  OBVIOUS
<1>t. TypeInv' BY NextTypes DEF Inv, Next
<1>1. UNCHANGED <<row, nobody>> /\ loop' = Rest BY DEF Stop
<1>2. \A c \in Copies : place'[c] # "out" <=> place[c] # "out" BY DEF Stop
<1>3. \A k \in Mails : Made(k)' = Made(k) /\ Copied(k)' = Copied(k) BY <1>2, SameMade
<1>4. InOrder' BY <1>3 DEF Inv, InOrder
<1>5. Unmarked' BY <1>1 DEF Rest, Unmarked
<1>6. Honest' BY <1>1, <1>3 DEF Inv, Honest, MarkedWasHanded, Rest
<1>7. Counted'
  <2>1. used.faults \in Nat /\ used'.faults = used.faults + 1
    BY DEF Stop, Inv, TypeInv, TypeOK
  <2>2. \A k \in Mails : Copied(k) \in Nat BY MadeSize DEF Copied
  <2>3. \A k \in Mails : Copied(k) <= used.faults + 1 BY <2>1, <2>2 DEF Inv, Counted
  <2> QED BY <1>3, <2>1, <2>2, <2>3 DEF Counted
<1> QED BY <1>t, <1>4, <1>5, <1>6, <1>7 DEF Inv

\* A step that leaves the loop alone, closes no row and makes no copy.
LEMMA ApartKeeps ==
  ASSUME Inv, TypeInv', UNCHANGED <<loop, nobody>>, used'.faults = used.faults,
         \A m \in Mails : Open(m)' <=> Open(m),
         \A c \in Copies : place'[c] # "out" <=> place[c] # "out"
  PROVE  Inv'
<1>1. \A k \in Mails : Made(k)' = Made(k) /\ Copied(k)' = Copied(k) BY SameMade
<1>2. InOrder' BY <1>1 DEF Inv, InOrder
<1>3. loop.at # "list" => loop.batch \cup {loop.on} \subseteq Mails
  BY DEF Inv, TypeInv, TypeOK, InHand, Turn
<1>4. Unmarked' BY <1>3 DEF Inv, Unmarked
<1>5. Honest' BY <1>1, <1>3 DEF Inv, Honest, MarkedWasHanded, Handed, Open
<1>6. Counted' BY <1>1 DEF Inv, Counted, Over
<1> QED BY <1>2, <1>4, <1>5, <1>6 DEF Inv

LEMMA NextInv == Inv /\ [Next]_vars => Inv'
<1> SUFFICES ASSUME Inv, [Next]_vars PROVE Inv'
  OBVIOUS
<1>t. TypeInv' /\ TypeOK BY NextTypes DEF Inv, TypeInv
<1>1. ASSUME NEW m \in Mails, Prepare(m) \/ AppendEvent(m) \/ Pause(m) PROVE Inv'
  <2>1. UNCHANGED <<loop, nobody, row, place>> /\ used'.faults = used.faults
    BY <1>1, <1>t DEF Prepare, AppendEvent, Pause, sessions, TypeOK
  <2> QED BY <1>t, <2>1, ApartKeeps DEF Open
<1>2. ASSUME NEW m \in Mails, AddRow(m) \/ Elapse(m) PROVE Inv'
  <2>1. UNCHANGED <<loop, nobody, place, used>> BY <1>2 DEF AddRow, Elapse, sessions
  <2>2. \A k \in Mails : Open(k)' <=> Open(k)
    BY <1>2, <1>t, SMTT(40) DEF AddRow, Elapse, TypeOK, Rows, Open
  <2> QED BY <1>t, <2>1, <2>2, ApartKeeps
<1>3. ASSUME NEW c \in Copies, Record(c) PROVE Inv'
  <2>1. UNCHANGED <<loop, nobody, row, used>> BY <1>3 DEF Record
  <2>2. \A k \in Copies : place'[k] # "out" <=> place[k] # "out"
    BY <1>3, <1>t DEF Record, TypeOK, Session!TypeOK
  <2> QED BY <1>t, <2>1, <2>2, ApartKeeps DEF Open
<1>4. CASE UNCHANGED vars BY <1>4, <1>t, ApartKeeps DEF vars, Open
<1> QED BY <1>1, <1>2, <1>3, <1>4, ListKeeps, HandOverKeeps, MarkKeeps, FailKeeps, StopKeeps
        DEF Next, LoopStep

THEOREM DeliverySafety == Spec => []Inv
  BY InitInv, NextInv, PTL DEF Spec

\* No stop, failure or overlapping sender leaves a message marked delivered that
\* was never handed over.
THEOREM MarksAreHonest == Spec => []MarkedWasHanded
  BY DeliverySafety, PTL DEF Inv, Honest

\* A message is handed over once, and again only after a stop or a refused mark.
THEOREM AgainAfterFaults == Spec => []AgainOnlyAfterFault
<1>1. Inv => AgainOnlyAfterFault
  <2> SUFFICES ASSUME Inv, NEW m \in Mails PROVE Cardinality(Made(m)) <= 1 + used.faults
    BY DEF AgainOnlyAfterFault
  <2>1. Copied(m) \in Nat /\ used.faults \in Nat
    BY MadeSize DEF Copied, Inv, TypeInv, TypeOK
  <2> QED BY <2>1 DEF Inv, Counted, Copied
<1> QED BY <1>1, DeliverySafety, PTL

\* However often calls are repeated and whatever senders overlap, a key has one
\* event, and the events are numbered without a gap.
THEOREM OneEventEachKey == Spec => []OneEventPerKey
<1>1. Init => OneEventPerKey
  <2> SUFFICES ASSUME Init PROVE OneEventPerKey
    OBVIOUS
  <2>1. Thread = {} BY DEF Init, Thread, Sent
  <2>2. Cardinality(Thread) = 0 BY <2>1, FS_EmptySet
  <2> QED BY <2>1, <2>2 DEF OneEventPerKey
<1>2. TypeOK /\ TypeOK' /\ OneEventPerKey /\ [Next]_vars => OneEventPerKey'
  <2> SUFFICES ASSUME TypeOK, OneEventPerKey, [Next]_vars PROVE OneEventPerKey'
    OBVIOUS
  <2>1. CASE UNCHANGED event BY <2>1 DEF OneEventPerKey, Thread, Sent
  <2>2. ASSUME NEW m \in Mails, AppendEvent(m), ~Sent(m) PROVE OneEventPerKey'
    <3> DEFINE n == Cardinality(Thread)
    <3>1. n \in Nat /\ IsFiniteSet(Thread) BY ThreadSize
    <3>2. /\ event'[m].seq = n + 1
          /\ \A k \in Mails \ {m} : event'[k] = event[k]
      BY <2>2 DEF AppendEvent, Number, TypeOK, Events
    <3>3. Thread' = Thread \cup {m} /\ m \notin Thread
      BY <2>2, <3>1, <3>2 DEF Thread, Sent
    <3>4. Cardinality(Thread)' = n + 1 BY <3>1, <3>3, FS_AddElement
    <3>5. \A k \in Thread : event'[k].seq = event[k].seq BY <3>2, <3>3 DEF Thread
    <3>6. {event'[k].seq : k \in Thread'} = {event[k].seq : k \in Thread} \cup {n + 1}
      BY <3>2, <3>3, <3>5
    <3>7. 1 .. n + 1 = (1 .. n) \cup {n + 1} BY <3>1
    <3> QED BY <3>4, <3>6, <3>7 DEF OneEventPerKey
  <2>3. UNCHANGED event \/ \E m \in Mails : AppendEvent(m) /\ ~Sent(m)
    BY DEF Next, vars, LoopStep, Prepare, AppendEvent, AddRow, Elapse, Pause, List,
           HandOver, Mark, Fail, Record, Stop, sessions
  <2> QED BY <2>1, <2>2, <2>3
<1> QED BY <1>1, <1>2, DeliveryTypes, PTL DEF Spec
=============================================================================

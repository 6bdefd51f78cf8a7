--------------------------- MODULE RecurringProofs ---------------------------
(***************************************************************************)
(* Theorems about Recurring, for any jobs, periods and number of requests, *)
(* stops and failures.                                                     *)
(***************************************************************************)
EXTENDS Recurring, TLAPS

LEMMA Bounds == MaxTime \in Nat \ {0} /\ MaxEvents \in Nat
  BY RecurringBounds

(***************************************************************************)
(* Types.                                                                  *)
(***************************************************************************)
LEMMA ChangedType ==
  ASSUME NEW kind, NEW j \in Jobs, NEW r \in Rows, now \in Times
  PROVE  Changed(kind, j, r) \in Rows
<1>1. now + 1 \in Nat /\ NextAfter(j) \in Nat
  BY Bounds DEF Times, NextAfter, OwnTime
<1> QED BY <1>1 DEF Changed, Fired, Rows

LEMMA MarkingType ==
  ASSUME TypeOK, NEW j \in Jobs, NEW kind \in Marks \cup {"record"}, Marking(kind, j)
  PROVE  /\ mark' \in [kind : Marks \cup {"none", "record"}, job : Jobs \cup {"none"},
                       date : Times, row : Rows]
         /\ mark'.kind = kind /\ mark'.job = j
<1>1. Changed(kind, j, row[j]) \in Rows BY ChangedType DEF TypeOK
<1> QED BY <1>1 DEF Marking, TypeOK, Marks

LEMMA InitTypes == Init => TypeOK
<1> SUFFICES ASSUME Init PROVE TypeOK
  OBVIOUS
<1>1. Blank \in Rows BY DEF Blank, Rows
<1>2. 0 \in Times /\ 1 \in Times BY Bounds DEF Times
<1>3. date \in [Jobs -> Times] /\ again \in [Jobs -> Nat] /\ fired \in [Jobs -> [Times -> Nat]]
  BY <1>2 DEF Init
<1>4. inbox \in Seq(Jobs) BY DEF Init
<1> QED BY <1>1, <1>2, <1>3, <1>4 DEF Init, TypeOK, NoEdit, NoMark, Occupants

\* What a step makes of the rows and of the updates under way.
LEMMA JobsTypes ==
  ASSUME TypeOK, Next
  PROVE  /\ there' \subseteq Jobs /\ row' \in [Jobs -> Rows] /\ now' \in Times
         /\ edit' \in [kind : Edits \cup {"none"}, job : Jobs \cup {"none"}, row : Rows]
         /\ edit' # NoEdit => edit'.kind \in Edits /\ edit'.job \in Jobs
<1> DEFINE Good == /\ there' \subseteq Jobs /\ row' \in [Jobs -> Rows] /\ now' \in Times
                   /\ edit' \in [kind : Edits \cup {"none"}, job : Jobs \cup {"none"}, row : Rows]
                   /\ edit' # NoEdit => edit'.kind \in Edits /\ edit'.job \in Jobs
<1>1. CASE UNCHANGED jobs BY <1>1 DEF jobs, TypeOK
<1>2. NoEdit \in [kind : Edits \cup {"none"}, job : Jobs \cup {"none"}, row : Rows]
  BY DEF NoEdit, Blank, Rows
<1>3. ASSUME NEW j \in Jobs, Create(j) PROVE Good
  <2>1. now \in Nat BY <1>3 DEF TypeOK, Times
  <2> DEFINE r == [on |-> TRUE, next |-> now, queued |-> FALSE]
  <2>2. r \in Rows BY <2>1 DEF Rows
  <2>3. row' = [row EXCEPT ![j] = r] /\ there' = there \cup {j} /\ now' = now
    BY <1>3 DEF Create, Upsert
  <2>4. edit' = edit \/ edit' = [kind |-> "arm", job |-> j, row |-> r]
    BY <1>3 DEF Create, Read
  <2>5. "arm" \in Edits BY DEF Edits
  <2> HIDE DEF r
  <2>6. /\ there' \subseteq Jobs /\ row' \in [Jobs -> Rows] /\ now' \in Times
    BY <2>2, <2>3 DEF TypeOK
  <2>7. CASE edit' = edit BY <2>6, <2>7 DEF TypeOK
  <2>8. CASE edit' = [kind |-> "arm", job |-> j, row |-> r]
    BY <2>2, <2>5, <2>6, <2>8
  <2> QED BY <2>4, <2>7, <2>8
<1>4. ASSUME NEW j \in Jobs, NEW kind, Ask(j, kind) PROVE Good
  <2>1. /\ kind \in Edits /\ edit' = [kind |-> kind, job |-> j, row |-> row[j]]
        /\ UNCHANGED <<there, row, now>>
    BY <1>4 DEF Ask, Read, Edits
  <2> QED BY <2>1 DEF TypeOK
<1>5. ASSUME NEW j \in Jobs, Delete(j) PROVE Good
  BY <1>5 DEF Delete, TypeOK
<1>6. CASE Elapse
  <2>1. now' \in Times BY <1>6, Bounds DEF Elapse, TypeOK, Times
  <2> QED BY <1>6, <2>1 DEF Elapse, TypeOK
<1>7. CASE Write
  <2>1. edit.job \in Jobs /\ edit.row \in Rows /\ now \in Times BY <1>7 DEF Write, TypeOK
  <2>2. Changed(edit.kind, edit.job, edit.row) \in Rows BY <2>1, ChangedType
  <2> QED BY <1>2, <1>7, <2>1, <2>2 DEF Write, Upsert, TypeOK
<1>8. CASE WriteFails BY <1>2, <1>8 DEF WriteFails, TypeOK, NoEdit
<1>9. CASE Mark
  <2>1. mark.job \in Jobs /\ mark.row \in Rows BY <1>9 DEF Mark, TypeOK, Marks, NoMark
  <2> QED BY <1>9, <2>1 DEF Mark, Upsert, TypeOK
<1>10. ASSUME NEW r \in runs, Watch(r) PROVE Good
  <2>1. r.job \in Jobs BY DEF TypeOK, Runs
  <2>2. /\ edit' = edit \/ edit' = [kind |-> "touch", job |-> r.job, row |-> row[r.job]]
        /\ UNCHANGED <<there, row, now>>
    BY <1>10 DEF Watch, Read
  <2>3. row[r.job] \in Rows /\ "touch" \in Edits BY <2>1 DEF TypeOK, Edits
  <2>4. CASE edit' = edit BY <2>2, <2>4 DEF TypeOK
  <2>5. CASE edit' = [kind |-> "touch", job |-> r.job, row |-> row[r.job]]
    BY <2>1, <2>2, <2>3, <2>5 DEF TypeOK
  <2> QED BY <2>2, <2>4, <2>5
<1> QED
  BY <1>1, <1>3, <1>4, <1>5, <1>6, <1>7, <1>8, <1>9, <1>10
  DEF Next, Pass, MarkFails, Record, Stop, Start, Accept, Over, TheirsOver, UserTurn,
      Breaks, Defer, Wait, Err, Fire, Finish, TimeOut

LEMMA TellType == Tell => met' \in BOOLEAN
<1>1. (mark.kind \in {"fired", "record"}) \in BOOLEAN OBVIOUS
<1> QED BY <1>1 DEF Tell

\* What a step makes of the pass and of what the loop is about to write.
LEMMA LoopTypes ==
  ASSUME TypeOK, Next
  PROVE  /\ up' \in BOOLEAN /\ todo' \subseteq Jobs /\ date' \in [Jobs -> Times]
         /\ mark' \in [kind : Marks \cup {"none", "record"}, job : Jobs \cup {"none"},
                       date : Times, row : Rows]
         /\ mark' # NoMark => mark'.kind \in Marks \cup {"record"} /\ mark'.job \in Jobs
         /\ met' \in BOOLEAN
<1> DEFINE Good == /\ up' \in BOOLEAN /\ todo' \subseteq Jobs /\ date' \in [Jobs -> Times]
                   /\ mark' \in [kind : Marks \cup {"none", "record"}, job : Jobs \cup {"none"},
                                 date : Times, row : Rows]
                   /\ mark' # NoMark => mark'.kind \in Marks \cup {"record"} /\ mark'.job \in Jobs
                   /\ met' \in BOOLEAN
<1>1. CASE UNCHANGED loop BY <1>1 DEF loop, TypeOK
<1>2. /\ NoMark \in [kind : Marks \cup {"none", "record"}, job : Jobs \cup {"none"},
                     date : Times, row : Rows]
      /\ 0 \in Times /\ Blank \in Rows
  BY Bounds DEF NoMark, Blank, Rows, Times
<1>3. CASE Pass
  <2>1. \A j \in Jobs : row[j].next <= now => row[j].next \in Times
    BY Bounds DEF TypeOK, Rows, Times
  <2>2. date' \in [Jobs -> Times] BY <1>2, <1>3, <2>1 DEF Pass, TypeOK
  <2> QED BY <1>3, <2>2 DEF Pass, TypeOK
<1>4. ASSUME NEW j \in Jobs, Looks(j) PROVE todo' \subseteq Jobs /\ date' \in [Jobs -> Times]
  BY <1>2, <1>4 DEF Looks, TypeOK
<1>5. ASSUME NEW j \in Jobs, NEW kind \in Marks, Updates(kind, j)
      PROVE  /\ mark' \in [kind : Marks \cup {"none", "record"}, job : Jobs \cup {"none"},
                           date : Times, row : Rows]
             /\ mark' # NoMark => mark'.kind \in Marks \cup {"record"} /\ mark'.job \in Jobs
  <2>1. CASE mark' = mark BY <2>1 DEF TypeOK
  <2>2. CASE Marking(kind, j) BY <2>2, MarkingType
  <2> QED BY <1>5, <2>1, <2>2 DEF Updates
<1>6. ASSUME NEW j \in Jobs, Defer(j) \/ Wait(j) \/ Err(j) PROVE Good
  <2>1. Looks(j) /\ up' = up /\ met' = met BY <1>6 DEF Defer, Wait, Err
  <2>2. \E kind \in Marks : Updates(kind, j) BY <1>6 DEF Defer, Wait, Err, Marks
  <2> QED BY <1>4, <1>5, <2>1, <2>2 DEF TypeOK
<1>7. ASSUME NEW j \in Jobs, Fire(j) PROVE Good
  <2>1. Looks(j) /\ up' = up /\ met' = FALSE BY <1>7 DEF Fire
  <2>2. \E kind \in Marks \cup {"record"} : Marking(kind, j) BY <1>7 DEF Fire, Marks
  <2> QED BY <1>4, MarkingType, <2>1, <2>2 DEF TypeOK
<1>8. CASE Mark \/ MarkFails
  <2>1. /\ mark.job \in Jobs /\ mark' \in {NoMark, [mark EXCEPT !.kind = "record", !.row = Blank]}
        /\ UNCHANGED <<up, todo, date, met>>
    BY <1>8 DEF Mark, MarkFails, Then, TypeOK, Marks, NoMark
  <2> QED BY <1>2, <2>1 DEF TypeOK
<1>9. CASE Record BY <1>2, <1>9 DEF Record, TypeOK
<1>10. CASE Stop BY <1>2, <1>10 DEF Stop, TypeOK
<1>11. CASE Start BY <1>11 DEF Start, TypeOK
<1>12. CASE Over \/ TheirsOver
  <2>1. UNCHANGED <<up, todo, date, mark>> /\ (Tell \/ met' = met)
    BY <1>12 DEF Over, TheirsOver
  <2>2. met' \in BOOLEAN BY <2>1, TellType DEF TypeOK
  <2> QED BY <2>1, <2>2 DEF TypeOK
<1> QED
  BY <1>1, <1>3, <1>6, <1>7, <1>8, <1>9, <1>10, <1>11, <1>12
  DEF Next, Create, Ask, Delete, Elapse, Write, WriteFails, Accept, UserTurn, Breaks,
      Watch, Finish, TimeOut

LEMMA RunType ==
  ASSUME NEW r \in Runs
  PROVE  /\ [r EXCEPT !.st = "told"] \in Runs /\ [r EXCEPT !.watched = FALSE] \in Runs
         /\ [r EXCEPT !.met = TRUE] \in Runs
  BY DEF Runs

\* What a step makes of the session, the runs and the history.
LEMMA RestTypes ==
  ASSUME TypeOK, Next
  PROVE  /\ inbox' \in Seq(Jobs) /\ goal' \in Occupants /\ live' \in BOOLEAN
         /\ runs' \subseteq Runs
         /\ fired' \in [Jobs -> [Times -> Nat]] /\ again' \in [Jobs -> Nat]
         /\ used' \in Nat
<1> DEFINE Session == inbox' \in Seq(Jobs) /\ goal' \in Occupants /\ live' \in BOOLEAN
           History == /\ fired' \in [Jobs -> [Times -> Nat]] /\ again' \in [Jobs -> Nat]
                      /\ used' \in Nat
<1>1. Session
  <2>1. CASE UNCHANGED session BY <2>1 DEF session, TypeOK
  <2>2. ASSUME NEW j \in Jobs, Fire(j) PROVE Session
    <3>1. Append(inbox, j) \in Seq(Jobs) BY DEF TypeOK
    <3> QED BY <2>2, <3>1 DEF Fire, TypeOK
  <2>3. CASE Accept
    <3>1. Head(inbox) \in Jobs /\ Tail(inbox) \in Seq(Jobs) BY <2>3 DEF Accept, TypeOK
    <3> QED BY <2>3, <3>1 DEF Accept, TypeOK, Occupants
  <2>4. CASE Stop
    <3>1. <<>> \in Seq(Jobs) OBVIOUS
    <3> QED BY <2>4, <3>1 DEF Stop, TypeOK
  <2>5. CASE Over \/ TheirsOver BY <2>5 DEF Over, TheirsOver, TypeOK, Occupants
  <2>6. CASE UserTurn BY <2>6 DEF UserTurn, TypeOK, Occupants
  <2>7. CASE Breaks
    <3>1. <<>> \in Seq(Jobs) OBVIOUS
    <3> QED BY <2>7, <3>1 DEF Breaks, TypeOK
  <2> QED
    BY <2>1, <2>2, <2>3, <2>4, <2>5, <2>6, <2>7
    DEF Next, Pass, Mark, MarkFails, Record, Start, Elapse, Write, WriteFails, Create,
        Delete, Ask, Defer, Wait, Err, Watch, Finish, TimeOut
<1>2. runs' \subseteq Runs
  <2>1. CASE runs' \subseteq runs BY <2>1 DEF TypeOK
  <2>2. CASE Record
    <3> DEFINE r == [job |-> mark.job, date |-> mark.date, met |-> met, st |-> "running",
                     nth |-> fired[mark.job][mark.date], watched |-> TRUE]
    <3>1. mark.job \in Jobs /\ mark.date \in Times /\ met \in BOOLEAN
      BY <2>2 DEF Record, TypeOK, NoMark
    <3>2. fired[mark.job][mark.date] \in Nat BY <3>1 DEF TypeOK
    <3>3. r \in Runs BY <3>1, <3>2 DEF Runs
    <3>4. runs' = runs \cup {r} BY <2>2 DEF Record
    <3> QED BY <3>3, <3>4 DEF TypeOK
  <2>3. ASSUME NEW r \in runs, Watch(r) PROVE runs' \subseteq Runs
    <3>1. [r EXCEPT !.st = "told"] \in Runs BY RunType DEF TypeOK
    <3> QED BY <2>3, <3>1 DEF Watch, TypeOK
  <2>4. CASE Stop
    <3>1. \A r \in runs : [r EXCEPT !.watched = FALSE] \in Runs BY RunType DEF TypeOK
    <3> QED BY <2>4, <3>1 DEF Stop
  <2>5. CASE Tell
    <3>1. \A r \in runs : [r EXCEPT !.met = TRUE] \in Runs BY RunType DEF TypeOK
    <3> QED BY <2>5, <3>1 DEF Tell
  <2> QED
    BY <2>1, <2>2, <2>3, <2>4, <2>5
    DEF Next, Pass, Mark, MarkFails, Start, Elapse, Write, WriteFails, Create, Delete, Ask,
        Defer, Wait, Err, Fire, Finish, TimeOut, Accept, Over, TheirsOver, UserTurn, Breaks
<1>3. History
  <2>0. fired \in [Jobs -> [Times -> Nat]] /\ again \in [Jobs -> Nat] /\ used \in Nat
    BY DEF TypeOK
  <2>1. Counted => used' \in Nat BY <2>0 DEF Counted
  <2>2. CASE UNCHANGED history BY <2>0, <2>2 DEF history
  <2>3. ASSUME NEW j \in Jobs, Fire(j) PROVE History
    <3>1. date[j] \in Times BY DEF TypeOK
    <3>2. used' \in Nat BY <2>0, <2>1, <2>3 DEF Fire
    <3>3. again' = again /\ fired' = [fired EXCEPT ![j][date[j]] = @ + 1] BY <2>3 DEF Fire
    <3>4. fired' \in [Jobs -> [Times -> Nat]] BY <2>0, <3>1, <3>3
    <3> QED BY <2>0, <3>2, <3>3, <3>4
  <2>4. ASSUME NEW j \in Jobs, NEW kind, Ask(j, kind) PROVE History
    <3>1. used' \in Nat /\ fired' = fired BY <2>1, <2>4 DEF Ask
    <3>2. again' \in {again, [again EXCEPT ![j] = @ + 1]} BY <2>0, <2>4 DEF Ask
    <3> QED BY <2>0, <3>1, <3>2
  <2>5. CASE Write
    <3>1. used' \in Nat /\ fired' = fired BY <2>0, <2>1, <2>5 DEF Write
    <3>2. again' = again \/ again' = [again EXCEPT ![edit.job] = @ + 1] BY <2>5 DEF Write
    <3> QED BY <2>0, <3>1, <3>2
  <2>6. CASE MarkFails
    <3>1. used' \in Nat /\ fired' = fired BY <2>1, <2>6 DEF MarkFails
    <3>2. again' \in {again, [again EXCEPT ![mark.job] = @ + 1]} BY <2>0, <2>6 DEF MarkFails
    <3> QED BY <2>0, <3>1, <3>2
  <2>7. CASE Stop
    <3>1. used' \in Nat /\ fired' = fired BY <2>1, <2>7 DEF Stop
    <3>2. again' \in [Jobs -> Nat] BY <2>0, <2>7 DEF Stop
    <3> QED BY <2>0, <3>1, <3>2
  <2>8. CASE UNCHANGED <<fired, again>> /\ Counted BY <2>0, <2>1, <2>8
  <2> QED
    BY <2>2, <2>3, <2>4, <2>5, <2>6, <2>7, <2>8
    DEF Next, Pass, Mark, Record, Start, Elapse, WriteFails, Create, Delete, Defer, Wait,
        Err, Watch, Finish, TimeOut, Accept, Over, TheirsOver, UserTurn, Breaks, history
<1> QED BY <1>1, <1>2, <1>3

LEMMA NextTypes == TypeOK /\ [Next]_vars => TypeOK'
<1>1. ASSUME TypeOK, Next PROVE TypeOK'
  BY <1>1, JobsTypes, LoopTypes, RestTypes DEF TypeOK
<1>2. ASSUME TypeOK, UNCHANGED vars PROVE TypeOK'
  BY <1>2 DEF vars, jobs, loop, session, history, TypeOK
<1> QED BY <1>1, <1>2

\* Every variable keeps to its type.
THEOREM JobTypes == Spec => []TypeOK
<1> QED BY InitTypes, NextTypes, PTL DEF Spec

(***************************************************************************)
(* One goal for a time.  A row that is on, the pass that was listed from   *)
(* it and the row the loop is about to write are all Free: the times they  *)
(* may still fire for have room for one more goal.  The exception is the   *)
(* row whose goal was just sent: the loop is about to replace it, and when *)
(* it does not, that is a reason for one more.  An update that turns a job *)
(* on found it off and may follow a goal sent from an older list, so that  *)
(* all this has to hold for it with room to spare (Room(j, 1)).            *)
(***************************************************************************)
Low(r) == IF r.queued /\ now < r.next THEN now ELSE r.next
From(j, low, k) ==
  \A d \in Times : j \in Once \/ low <= d => fired[j][d] + k <= again[j]
Free(j, r, k) == r.on => From(j, Low(r), k)
Sent(j) == mark.kind = "fired" /\ mark.job = j

Room(j, k) ==
  /\ k <= again[j]
  /\ \A d \in Times : fired[j][d] + k <= again[j] + 1
  /\ j \in todo => From(j, date[j], k)
  /\ mark.kind \in Marks /\ mark.job = j => Free(j, mark.row, k)
  /\ j \in there /\ ~Sent(j) => Free(j, row[j], k)

\* No goal is sent before its time.
Ahead == /\ now >= 1
         /\ \A j \in Jobs, d \in Times : now < d => fired[j][d] = 0
         /\ \A j \in todo : date[j] <= now

\* A row without a time is that of a job never made.
Unmade(j) == /\ j \notin there \cup todo
             /\ mark # NoMark => mark.job # j
             /\ edit # NoEdit => edit.job # j
             /\ \A d \in Times : fired[j][d] = 0
New == /\ \A j \in Jobs : row[j].next = 0 => Unmade(j)
       /\ edit # NoEdit => edit.row.next >= 1
       /\ mark.kind \in Marks => mark.row.next >= 1

Turning == edit.kind = "on" /\ ~edit.row.on => Room(edit.job, 1)

FiredInv == TypeOK /\ Ahead /\ New /\ (\A j \in Jobs : Room(j, 0)) /\ Turning

LEMMA Values ==
  ASSUME TypeOK, NEW j \in Jobs
  PROVE  /\ again[j] \in Nat /\ \A d \in Times : fired[j][d] \in Nat /\ d \in Nat
         /\ date[j] \in Nat /\ now \in Nat
         /\ row[j] \in Rows /\ row[j].next \in Nat
         /\ mark.row \in Rows /\ mark.row.next \in Nat
<1>1. Times \subseteq Nat BY Bounds DEF Times
<1>2. row[j] \in Rows /\ mark.row \in Rows BY DEF TypeOK
<1>3. row[j].next \in Nat /\ mark.row.next \in Nat BY <1>2 DEF Rows
<1>4. again[j] \in Nat /\ date[j] \in Times /\ now \in Times BY DEF TypeOK
<1>5. \A d \in Times : fired[j][d] \in Nat BY DEF TypeOK
<1> QED BY <1>1, <1>2, <1>3, <1>4, <1>5

LEMMA InitFired == Init => FiredInv
<1> SUFFICES ASSUME Init PROVE FiredInv
  OBVIOUS
<1>1. TypeOK BY InitTypes
<1>2. \A j \in Jobs, d \in Times : fired[j][d] = 0 /\ again[j] = 0 BY DEF Init
<1>3. Ahead BY <1>2 DEF Init, Ahead
<1>4. New BY <1>2 DEF Init, New, Unmade, NoMark, NoEdit, Marks
<1>5. \A j \in Jobs : Room(j, 0) BY <1>1, <1>2 DEF Init, Room, NoMark, Marks
<1>6. Turning BY DEF Init, Turning, NoEdit
<1> QED BY <1>1, <1>3, <1>4, <1>5, <1>6 DEF FiredInv

\* More reasons to send do not take room away.
LEMMA FreeMore ==
  ASSUME TypeOK, TypeOK', NEW j \in Jobs, NEW k \in {0, 1}, NEW r, Free(j, r, k),
         UNCHANGED <<now, fired>>, again'[j] >= again[j]
  PROVE  Free(j, r, k)'
<1>1. \A low : From(j, low, k) => From(j, low, k)' BY Values DEF From, TypeOK
<1> QED BY <1>1 DEF Free, Low

\* A step of which only the row of a job matters.
LEMMA RowRoom ==
  ASSUME TypeOK, TypeOK', NEW j \in Jobs, NEW k \in {0, 1}, Room(j, k),
         UNCHANGED <<now, todo, date, mark, fired>>, again'[j] >= again[j],
         j \in there' /\ ~Sent(j) => Free(j, row[j], k)'
  PROVE  Room(j, k)'
<1>1. \A low : From(j, low, k) => From(j, low, k)' BY Values DEF From, TypeOK
<1>2. /\ again'[j] \in Nat /\ again[j] \in Nat /\ again[j] <= again'[j]
      /\ \A d \in Times : fired[j][d] \in Nat
  BY Values DEF TypeOK
<1>3. k <= again'[j] BY <1>2 DEF Room
<1>4. \A d \in Times : fired[j][d] + k <= again'[j] + 1 BY <1>2 DEF Room
<1>5. mark.kind \in Marks /\ mark.job = j => Free(j, mark.row, k)'
  BY FreeMore DEF Room
<1> QED BY <1>1, <1>3, <1>4, <1>5 DEF Room, Sent, Free, Low

LEMMA RoomMore ==
  ASSUME TypeOK, TypeOK', NEW j \in Jobs, NEW k \in {0, 1}, Room(j, k),
         UNCHANGED <<row, now, todo, date, mark, fired>>, there' \subseteq there,
         again'[j] >= again[j]
  PROVE  Room(j, k)'
<1>1. j \in there' /\ ~Sent(j) => Free(j, row[j], k)'
  <2>1. j \in there' /\ ~Sent(j) => Free(j, row[j], k) BY DEF Room
  <2> QED BY <2>1, FreeMore DEF Free, Low, From
<1> QED BY <1>1, RowRoom

LEMMA FromLater ==
  ASSUME TypeOK, NEW j \in Jobs, NEW k, NEW a \in Nat, NEW b \in Nat, a <= b, From(j, a, k)
  PROVE  From(j, b, k)
  BY Values DEF From

\* Nothing was sent yet for what comes after the present period.
LEMMA FromNext ==
  ASSUME TypeOK, Ahead, NEW j \in Jobs \ Once, NEW k \in {0, 1}, k <= again[j]
  PROVE  From(j, now + 1, k)
<1> SUFFICES ASSUME NEW d \in Times, now + 1 <= d PROVE fired[j][d] + k <= again[j]
  BY DEF From
<1>1. fired[j][d] = 0 BY Values DEF Ahead
<1> QED BY <1>1, Values

\* An update of a row leaves it with room, by what there was before.
LEMMA ChangedFree ==
  ASSUME TypeOK, Ahead, NEW j \in Jobs, NEW k \in {0, 1}, k <= again[j],
         NEW r \in Rows, NEW kind \in Edits \cup Marks,
         kind = "fired" \/ Free(j, r, k),
         kind = "on" => r.on \/ \A d \in Times : fired[j][d] + k <= again[j],
         kind = "queued" => \E low \in Nat : low <= now /\ From(j, low, k)
  PROVE  Free(j, Changed(kind, j, r), k)
<1> DEFINE c == Changed(kind, j, r)
<1>1. now \in Nat /\ r.next \in Nat BY Values DEF Rows
<1>2. CASE kind = "fired"
  <2>1. CASE j \in Once BY <1>2, <2>1 DEF Changed, Fired, Rows, Free
  <2>2. CASE j \notin Once
    <3>1. c.next = now + 1 /\ c.queued = FALSE BY <1>2, <2>2 DEF Changed, Fired, Rows
    <3>2. Low(c) = now + 1 BY <3>1 DEF Low
    <3> QED BY <2>2, <3>2, FromNext DEF Free
  <2> QED BY <2>1, <2>2
<1>3. CASE kind # "fired" /\ j \in Once
  <2>1. c.on => r.on \/ kind = "on" BY <1>3 DEF Changed, Rows, Edits, Marks
  <2>2. c.on => \A d \in Times : fired[j][d] + k <= again[j]
    BY <1>3, <2>1 DEF Free, From
  <2> QED BY <2>2 DEF Free, From
<1>4. CASE kind # "fired" /\ j \notin Once
  <2>1. From(j, now + 1, k) BY <1>4, FromNext
  <2>2. CASE kind \in {"error", "defer", "move"}
    <3>1. c.next = now + 1 /\ c.queued = FALSE
      BY <1>4, <2>2 DEF Changed, NextAfter, Rows
    <3>2. Low(c) = now + 1 BY <3>1 DEF Low
    <3> QED BY <2>1, <3>2 DEF Free
  <2>3. CASE kind = "off" BY <2>3 DEF Changed, Rows, Free
  <2>4. CASE kind = "touch" BY <1>4, <2>4 DEF Changed
  <2>5. CASE kind = "queued"
    <3>1. c.on = r.on /\ c.next = r.next /\ c.queued = TRUE BY <2>5 DEF Changed, Rows
    <3>2. CASE now < r.next
      <4>1. Low(c) = now BY <3>1, <3>2 DEF Low
      <4> QED BY <1>1, <2>5, <4>1, FromLater DEF Free
    <3>3. CASE ~(now < r.next)
      <4>1. Low(c) = r.next /\ Low(r) = r.next BY <3>1, <3>3 DEF Low
      <4> QED BY <1>4, <3>1, <4>1 DEF Free
    <3> QED BY <3>2, <3>3
  <2>6. CASE kind \in {"on", "arm"}
    <3>1. /\ c.queued = r.queued
          /\ c.next = r.next \/ c.next = now + 1
      BY <1>4, <2>6 DEF Changed, NextAfter, Rows
    <3>2. CASE \A d \in Times : fired[j][d] + k <= again[j]
      BY <3>2 DEF Free, From
    <3>3. CASE r.on
      <4>1. From(j, Low(r), k) BY <1>4, <3>3 DEF Free
      <4>2. Low(r) \in Nat BY <1>1 DEF Low
      <4>3. CASE c.next = r.next
        <5>1. Low(c) = Low(r) BY <3>1, <4>3 DEF Low
        <5> QED BY <4>1, <5>1 DEF Free
      <4>4. CASE c.next = now + 1 /\ c.queued = FALSE
        <5>1. Low(c) = now + 1 BY <4>4 DEF Low
        <5> QED BY <2>1, <5>1 DEF Free
      <4>5. CASE c.next = now + 1 /\ c.queued = TRUE
        <5>1. Low(c) = now /\ Low(r) <= now BY <1>1, <3>1, <4>5 DEF Low
        <5> QED BY <1>1, <4>1, <4>2, <5>1, FromLater DEF Free
      <4>6. c.queued \in BOOLEAN BY <3>1 DEF Rows
      <4> QED BY <3>1, <4>3, <4>4, <4>5, <4>6
    <3>4. CASE ~r.on /\ kind = "arm" BY <3>4 DEF Changed, Rows, Free
    <3> QED BY <2>6, <3>2, <3>3, <3>4
  <2> QED BY <1>4, <2>2, <2>3, <2>4, <2>5, <2>6 DEF Edits, Marks
<1> QED BY <1>2, <1>3, <1>4

\* Where there was room for one goal more, another reason leaves it for two.
LEMMA ReasonRoom ==
  ASSUME TypeOK, TypeOK', NEW j \in Jobs, Room(j, 0), again'[j] = again[j] + 1,
         UNCHANGED fired
  PROVE  /\ \A low : From(j, low, 0)'
         /\ \A low : From(j, low, 0) => From(j, low, 1)'
         /\ \A k \in {0, 1} : k <= again'[j]
         /\ \A d \in Times : fired[j][d] + 1 <= again'[j] + 1
<1>1. again[j] \in Nat /\ \A d \in Times : fired[j][d] \in Nat /\ fired[j][d] + 0 <= again[j] + 1
  BY Values DEF Room
<1> QED BY <1>1 DEF From

(***************************************************************************)
(* One lemma for each kind of step.                                        *)
(***************************************************************************)
LEMMA CreateRoom ==
  ASSUME FiredInv, TypeOK', NEW i \in Jobs, Create(i), NEW j \in Jobs, NEW k \in {0, 1},
         Room(j, k)
  PROVE  Room(j, k)'
<1>1. TypeOK /\ again'[j] >= again[j] /\ UNCHANGED <<now, todo, date, mark, fired, again>>
  BY Values DEF FiredInv, Create, loop, history
<1>2. CASE j = i
  <2>1. \A d \in Times : fired[j][d] = 0
    BY <1>2 DEF Create, FiredInv, New, Unmade, Blank
  <2>2. \A low : From(j, low, k)' BY <1>1, <2>1, Values DEF From, Room
  <2> QED BY <1>1, <2>2, RowRoom DEF Free
<1>3. CASE j # i
  <2>1. row'[j] = row[j] /\ (j \in there' => j \in there)
    BY <1>3 DEF Create, Upsert, FiredInv, TypeOK
  <2>2. j \in there' /\ ~Sent(j) => Free(j, row[j], k) BY <2>1 DEF Room
  <2>3. Free(j, row[j], k) => Free(j, row[j], k)' BY <1>1, <2>1 DEF Free, Low, From
  <2> QED BY <1>1, <2>2, <2>3, RowRoom
<1> QED BY <1>2, <1>3

LEMMA AskRoom ==
  ASSUME FiredInv, TypeOK', NEW i \in Jobs, NEW kind, Ask(i, kind), NEW j \in Jobs,
         NEW k \in {0, 1}, Room(j, k)
  PROVE  Room(j, k)'
<1>1. /\ TypeOK /\ UNCHANGED <<there, row, now, todo, date, mark, fired>>
      /\ again' = again \/ again' = [again EXCEPT ![i] = @ + 1]
  BY DEF FiredInv, Ask, loop, TypeOK
<1>2. again \in [Jobs -> Nat] /\ again[j] \in Nat BY <1>1 DEF TypeOK
<1>3. again'[j] >= again[j] BY <1>1, <1>2
<1> QED BY <1>1, <1>3, RoomMore

LEMMA AskTurning ==
  ASSUME FiredInv, TypeOK', NEW i \in Jobs, NEW kind, Ask(i, kind)
  PROVE  Turning'
<1> SUFFICES ASSUME kind = "on" PROVE Room(i, 1)'
  BY DEF Turning, Ask, Read
<1>1. /\ TypeOK /\ UNCHANGED <<there, row, now, todo, date, mark, fired>>
      /\ again'[i] = again[i] + 1
  BY DEF FiredInv, Ask, loop, TypeOK
<1>2. Room(i, 0) BY DEF FiredInv
<1>3. \A low : From(i, low, 0) => From(i, low, 1)' BY <1>1, <1>2, ReasonRoom
<1>4. \A r : Free(i, r, 0) => Free(i, r, 1)' BY <1>1, <1>3 DEF Free, Low
<1>5. 1 <= again'[i] /\ \A d \in Times : fired[i][d] + 1 <= again'[i] + 1
  BY <1>1, <1>2, ReasonRoom
<1> QED BY <1>1, <1>2, <1>3, <1>4, <1>5 DEF Room, Sent

LEMMA WriteRoom ==
  ASSUME FiredInv, TypeOK', Write, NEW j \in Jobs
  PROVE  Room(j, 0)'
<1> DEFINE i == edit.job
<1>1. /\ TypeOK /\ Ahead /\ Room(j, 0) /\ i \in Jobs /\ edit.kind \in Edits /\ edit.row \in Rows
      /\ UNCHANGED <<now, todo, date, mark, fired>>
      /\ row' = [row EXCEPT ![i] = Changed(edit.kind, i, edit.row)] /\ there' = there \cup {i}
  BY DEF FiredInv, Write, loop, Upsert, TypeOK
<1>2. again' = IF Stale THEN [again EXCEPT ![i] = @ + 1] ELSE again
  BY DEF Write
<1>3. again'[j] >= again[j]
  <2>1. again \in [Jobs -> Nat] /\ again[j] \in Nat BY <1>1 DEF TypeOK
  <2> QED BY <1>1, <1>2, <2>1
<1>4. CASE j # i
  <2>1. row'[j] = row[j] /\ (j \in there' => j \in there) BY <1>1, <1>4 DEF TypeOK
  <2>2. j \in there' /\ ~Sent(j) => Free(j, row[j], 0) BY <1>1, <2>1 DEF Room
  <2>3. Free(j, row[j], 0) => Free(j, row[j], 0)'
    <3>1. \A r : Free(j, r, 0) => Free(j, r, 0)' BY <1>1, <1>3, FreeMore
    <3> QED BY <1>1, <2>1, <3>1 DEF Free, Low, From
  <2> QED BY <1>1, <1>3, <2>2, <2>3, RowRoom
<1>5. CASE j = i /\ Stale
  <2>1. again'[j] = again[j] + 1 BY <1>1, <1>2, <1>5 DEF TypeOK
  <2>2. Free(j, row[j], 0)' BY <1>1, <2>1, ReasonRoom DEF Free
  <2> QED BY <1>1, <1>3, <2>2, RowRoom
<1>6. CASE j = i /\ ~Stale
  <2>1. again' = again /\ row[j] = edit.row /\ j \in there BY <1>2, <1>6 DEF Stale
  <2>2. ASSUME ~Sent(j) PROVE Free(j, row[j], 0)'
    <3>1. Free(j, edit.row, 0) BY <1>1, <2>1, <2>2 DEF Room
    <3>2. edit.kind = "on" => edit.row.on \/ \A d \in Times : fired[j][d] + 0 <= again[j]
      <4> SUFFICES ASSUME edit.kind = "on", ~edit.row.on, NEW d \in Times
                   PROVE  fired[j][d] + 0 <= again[j]
        OBVIOUS
      <4>1. Room(j, 1) BY <1>6 DEF FiredInv, Turning
      <4>2. fired[j][d] + 1 <= again[j] + 1 BY <4>1 DEF Room
      <4> QED BY <1>1, <4>2, Values
    <3>3. 0 <= again[j] BY <1>1, Values
    <3>4. edit.kind # "queued" BY <1>1 DEF Edits
    <3>5. Free(j, Changed(edit.kind, j, edit.row), 0)
      BY <1>1, <3>1, <3>2, <3>3, <3>4, ChangedFree
    <3>6. row'[j] = Changed(edit.kind, j, edit.row) BY <1>1, <1>6 DEF TypeOK
    <3> QED BY <1>1, <2>1, <3>5, <3>6 DEF Free, Low, From
  <2> QED BY <1>1, <1>3, <2>2, RowRoom
<1> QED BY <1>4, <1>5, <1>6

LEMMA ElapseRoom ==
  ASSUME FiredInv, TypeOK', Elapse, NEW j \in Jobs, NEW k \in {0, 1}, Room(j, k)
  PROVE  Room(j, k)'
<1>1. /\ TypeOK /\ todo = {} /\ mark.kind = "none" /\ now' = now + 1
      /\ UNCHANGED <<there, row, todo, date, mark, fired, again>>
  BY DEF FiredInv, Elapse, NoMark, loop, history
<1>2. Free(j, row[j], k) => Free(j, row[j], k)'
  <2> SUFFICES ASSUME row[j].on, From(j, Low(row[j]), k) PROVE From(j, Low(row[j]), k)'
    BY <1>1 DEF Free
  <2>1. Low(row[j]) \in Nat /\ Low(row[j])' \in Nat /\ Low(row[j]) <= Low(row[j])'
    BY <1>1, Values DEF Low
  <2>2. From(j, Low(row[j])', k) BY <1>1, <2>1, FromLater
  <2> QED BY <1>1, <2>2 DEF From
<1> QED BY <1>1, <1>2 DEF Room, Sent, Marks

LEMMA PassRoom ==
  ASSUME FiredInv, TypeOK', Pass, NEW j \in Jobs, NEW k \in {0, 1}, Room(j, k)
  PROVE  Room(j, k)'
<1>1. /\ TypeOK /\ mark.kind = "none"
      /\ UNCHANGED <<there, row, now, mark, fired, again>>
  BY DEF FiredInv, Pass, NoMark, jobs, history
<1>2. j \in todo' => From(j, date[j], k)'
  <2> SUFFICES ASSUME j \in todo' PROVE From(j, date'[j], k)
    BY <1>1 DEF From
  <2>1. /\ j \in there /\ row[j].on /\ (row[j].queued \/ row[j].next <= now)
        /\ date'[j] = IF row[j].next <= now THEN row[j].next ELSE now
    BY DEF Pass, Due
  <2>2. From(j, Low(row[j]), k) BY <1>1, <2>1 DEF Room, Free, Sent
  <2>3. Low(row[j]) = date'[j] BY <1>1, <2>1, Values DEF Low
  <2> QED BY <2>2, <2>3
<1>3. \A r : Free(j, r, k) => Free(j, r, k)' BY <1>1 DEF Free, Low, From
<1> QED BY <1>1, <1>2, <1>3 DEF Room, Sent, Marks

\* A job that is put off: what the loop is about to write for it has room.
LEMMA PutOffRoom ==
  ASSUME FiredInv, TypeOK', NEW i \in Jobs, Defer(i) \/ Wait(i) \/ Err(i),
         NEW j \in Jobs, NEW k \in {0, 1}, Room(j, k)
  PROVE  Room(j, k)'
<1>1. /\ TypeOK /\ Ahead /\ i \in todo /\ todo' = todo \ {i} /\ mark.kind = "none"
      /\ date' = [date EXCEPT ![i] = 0]
      /\ UNCHANGED <<there, row, now, fired, again>>
  BY DEF FiredInv, Defer, Wait, Err, Looks, NoMark, jobs, history
<1>2. PICK kind \in {"defer", "queued", "error"} : Updates(kind, i)
  BY DEF Defer, Wait, Err
<1>3. \A r, low : (Free(j, r, k) => Free(j, r, k)') /\ (From(j, low, k) => From(j, low, k)')
  BY <1>1 DEF Free, Low, From
<1>4. k <= again[j] /\ (j \in there => Free(j, row[j], k)) /\ (j \in todo => From(j, date[j], k))
      /\ \A d \in Times : fired[j][d] + k <= again[j] + 1
  BY <1>1 DEF Room, Sent
<1>5. j \in todo' => From(j, date[j], k)' BY <1>1, <1>3, <1>4 DEF TypeOK
<1>6. CASE mark' = mark BY <1>1, <1>3, <1>4, <1>5, <1>6 DEF Room, Sent, Marks
<1>7. CASE i \in there /\ Marking(kind, i)
  <2>1. mark'.kind = kind /\ mark'.job = i /\ mark'.row = Changed(kind, i, row[i])
    BY <1>7 DEF Marking
  <2>2. ASSUME i = j PROVE Free(j, Changed(kind, j, row[j]), k)
    <3>1. date[j] \in Nat /\ date[j] <= now /\ row[j] \in Rows
      BY <1>1, <2>2, Values DEF Ahead
    <3>2. kind = "queued" => \E low \in Nat : low <= now /\ From(j, low, k)
      BY <1>1, <1>4, <2>2, <3>1
    <3>3. kind \in Edits \cup Marks /\ kind # "on" BY DEF Marks
    <3> QED BY <1>1, <1>4, <1>7, <2>2, <3>1, <3>2, <3>3, ChangedFree
  <2>3. mark'.kind \in Marks /\ mark'.job = j => Free(j, mark.row, k)'
    <3>1. ASSUME i = j PROVE Free(j, mark.row, k)'
      BY <1>1, <2>1, <2>2, <3>1 DEF Free, Low, From
    <3> QED BY <2>1, <3>1
  <2>4. ~Sent(j)' BY <2>1 DEF Sent
  <2> QED BY <1>1, <1>3, <1>4, <1>5, <2>3, <2>4 DEF Room
<1> QED BY <1>2, <1>6, <1>7 DEF Updates

LEMMA FireRoom ==
  ASSUME FiredInv, TypeOK', NEW i \in Jobs, Fire(i), NEW j \in Jobs, NEW k \in {0, 1},
         Room(j, k)
  PROVE  Room(j, k)'
<1>1. /\ TypeOK /\ Ahead /\ i \in todo /\ todo' = todo \ {i} /\ mark.kind = "none"
      /\ date' = [date EXCEPT ![i] = 0] /\ date[i] \in Times
      /\ fired' = [fired EXCEPT ![i][date[i]] = @ + 1]
      /\ UNCHANGED <<there, row, now, again>>
  BY DEF FiredInv, Fire, Looks, NoMark, jobs, TypeOK
<1>2. k <= again[j] /\ (j \in there => Free(j, row[j], k)) /\ (j \in todo => From(j, date[j], k))
      /\ \A d \in Times : fired[j][d] + k <= again[j] + 1
  BY <1>1 DEF Room, Sent
<1>3. /\ mark'.kind = IF i \in there THEN "fired" ELSE "record"
      /\ mark'.job = i
      /\ mark'.row = Changed(IF i \in there THEN "fired" ELSE "record", i, row[i])
  BY DEF Fire, Marking
<1>4. CASE j # i
  <2>1. fired'[j] = fired[j] /\ date'[j] = date[j] BY <1>1, <1>4 DEF TypeOK
  <2>2. \A r, low : (Free(j, r, k) => Free(j, r, k)') /\ (From(j, low, k) => From(j, low, k)')
    BY <1>1, <2>1 DEF Free, Low, From
  <2>3. j \in todo' => From(j, date[j], k)' BY <1>1, <1>2, <2>1, <2>2
  <2> QED BY <1>1, <1>2, <1>3, <1>4, <2>1, <2>2, <2>3 DEF Room
<1>5. CASE j = i
  <2> DEFINE t == date[i]
  <2>1. fired[j] \in [Times -> Nat] /\ again[j] \in Nat BY DEF FiredInv, TypeOK
  <2>2. fired'[j] = [fired[j] EXCEPT ![t] = @ + 1] BY <1>1, <1>5 DEF TypeOK
  <2>3. \A d \in Times : fired'[j][d] = IF d = t THEN fired[j][d] + 1 ELSE fired[j][d]
    BY <2>1, <2>2
  <2>4. fired[j][t] + k <= again[j]
    <3>1. t \in Nat /\ t <= t BY <1>1, Values
    <3> QED BY <1>1, <1>2, <1>5, <3>1 DEF From
  <2>5. \A d \in Times : fired'[j][d] + k <= again'[j] + 1
    BY <1>1, <1>2, <2>1, <2>3, <2>4
  <2>6. j \notin todo' BY <1>1, <1>5
  <2>7. ASSUME i \in there PROVE Free(j, mark.row, k)'
    <3>0. row[j] \in Rows /\ mark'.row = Fired(j, row[j])
      BY <1>1, <1>3, <1>5, <2>7, Values DEF Changed
    <3>1. CASE j \in Once
      <4>1. ~mark'.row.on BY <3>0, <3>1 DEF Fired, Rows
      <4> QED BY <4>1 DEF Free
    <3>2. CASE j \notin Once
      <4>1. mark'.row.next = now + 1 /\ mark'.row.queued = FALSE
        BY <3>0, <3>2 DEF Fired, Rows
      <4>2. Low(mark.row)' = now + 1 BY <1>1, <4>1 DEF Low
      <4>3. ASSUME NEW d \in Times, now + 1 <= d PROVE fired'[j][d] + k <= again'[j]
        <5>1. d # t BY <1>1, <4>3, Values DEF Ahead
        <5>2. From(j, now + 1, k) BY <1>1, <1>2, <3>2, FromNext
        <5> QED BY <1>1, <2>3, <4>3, <5>1, <5>2 DEF From
      <4> QED BY <3>2, <4>2, <4>3 DEF Free, From
    <3> QED BY <3>1, <3>2
  <2>8. CASE i \in there
    <3>1. Sent(j)' BY <1>3, <1>5, <2>8 DEF Sent
    <3> QED BY <1>1, <1>2, <2>5, <2>6, <2>7, <2>8, <3>1 DEF Room
  <2>9. CASE i \notin there
    <3>1. mark'.kind \notin Marks /\ j \notin there' BY <1>1, <1>3, <1>5, <2>9 DEF Marks
    <3> QED BY <1>1, <1>2, <2>5, <2>6, <3>1 DEF Room
  <2> QED BY <2>8, <2>9
<1> QED BY <1>4, <1>5

LEMMA MarkRoom ==
  ASSUME FiredInv, TypeOK', Mark, NEW j \in Jobs, NEW k \in {0, 1}, Room(j, k)
  PROVE  Room(j, k)'
<1>1. /\ TypeOK /\ mark.kind \in Marks /\ mark.job \in Jobs
      /\ row' = [row EXCEPT ![mark.job] = mark.row] /\ there' = there \cup {mark.job}
      /\ mark'.kind \in {"record", "none"}
      /\ UNCHANGED <<now, todo, date, fired, again>>
  BY DEF FiredInv, Mark, Upsert, Then, TypeOK, Marks, NoMark, history
<1>2. \A r, low : (Free(j, r, k) => Free(j, r, k)') /\ (From(j, low, k) => From(j, low, k)')
  BY <1>1 DEF Free, Low, From
<1>3. j \in there' => Free(j, row'[j], k)
  <2>1. CASE j = mark.job
    <3>1. row'[j] = mark.row BY <1>1, <2>1 DEF TypeOK
    <3> QED BY <1>1, <2>1, <3>1 DEF Room
  <2>2. CASE j # mark.job
    <3>1. row'[j] = row[j] /\ (j \in there' => j \in there) BY <1>1, <2>2 DEF TypeOK
    <3> QED BY <2>2, <3>1 DEF Room, Sent
  <2> QED BY <2>1, <2>2
<1>4. j \in there' => Free(j, row[j], k)' BY <1>2, <1>3
<1>5. mark'.kind \notin Marks BY <1>1 DEF Marks
<1>6. /\ k <= again'[j] /\ \A d \in Times : fired'[j][d] + k <= again'[j] + 1
      /\ j \in todo' => From(j, date[j], k)'
  BY <1>1, <1>2 DEF Room
<1> QED BY <1>4, <1>5, <1>6 DEF Room

\* The loop forgets what it was about to write: when a goal was sent, that is a
\* reason to send another.
LEMMA ForgetRoom ==
  ASSUME FiredInv, TypeOK', MarkFails \/ Record \/ Stop, NEW j \in Jobs, NEW k \in {0, 1},
         Room(j, k)
  PROVE  Room(j, k)'
<1>1. /\ TypeOK /\ mark'.kind \in {"record", "none"} /\ todo' \subseteq todo
      /\ (todo' = {} \/ date' = date)
      /\ UNCHANGED <<there, row, now, fired>>
  <2>1. TypeOK BY DEF FiredInv
  <2>2. CASE MarkFails
    <3>1. mark'.kind \in {"record", "none"}
      BY <2>1, <2>2 DEF MarkFails, Then, TypeOK, Marks, NoMark
    <3> QED BY <2>1, <2>2, <3>1 DEF MarkFails, jobs
  <2>3. CASE Record BY <2>1, <2>3 DEF Record, NoMark, jobs, history
  <2>4. CASE Stop BY <2>1, <2>4 DEF Stop, NoMark, jobs
  <2> QED BY <2>2, <2>3, <2>4
<1>2. /\ again[j] \in Nat /\ again'[j] \in Nat
      /\ again'[j] = IF Sent(j) /\ mark'.kind \in {"record", "none"} /\ ~Record
                     THEN again[j] + 1 ELSE again[j]
  <2>1. again \in [Jobs -> Nat] /\ again' \in [Jobs -> Nat] BY DEF FiredInv, TypeOK
  <2>2. CASE MarkFails /\ ~Record
    <3>1. mark.kind \in Marks /\ again' = [again EXCEPT ![mark.job] = IF mark.kind = "fired" THEN @ + 1 ELSE @]
      BY <2>2 DEF MarkFails
    <3> QED BY <1>1, <2>1, <2>2, <3>1 DEF Sent
  <2>3. CASE Record
    <3>1. again' = again BY <2>3 DEF Record, history
    <3> QED BY <2>1, <2>3, <3>1
  <2>4. CASE Stop /\ ~Record
    <3>1. again'[j] = IF mark.kind = "fired" /\ mark.job = j THEN again[j] + 1 ELSE again[j]
      BY <2>4 DEF Stop
    <3> QED BY <1>1, <2>1, <2>4, <3>1 DEF Sent
  <2> QED BY <2>2, <2>3, <2>4
<1>3. again'[j] >= again[j] BY <1>2
<1>4. \A low : From(j, low, k) => From(j, low, k)'
  <2>1. \A d \in Times : fired[j][d] + k <= again[j] => fired'[j][d] + k <= again'[j]
    BY <1>1, <1>2, <1>3, Values
  <2> QED BY <2>1 DEF From
<1>5. /\ k <= again'[j] /\ \A d \in Times : fired'[j][d] + k <= again'[j] + 1
      /\ j \in todo' => From(j, date[j], k)'
  <2>1. \A d \in Times : fired[j][d] \in Nat BY Values DEF FiredInv
  <2>2. j \in todo' => j \in todo /\ date' = date BY <1>1
  <2> QED BY <1>1, <1>2, <1>3, <1>4, <2>1, <2>2 DEF Room
<1>6. j \in there => Free(j, row[j], k)'
  <2>1. CASE ~Sent(j) BY <1>1, <1>3, <2>1, FreeMore DEF Room, Free, Low, From, FiredInv
  <2>2. CASE Sent(j)
    <3>1. ~Record BY <2>2 DEF Sent, Record
    <3>2. again'[j] = again[j] + 1 BY <1>1, <1>2, <2>2, <3>1
    <3>3. \A d \in Times : fired[j][d] + k <= again'[j] BY <3>2 DEF Room
    <3> QED BY <1>1, <3>3 DEF Free, From
  <2> QED BY <2>1, <2>2
<1>7. mark'.kind \notin Marks BY <1>1 DEF Marks
<1> QED BY <1>1, <1>5, <1>6, <1>7 DEF Room

\* Steps that touch none of this.
LEMMA OtherRoom ==
  ASSUME TypeOK, TypeOK', NEW j \in Jobs, NEW k \in {0, 1}, Room(j, k),
         UNCHANGED <<row, now, todo, date, mark, fired, again>>, there' \subseteq there
  PROVE  Room(j, k)'
  BY RoomMore, Values

Quiet == UNCHANGED <<row, now, todo, date, mark, fired, again>> /\ there' \subseteq there

LEMMA QuietSteps ==
  ASSUME Next
  PROVE  \/ \E i \in Jobs : Create(i) \/ Defer(i) \/ Wait(i) \/ Err(i) \/ Fire(i)
         \/ \E i \in Jobs, kind \in Edits : Ask(i, kind)
         \/ Write \/ Elapse \/ Pass \/ Mark \/ MarkFails \/ Record \/ Stop
         \/ Quiet
<1>1. (\E i \in Jobs : Delete(i)) \/ WriteFails => Quiet
  BY DEF Delete, WriteFails, Quiet, loop, history
<1>2. Start \/ Accept \/ Over \/ TheirsOver \/ UserTurn \/ Breaks => Quiet
  BY DEF Start, Accept, Over, TheirsOver, UserTurn, Breaks, Quiet, jobs, loop, history
<1>3. (\E r \in runs : Watch(r) \/ Finish(r) \/ TimeOut(r)) => Quiet
  BY DEF Watch, Finish, TimeOut, Quiet, jobs, loop, history
<1> QED BY <1>1, <1>2, <1>3 DEF Next

LEMMA QuietEdits ==
  ASSUME Next
  PROVE  \/ \E i \in Jobs : Create(i) \/ Defer(i) \/ Wait(i) \/ Err(i) \/ Fire(i)
         \/ \E i \in Jobs, kind \in Edits : Ask(i, kind)
         \/ Write \/ Elapse \/ Pass \/ Mark \/ MarkFails \/ Record \/ Stop
         \/ Quiet /\ (edit' \in {edit, NoEdit} \/ \E r \in runs : Watch(r))
<1>1. (\E i \in Jobs : Delete(i)) \/ WriteFails => edit' \in {edit, NoEdit}
  BY DEF Delete, WriteFails
<1>2. Start \/ Accept \/ Over \/ TheirsOver \/ UserTurn \/ Breaks => edit' = edit
  BY DEF Start, Accept, Over, TheirsOver, UserTurn, Breaks, jobs
<1>3. (\E r \in runs : Finish(r) \/ TimeOut(r)) => edit' = edit
  BY DEF Finish, TimeOut, jobs
<1> QED BY <1>1, <1>2, <1>3, QuietSteps DEF Next

LEMMA NextRoom ==
  ASSUME FiredInv, TypeOK', Next, NEW j \in Jobs
  PROVE  Room(j, 0)' /\ (Room(j, 1) /\ ~Write => Room(j, 1)')
<1>1. TypeOK /\ Room(j, 0) BY DEF FiredInv
<1>2. ASSUME NEW k \in {0, 1}, Room(j, k), ~Write PROVE Room(j, k)'
  BY <1>1, <1>2, QuietSteps, CreateRoom, PutOffRoom, FireRoom, AskRoom, ElapseRoom, PassRoom,
     MarkRoom, ForgetRoom, OtherRoom DEF Quiet
<1> QED BY <1>1, <1>2, WriteRoom

LEMMA NextTurning ==
  ASSUME FiredInv, TypeOK', Next
  PROVE  Turning'
<1>1. CASE Write BY <1>1 DEF Write, Turning, NoEdit
<1>2. ASSUME NEW i \in Jobs, NEW kind \in Edits, Ask(i, kind) PROVE Turning'
  BY <1>2, AskTurning
<1>3. CASE edit' = edit /\ ~Write
  <2> SUFFICES ASSUME edit.kind = "on", ~edit.row.on PROVE Room(edit.job, 1)'
    BY <1>3 DEF Turning
  <2>1. Room(edit.job, 1) /\ edit.job \in Jobs BY DEF FiredInv, Turning, TypeOK, NoEdit
  <2>2. \A j \in Jobs : Room(j, 1) => Room(j, 1)' BY <1>3, NextRoom
  <2> QED BY <1>3, <2>1, <2>2 DEF Room, Free, Low, From, Sent
<1>4. CASE WriteFails BY <1>4 DEF WriteFails, Turning, NoEdit
<1>5. ASSUME NEW i \in Jobs, Create(i), edit' # edit PROVE Turning'
  BY <1>5 DEF Create, Read, Turning
<1>6. ASSUME NEW r \in runs, Watch(r), edit' # edit PROVE Turning'
  BY <1>6 DEF Watch, Read, Turning
<1>7. edit' = edit \/ Write \/ WriteFails \/ (\E i \in Jobs : Create(i))
      \/ (\E i \in Jobs, kind \in Edits : Ask(i, kind)) \/ (\E r \in runs : Watch(r))
  BY DEF Next, Pass, Mark, MarkFails, Record, Stop, Start, Accept, Over, TheirsOver, UserTurn,
         Breaks, Elapse, Delete, Defer, Wait, Err, Fire, Finish, TimeOut, jobs
<1> QED BY <1>1, <1>2, <1>3, <1>4, <1>5, <1>6, <1>7

LEMMA NextAhead ==
  ASSUME FiredInv, TypeOK', Next
  PROVE  Ahead'
<1>1. TypeOK /\ Ahead BY DEF FiredInv
<1>2. CASE UNCHANGED <<now, fired>> /\ todo' \subseteq todo /\ (todo' = {} \/ date' = date)
  BY <1>1, <1>2 DEF Ahead
<1>3. CASE Elapse
  <2>1. now' = now + 1 /\ UNCHANGED <<todo, date, fired>> /\ todo = {}
    BY <1>3 DEF Elapse, loop, history
  <2> QED BY <1>1, <2>1, Values, Bounds DEF Ahead, TypeOK, Times
<1>4. CASE Pass
  <2>1. /\ UNCHANGED <<now, fired>> /\ todo' \subseteq Jobs /\ now \in Nat
        /\ \A j \in todo' : row[j].next \in Nat
                            /\ date'[j] = IF row[j].next <= now THEN row[j].next ELSE now
    BY <1>1, <1>4, Values DEF Pass, jobs, history, TypeOK
  <2> QED BY <1>1, <2>1 DEF Ahead
<1>5. ASSUME NEW i \in Jobs, Looks(i), UNCHANGED now
      PROVE  \A j \in todo' : date'[j] <= now'
  BY <1>1, <1>5 DEF Looks, Ahead, TypeOK
<1>6. ASSUME NEW i \in Jobs, Fire(i) PROVE Ahead'
  <2>1. /\ i \in todo /\ date[i] \in Times /\ UNCHANGED now
        /\ fired' = [fired EXCEPT ![i][date[i]] = @ + 1]
    BY <1>1, <1>6 DEF Fire, Looks, TypeOK, jobs
  <2>2. ASSUME NEW j \in Jobs, NEW d \in Times, now < d PROVE fired'[j][d] = 0
    <3>1. d # date[i] BY <1>1, <2>1, <2>2, Values DEF Ahead
    <3>2. fired[j][d] = 0 BY <1>1, <2>2 DEF Ahead
    <3>3. fired \in [Jobs -> [Times -> Nat]] BY <1>1 DEF TypeOK
    <3> QED BY <2>1, <3>1, <3>2, <3>3
  <2> QED BY <1>1, <1>5, <1>6, <2>1, <2>2 DEF Ahead, Fire
<1>7. ASSUME NEW i \in Jobs, Defer(i) \/ Wait(i) \/ Err(i) PROVE Ahead'
  <2>1. Looks(i) /\ UNCHANGED <<now, fired>> BY <1>7 DEF Defer, Wait, Err, jobs, history
  <2> QED BY <1>1, <1>5, <2>1 DEF Ahead
<1>8. Write \/ Mark \/ MarkFails \/ Record \/ Stop \/ Quiet
      \/ (\E i \in Jobs : Create(i)) \/ (\E i \in Jobs, kind \in Edits : Ask(i, kind))
      => UNCHANGED <<now, fired>> /\ todo' \subseteq todo /\ (todo' = {} \/ date' = date)
  BY DEF Write, Mark, MarkFails, Record, Stop, Quiet, Create, Ask, jobs, loop, history
<1> QED BY <1>2, <1>3, <1>4, <1>6, <1>7, <1>8, QuietSteps

LEMMA ChangedNext ==
  ASSUME TypeOK, Ahead, NEW j \in Jobs, NEW kind, NEW r \in Rows, r.next >= 1
  PROVE  Changed(kind, j, r).next >= 1
<1>1. now + 1 >= 1 /\ NextAfter(j) >= 1 BY Values DEF NextAfter, OwnTime
<1> QED BY <1>1 DEF Changed, Fired, Rows

\* A row that stays without a time is that of a job nothing happened to.
LEMMA StaysUnmade ==
  ASSUME FiredInv, NEW j \in Jobs, row[j].next = 0,
         there' \subseteq there \/ \E i \in Jobs \ {j} : there' = there \cup {i},
         todo' \subseteq todo \cup there,
         mark' \in {mark, NoMark} \/ mark'.job # j,
         edit' \in {edit, NoEdit} \/ edit'.job # j,
         fired'[j] = fired[j]
  PROVE  Unmade(j)'
<1>1. Unmade(j) BY DEF FiredInv, New
<1> QED BY <1>1 DEF Unmade, NoMark, NoEdit

LEMMA NextNew ==
  ASSUME FiredInv, TypeOK', Next
  PROVE  New'
<1>0. TypeOK /\ Ahead /\ New BY DEF FiredInv
<1> DEFINE Rowed == \A j \in Jobs : row'[j].next = 0 => Unmade(j)'
           Edited == edit' # NoEdit => edit'.row.next >= 1
           Marked == mark'.kind \in Marks => mark'.row.next >= 1
<1>1. ASSUME NEW j \in Jobs, j \in there \cup todo PROVE row[j].next >= 1
  <2>1. row[j].next # 0 BY <1>0, <1>1 DEF New, Unmade
  <2> QED BY <1>0, <2>1, Values
<1>2. edit' = edit => Edited BY <1>0 DEF New
<1>3. mark' = mark \/ mark'.kind \notin Marks => Marked BY <1>0 DEF New
<1>4. ASSUME NEW i \in Jobs, Create(i) PROVE New'
  <2>1. now \in Nat /\ now >= 1 BY <1>0, Values DEF Ahead
  <2>2. /\ row' = [row EXCEPT ![i] = [on |-> TRUE, next |-> now, queued |-> FALSE]]
        /\ there' = there \cup {i} /\ UNCHANGED <<todo, mark, fired>>
        /\ edit' = edit \/ edit' = [kind |-> "arm", job |-> i,
                                    row |-> [on |-> TRUE, next |-> now, queued |-> FALSE]]
    BY <1>4 DEF Create, Upsert, Read, loop, history
  <2>3. row'[i].next = now BY <1>0, <2>2 DEF TypeOK
  <2>4. ASSUME NEW j \in Jobs, row'[j].next = 0 PROVE Unmade(j)'
    <3>1. j # i BY <2>1, <2>3, <2>4
    <3>2. row[j].next = 0 BY <1>0, <2>2, <2>4, <3>1 DEF TypeOK
    <3> QED BY <2>2, <3>1, <3>2, StaysUnmade
  <2>5. Edited BY <1>2, <2>1, <2>2
  <2> QED BY <1>3, <2>2, <2>4, <2>5 DEF New
<1>5. ASSUME NEW i \in Jobs, NEW kind, Ask(i, kind) PROVE New'
  <2>1. /\ edit' = [kind |-> kind, job |-> i, row |-> row[i]] /\ i \in there
        /\ UNCHANGED <<there, row, todo, mark, fired>>
    BY <1>5 DEF Ask, Read, loop
  <2>2. row[i].next >= 1 BY <1>1, <2>1
  <2>3. ASSUME NEW j \in Jobs, row'[j].next = 0 PROVE Unmade(j)'
    <3>1. j # i BY <2>1, <2>2, <2>3
    <3> QED BY <2>1, <2>3, <3>1, StaysUnmade
  <2> QED BY <1>3, <2>1, <2>2, <2>3 DEF New
<1>6. ASSUME NEW i \in Jobs, NEW r \in Rows, r.next >= 1, row' = [row EXCEPT ![i] = r],
             there' = there \cup {i}, UNCHANGED <<todo, fired>>,
             mark' \in {mark, NoMark} \/ mark'.job = i, edit' \in {edit, NoEdit}
      PROVE  Rowed
  <2> SUFFICES ASSUME NEW j \in Jobs, row'[j].next = 0 PROVE Unmade(j)'
    OBVIOUS
  <2>1. row'[i] = r BY <1>0, <1>6 DEF TypeOK
  <2>2. j # i BY <1>6, <2>1
  <2>3. row[j].next = 0 BY <1>0, <1>6, <2>2 DEF TypeOK
  <2> QED BY <1>6, <2>2, <2>3, StaysUnmade
<1>7. CASE Write
  <2> DEFINE r == Changed(edit.kind, edit.job, edit.row)
  <2>1. /\ edit.job \in Jobs /\ edit.row \in Rows /\ edit.row.next >= 1 /\ now \in Times
    BY <1>0, <1>7 DEF Write, TypeOK, New
  <2>2. r \in Rows /\ r.next >= 1 BY <1>0, <2>1, ChangedType, ChangedNext
  <2>3. /\ row' = [row EXCEPT ![edit.job] = r] /\ there' = there \cup {edit.job}
        /\ edit' = NoEdit /\ UNCHANGED <<todo, mark, fired>>
    BY <1>7 DEF Write, Upsert, loop
  <2> HIDE DEF r
  <2>4. Rowed BY <1>6, <2>1, <2>2, <2>3
  <2> QED BY <1>3, <2>3, <2>4 DEF New
<1>8. CASE Mark
  <2>1. /\ mark.job \in Jobs /\ mark.row \in Rows /\ mark.row.next >= 1
    BY <1>0, <1>8 DEF Mark, TypeOK, New, Marks, NoMark
  <2>2. /\ row' = [row EXCEPT ![mark.job] = mark.row] /\ there' = there \cup {mark.job}
        /\ UNCHANGED <<edit, todo, fired>>
    BY <1>8 DEF Mark, Upsert, history
  <2>3. mark' = NoMark \/ (mark'.kind = "record" /\ mark'.job = mark.job)
    BY <1>0, <1>8 DEF Mark, Then, TypeOK, Marks, NoMark
  <2>4. Rowed BY <1>6, <2>1, <2>2, <2>3
  <2>5. mark'.kind \notin Marks BY <2>3 DEF Marks, NoMark
  <2> QED BY <1>2, <1>3, <2>2, <2>4, <2>5 DEF New
<1>9. CASE MarkFails
  <2>1. UNCHANGED <<there, row, edit, todo, fired>> BY <1>9 DEF MarkFails, jobs
  <2>2. mark' = NoMark \/ (mark'.kind = "record" /\ mark'.job = mark.job)
    BY <1>0, <1>9 DEF MarkFails, Then, TypeOK, Marks, NoMark
  <2>3. ASSUME NEW j \in Jobs, row'[j].next = 0 PROVE Unmade(j)'
    <3>1. mark # NoMark /\ Unmade(j) BY <1>0, <1>9, <2>1, <2>3 DEF MarkFails, Marks, NoMark, New
    <3>2. mark.job # j BY <3>1 DEF Unmade
    <3> QED BY <2>1, <2>2, <2>3, <3>2, StaysUnmade
  <2>4. mark'.kind \notin Marks BY <2>2 DEF Marks, NoMark
  <2> QED BY <1>2, <1>3, <2>1, <2>3, <2>4 DEF New
<1>10. CASE Record \/ Stop
  <2>1. UNCHANGED <<there, row, edit, fired>> /\ mark' = NoMark /\ todo' \subseteq todo
    BY <1>10 DEF Record, Stop, jobs, history
  <2>2. mark'.kind \notin Marks BY <2>1 DEF Marks, NoMark
  <2>3. ASSUME NEW j \in Jobs, row'[j].next = 0 PROVE Unmade(j)'
    BY <2>1, <2>3, StaysUnmade
  <2> QED BY <1>2, <1>3, <2>1, <2>2, <2>3 DEF New
<1>11. CASE Elapse
  <2>1. UNCHANGED <<there, row, edit, todo, mark, fired>>
    BY <1>11 DEF Elapse, loop, history
  <2>2. ASSUME NEW j \in Jobs, row'[j].next = 0 PROVE Unmade(j)'
    BY <2>1, <2>2, StaysUnmade
  <2> QED BY <1>2, <1>3, <2>1, <2>2 DEF New
<1>12. CASE Pass
  <2>1. UNCHANGED <<there, row, edit, mark, fired>> /\ todo' \subseteq there
    BY <1>12 DEF Pass, jobs, history
  <2>2. ASSUME NEW j \in Jobs, row'[j].next = 0 PROVE Unmade(j)'
    BY <2>1, <2>2, StaysUnmade
  <2> QED BY <1>2, <1>3, <2>1, <2>2 DEF New
<1>13. ASSUME NEW i \in Jobs, Looks(i), UNCHANGED jobs, NEW kind, mark' = mark \/ Marking(kind, i),
              \A j \in Jobs \ {i} : fired'[j] = fired[j]
       PROVE  New'
  <2>1. /\ UNCHANGED <<there, row, edit>> /\ todo' \subseteq todo /\ row[i].next >= 1
        /\ row[i] \in Rows
    BY <1>0, <1>1, <1>13, Values DEF jobs, Looks
  <2>2. Changed(kind, i, row[i]).next >= 1 BY <1>0, <2>1, ChangedNext
  <2>3. Marked BY <1>3, <1>13, <2>2 DEF Marking
  <2>4. ASSUME NEW j \in Jobs, row'[j].next = 0 PROVE Unmade(j)'
    <3>1. j # i BY <2>1, <2>4
    <3>2. mark' = mark \/ mark'.job = i BY <1>13 DEF Marking
    <3> QED BY <1>13, <2>1, <2>4, <3>1, <3>2, StaysUnmade
  <2> QED BY <1>2, <2>1, <2>3, <2>4 DEF New
<1>14. ASSUME NEW i \in Jobs, Defer(i) \/ Wait(i) \/ Err(i) PROVE New'
  <2>1. Looks(i) /\ UNCHANGED <<jobs, fired>> /\ \E kind \in Marks : Updates(kind, i)
    BY <1>14 DEF Defer, Wait, Err, history, Marks
  <2> QED BY <1>13, <2>1 DEF Updates
<1>15. ASSUME NEW i \in Jobs, Fire(i) PROVE New'
  <2>1. Looks(i) /\ UNCHANGED jobs /\ fired' = [fired EXCEPT ![i][date[i]] = @ + 1]
        /\ \E kind \in Marks \cup {"record"} : Marking(kind, i)
    BY <1>15 DEF Fire, Marks
  <2>2. \A j \in Jobs \ {i} : fired'[j] = fired[j] BY <1>0, <2>1 DEF TypeOK
  <2> QED BY <1>13, <2>1, <2>2
<1>16. CASE edit' \in {edit, NoEdit} /\ Quiet
  <2>1. ASSUME NEW j \in Jobs, row'[j].next = 0 PROVE Unmade(j)'
    BY <1>16, <2>1, StaysUnmade DEF Quiet
  <2> QED BY <1>2, <1>3, <1>16, <2>1 DEF New, Quiet
<1>17. ASSUME NEW r \in runs, Watch(r), Quiet PROVE New'
  <2>1. edit' = edit \/ (r.job \in there /\ edit' = [kind |-> "touch", job |-> r.job, row |-> row[r.job]])
    BY <1>17 DEF Watch, Read
  <2>2. ASSUME r.job \in there, edit' = [kind |-> "touch", job |-> r.job, row |-> row[r.job]]
        PROVE  New'
    <3>1. row[r.job].next >= 1 BY <1>0, <1>1, <2>2 DEF TypeOK
    <3>2. ASSUME NEW j \in Jobs, row'[j].next = 0 PROVE Unmade(j)'
      <4>1. j # r.job BY <1>17, <3>1, <3>2 DEF Quiet
      <4> QED BY <1>17, <2>2, <3>2, <4>1, StaysUnmade DEF Quiet
    <3> QED BY <1>3, <1>17, <2>2, <3>1, <3>2 DEF New, Quiet
  <2> QED BY <1>16, <1>17, <2>1, <2>2
<1> QED
  BY <1>4, <1>5, <1>7, <1>8, <1>9, <1>10, <1>11, <1>12, <1>14, <1>15, <1>16, <1>17, QuietEdits

LEMMA NextFired == FiredInv /\ [Next]_vars => FiredInv'
<1>1. ASSUME FiredInv, Next PROVE FiredInv'
  <2>1. TypeOK' BY <1>1, NextTypes DEF FiredInv
  <2> QED BY <1>1, <2>1, NextRoom, NextTurning, NextAhead, NextNew DEF FiredInv
<1>2. ASSUME FiredInv, UNCHANGED vars PROVE FiredInv'
  <2>1. UNCHANGED <<there, row, now, edit, todo, date, mark, fired, again>>
    BY <1>2 DEF vars, jobs, loop, history
  <2>2. TypeOK' BY <1>2, NextTypes DEF FiredInv
  <2> QED
    BY <1>2, <2>1, <2>2
    DEF FiredInv, Ahead, New, Unmade, Turning, Room, Free, From, Low, Sent
<1> QED BY <1>1, <1>2

LEMMA FiredOnce == FiredInv => OncePerTime
<1> SUFFICES ASSUME FiredInv, NEW j \in Jobs, NEW d \in Times
             PROVE  fired[j][d] <= 1 + again[j]
  BY DEF OncePerTime
<1>1. fired[j][d] + 0 <= again[j] + 1 BY DEF FiredInv, Room
<1> QED BY <1>1, Values DEF FiredInv

\* A job sets its session one goal for each of its times: one more only after a
\* stop or a failed write between sending a goal and writing it down, an update
\* that wrote an older row back, or somebody turning the job on again.
THEOREM OneGoalPerTime == Spec => []OncePerTime
<1> QED BY InitFired, NextFired, FiredOnce, PTL DEF Spec
=============================================================================

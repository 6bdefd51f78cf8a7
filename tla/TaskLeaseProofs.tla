-------------------------- MODULE TaskLeaseProofs --------------------------
(***************************************************************************)
(* Theorems about TaskLease, for any number of tasks, agents, sessions,    *)
(* lanes and handlers.                                                     *)
(***************************************************************************)
EXTENDS TaskLease, FiniteSetTheorems, TLAPS

(***************************************************************************)
(* A handler in flight has a task, and one about to seat the receiver of   *)
(* a turn knows who that is.                                               *)
(***************************************************************************)
Seating == {"holder", "seat"}
Sound(h) == /\ h.at # "idle" => h.task \in Tasks
            /\ h.at \in Seating \/ h.next \in Seating => h.agent \in Agents
            /\ h.at = "back" => h.next = "idle"
Engaged == \A p \in Procs : Sound(proc[p])

TypeInv == TypeOK /\ Engaged

TasksOK == task \in [Tasks -> Task]
RosterOK == roster \in [Tasks -> [Agents -> Member]]
LeasesOK == /\ lease \in [Tasks -> Lease]
            /\ last \in [Tasks -> Nat]
            /\ issued \in [Sessions -> Nat]
            /\ lanes \in [Lanes -> Lane]
HandoffsOK == handoffs \in [Tasks -> SUBSET Handover]
HandlersOK == proc \in [Procs -> Handler] /\ Engaged

LEMMA Parts == TypeInv <=> TasksOK /\ RosterOK /\ LeasesOK /\ HandoffsOK /\ HandlersOK
  BY DEF TypeInv, TypeOK, TasksOK, RosterOK, LeasesOK, HandoffsOK, HandlersOK

LEMMA PartsNext ==
  ASSUME TasksOK', RosterOK', LeasesOK', HandoffsOK', HandlersOK'
  PROVE  TypeInv'
  BY DEF TypeInv, TypeOK, TasksOK, RosterOK, LeasesOK, HandoffsOK, HandlersOK

LEMMA HolderType == \A t : Holder(t) \in AnyAgent
  BY DEF Holder, First, Active, AnyAgent

-----------------------------------------------------------------------------
(* Handlers.                                                               *)

LEMMA IdleType == Idle \in Handler
  BY DEF Idle, Handler, Steps, AnyAgent, AnySession

LEMMA OnType ==
  ASSUME TypeInv, NEW p \in Procs, NEW step, step # "idle", At(p, step)
  PROVE  On(p) \in Tasks
  BY DEF TypeInv, Engaged, Sound, At, On

LEMMA SetType ==
  ASSUME TypeInv, NEW p \in Procs, NEW h \in Handler, Sound(h), proc' = [proc EXCEPT ![p] = h]
  PROVE  HandlersOK'
  BY DEF TypeInv, TypeOK, Engaged, HandlersOK

LEMMA ReturnType ==
  ASSUME TypeInv, NEW p \in Procs, Return(p) PROVE HandlersOK'
  BY SetType, IdleType DEF Return, Idle, Sound, Seating

LEMMA CallType ==
  ASSUME TypeInv, NEW t \in Tasks, NEW step \in Steps
  PROVE  /\ Call(t, step) \in Handler /\ Call(t, step).task = t
         /\ Call(t, step).at = step /\ Call(t, step).next = "idle"
  <1>1. task[t].session \in AnySession
    BY DEF TypeInv, TypeOK, Task, AnySession
  <1> QED BY <1>1, IdleType DEF Call, Idle, Handler

LEMMA StartType ==
  ASSUME TypeInv, NEW p \in Procs, NEW h \in Handler, Sound(h), Start(p, h)
  PROVE  HandlersOK'
  BY SetType DEF Start

LEMMA GotoType ==
  ASSUME TypeInv, NEW p \in Procs, NEW from, from # "idle", At(p, from),
         NEW step \in Steps, step \in Seating => from \in Seating,
         step # "back", Goto(p, step)
  PROVE  HandlersOK'
  <1> DEFINE h == proc[p]
             n == [h EXCEPT !.at = step]
  <1>1. h \in Handler /\ h.task \in Tasks /\ Sound(h) /\ h.at = from
    BY OnType DEF On, At, TypeInv, TypeOK, Engaged
  <1>2. proc' = [proc EXCEPT ![p] = n] BY DEF Goto
  <1> HIDE DEF h
  <1>3. n \in Handler /\ Sound(n) BY <1>1 DEF Handler, Sound
  <1> HIDE DEF n
  <1> QED BY <1>2, <1>3, SetType

LEMMA ContinueType ==
  ASSUME TypeInv, NEW p \in Procs, NEW from, from # "idle", At(p, from), Continue(p)
  PROVE  HandlersOK'
  <1>1. CASE proc[p].next = "idle" BY <1>1, ReturnType DEF Continue
  <1>2. CASE proc[p].next # "idle"
    <2> DEFINE h == proc[p]
               n == [h EXCEPT !.at = h.next, !.next = "idle"]
    <2>1. h \in Handler /\ h.task \in Tasks /\ Sound(h)
      BY OnType DEF On, TypeInv, TypeOK, Engaged
    <2>2. proc' = [proc EXCEPT ![p] = n] BY <1>2 DEF Continue
    <2> HIDE DEF h
    <2>3. n \in Handler /\ Sound(n) BY <2>1, ZenonT(60) DEF Handler, Steps, Sound, Seating
    <2> HIDE DEF n
    <2> QED BY <2>2, <2>3, SetType
  <1> QED BY <1>1, <1>2

-----------------------------------------------------------------------------
(* Rows of tasks and rosters.                                              *)

LEMMA SetTaskType ==
  ASSUME TypeInv, NEW t, NEW row \in Task, SetTask(t, row)
  PROVE  TasksOK'
  BY DEF SetTask, TypeInv, TypeOK, TasksOK

LEMMA SetRosterType ==
  ASSUME TypeInv, NEW t, NEW r \in [Agents -> Member], SetRoster(t, r)
  PROVE  RosterOK'
  BY DEF SetRoster, TypeInv, TypeOK, RosterOK

LEMMA SeatType ==
  ASSUME TypeInv, NEW t \in Tasks, NEW a, NEW s,
         a \in Agents => s \in AnySession,
         roster' = [roster EXCEPT ![t][a].seat = s]
  PROVE  RosterOK'
  <1>1. roster[t] \in [Agents -> Member] BY DEF TypeInv, TypeOK
  <1>2. [roster[t] EXCEPT ![a] = [roster[t][a] EXCEPT !.seat = s]] \in [Agents -> Member]
    <2>1. CASE a \in Agents
      <3>1. [roster[t][a] EXCEPT !.seat = s] \in Member BY <1>1, <2>1 DEF Member
      <3> QED BY <1>1, <3>1
    <2>2. CASE a \notin Agents BY <1>1, <2>2
    <2> QED BY <2>1, <2>2
  <1>3. SetRoster(t, [roster[t] EXCEPT ![a] = [roster[t][a] EXCEPT !.seat = s]])
    BY DEF SetRoster
  <1> QED BY <1>2, <1>3, SetRosterType

\* add_task_agent_full leaves a roster, whoever joins and however.
LEMMA JoinedType ==
  ASSUME NEW r \in [Agents -> Member], NEW a, NEW seat \in AnySession,
         NEW status \in {"offered", "waiting", "active"}
  PROVE  Joined(r, a, status, seat) \in [Agents -> Member]
  <1>1. Cardinality({c \in Agents : r[c].since > 0}) \in Nat
    BY LeaseAgents, FS_Subset, FS_CardinalityType
  <1> DEFINE n == Cardinality({c \in Agents : r[c].since > 0})
  <1> HIDE DEF n
  <1>2. SUFFICES ASSUME NEW b \in Agents PROVE Joined(r, a, status, seat)[b] \in Member
    BY DEF Joined
  <1>3. CASE b = a
    <2>1. Joined(r, a, status, seat)[b] =
            [status |-> status, on |-> TRUE,
             seat |-> IF seat # NoSession THEN seat ELSE r[a].seat,
             since |-> IF r[a].since > 0 THEN r[a].since ELSE 1 + n]
      BY <1>3 DEF Joined, n
    <2>2. r[a] \in Member /\ n \in Nat BY <1>1, <1>3 DEF n
    <2> QED BY <2>1, <2>2 DEF Member
  <1>4. CASE b # a
    BY <1>4 DEF Joined, Member
  <1> QED BY <1>3, <1>4

LEMMA PassedType ==
  ASSUME NEW r \in [Agents -> Member], NEW from, NEW to
  PROVE  Passed(r, from, to) \in [Agents -> Member]
  BY DEF Passed, Member

LEMMA RestatusType ==
  ASSUME TypeInv, NEW t \in Tasks, NEW from,
         NEW to \in {"offered", "withdrawn", "done"}, Restatus(t, from, to)
  PROVE  RosterOK'
  <1> DEFINE r == [a \in Agents |-> IF roster[t][a].on /\ roster[t][a].status = from
                     THEN [roster[t][a] EXCEPT !.status = to] ELSE roster[t][a]]
  <1>1. r \in [Agents -> Member]
    <2>1. roster[t] \in [Agents -> Member] BY DEF TypeInv, TypeOK
    <2> QED BY <2>1 DEF Member
  <1>2. SetRoster(t, r)
    BY DEF Restatus
  <1> HIDE DEF r
  <1> QED BY <1>1, <1>2, SetRosterType

-----------------------------------------------------------------------------
(* Synchronising the lease, and the lanes.                                 *)

LEMMA GrantType ==
  ASSUME TypeInv, NEW t \in Tasks, Grant(t, Holder(t))
  PROVE  LeasesOK'
  <1> DEFINE s == task[t].session
             n == issued[s] + 1
  <1>1. s \in Sessions /\ n \in Nat
    BY DEF TypeInv, TypeOK, Task
  <1>2. [agent |-> Holder(t), token |-> n] \in Lease
    BY <1>1, HolderType DEF Lease
  <1>3. /\ lease' = [lease EXCEPT ![t] = [agent |-> Holder(t), token |-> n]]
        /\ last' = [last EXCEPT ![t] = n]
        /\ issued' = [issued EXCEPT ![s] = n]
        /\ lanes' = Overtaken(t)
    BY DEF Grant
  <1>4. Overtaken(t) \in [Lanes -> Lane]
    BY DEF Overtaken, TypeInv, TypeOK, Lane
  <1> HIDE DEF s, n
  <1> QED BY <1>1, <1>2, <1>3, <1>4 DEF LeasesOK, TypeInv, TypeOK

LEMMA VacateType ==
  ASSUME TypeInv, NEW t \in Tasks, Vacate(t)
  PROVE  LeasesOK'
  <1>1. NoLease \in Lease BY DEF NoLease, Lease, AnyAgent
  <1>2. Overtaken(t) \in [Lanes -> Lane]
    BY DEF Overtaken, TypeInv, TypeOK, Lane
  <1> QED BY <1>1, <1>2 DEF Vacate, LeasesOK, TypeInv, TypeOK

LEMMA SyncType ==
  ASSUME TypeInv, NEW t \in Tasks, SyncLease(t)
  PROVE  LeasesOK'
  <1>1. CASE Grant(t, Holder(t)) BY <1>1, GrantType
  <1>2. CASE Vacate(t) BY <1>2, VacateType
  <1>3. CASE UNCHANGED leaseVars BY <1>3 DEF leaseVars, LeasesOK, TypeInv, TypeOK
  <1> QED BY <1>1, <1>2, <1>3 DEF SyncLease

LEMMA LaneType ==
  ASSUME TypeInv, NEW l \in Lanes, Land(l) \/ \E t \in Tasks : Launch(l, t)
  PROVE  LeasesOK'
  <1>1. NoLane \in Lane BY DEF NoLane, Lane
  <1>2. \A t \in Tasks : [task |-> t, token |-> lease[t].token, moved |-> FALSE] \in Lane
    BY DEF TypeInv, TypeOK, Lease, Lane
  <1> QED BY <1>1, <1>2 DEF Land, Launch, LeasesOK, TypeInv, TypeOK

LEMMA LeasesKept == ASSUME TypeInv, UNCHANGED leaseVars PROVE LeasesOK'
  BY DEF leaseVars, LeasesOK, TypeInv, TypeOK
LEMMA TasksKept == ASSUME TypeInv, UNCHANGED task PROVE TasksOK'
  BY DEF TasksOK, TypeInv, TypeOK
LEMMA RosterKept == ASSUME TypeInv, UNCHANGED roster PROVE RosterOK'
  BY DEF RosterOK, TypeInv, TypeOK
LEMMA HandoffsKept == ASSUME TypeInv, UNCHANGED handoffs PROVE HandoffsOK'
  BY DEF HandoffsOK, TypeInv, TypeOK
LEMMA HandlersKept == ASSUME TypeInv, UNCHANGED proc PROVE HandlersOK'
  BY DEF HandlersOK, TypeInv, TypeOK, Engaged

-----------------------------------------------------------------------------
(* One lemma per group of actions that write the same tables.              *)

\* Starting an operation leaves all tables but, for some, the task's row.
LEMMA BeginType ==
  ASSUME TypeInv, NEW p \in Procs, NEW t \in Tasks, Operation(p, t)
  PROVE  TypeInv'
  <1> USE TasksKept, RosterKept, LeasesKept, HandoffsKept, PartsNext
  <1>1. task[t] \in Task
    BY DEF TypeInv, TypeOK
  <1>2. CASE Dispatch(p, t)
    <2>1. [task[t] EXCEPT !.state = "in_progress", !.reporting = task[t].session] \in Task
      BY <1>1 DEF Task, AnySession
    <2> QED BY <1>2, <2>1, SetTaskType, StartType, CallType DEF Dispatch, Steps, Sound, Seating
  <1>3. CASE BeginRequeue(p, t)
    BY <1>3, StartType, CallType DEF BeginRequeue, Steps, Sound, Seating
  <1>4. CASE Finish(p, t)
    <2>1. [task[t] EXCEPT !.state = "over", !.reporting = NoSession] \in Task
      BY <1>1 DEF Task, AnySession
    <2> QED BY <1>4, <2>1, SetTaskType, StartType, CallType DEF Finish, Steps, Sound, Seating
  <1>5. CASE Revise(p, t)
    <2>1. [task[t] EXCEPT !.state = "in_progress", !.reporting = task[t].session] \in Task
      BY <1>1 DEF Task, AnySession
    <2> QED BY <1>5, <2>1, SetTaskType, StartType, CallType DEF Revise, Steps, Sound, Seating
  <1>6. ASSUME NEW s \in Sessions, Deliver(p, t, s) PROVE TypeInv'
    <2>1. [task[t] EXCEPT !.state = "in_progress", !.session = s, !.reporting = s] \in Task
      BY <1>1 DEF Task, AnySession
    <2> DEFINE c == Call(t, "worker")
               h == [c EXCEPT !.seat = s, !.as = "active", !.home = s, !.next = "ledger"]
    <2>2. c \in Handler /\ c.task = t /\ c.at = "worker" /\ c.next = "idle"
      BY CallType DEF Steps
    <2>3. Start(p, h) BY <1>6 DEF Deliver
    <2> HIDE DEF c
    <2>4. h \in Handler /\ Sound(h) BY <2>2 DEF AnySession, Handler, Steps, Sound, Seating
    <2> HIDE DEF h
    <2>5. HandlersOK' BY <2>3, <2>4, StartType
    <2> QED BY <1>6, <2>1, <2>5, SetTaskType DEF Deliver
  <1>7. ASSUME NEW a \in Agents, BeginAssign(p, t, a) PROVE TypeInv'
    <2> DEFINE c == Call(t, "join")
    <2>1. c \in Handler /\ c.task = t /\ c.at = "join" /\ c.next = "idle"
      BY CallType DEF Steps
    <2>2. PICK status \in {"active", "waiting", "offered"} :
            Start(p, [c EXCEPT !.agent = a, !.as = status])
      BY <1>7 DEF BeginAssign
    <2> HIDE DEF c
    <2> DEFINE h == [c EXCEPT !.agent = a, !.as = status]
    <2>3. h \in Handler /\ Sound(h) BY <2>1 DEF AnyAgent, Handler, Sound, Seating
    <2> HIDE DEF h
    <2>4. HandlersOK' BY <2>2, <2>3, StartType DEF h
    <2> QED BY <1>7, <2>4 DEF BeginAssign
  <1>8. ASSUME NEW a \in Agents, BeginClaim(p, t, a) PROVE TypeInv'
    <2> DEFINE c == Call(t, "join")
               h == [c EXCEPT !.agent = a, !.as = "active", !.next = "requeue"]
    <2>1. c \in Handler /\ c.task = t /\ c.at = "join" /\ c.next = "idle"
      BY CallType DEF Steps
    <2>2. Start(p, h) BY <1>8 DEF BeginClaim
    <2> HIDE DEF c
    <2>3. h \in Handler /\ Sound(h) BY <2>1 DEF AnyAgent, Steps, Handler, Sound, Seating
    <2> HIDE DEF h
    <2>4. HandlersOK' BY <2>2, <2>3, StartType
    <2> QED BY <1>8, <2>4 DEF BeginClaim
  <1>9. ASSUME NEW a \in Agents, BeginPass(p, t, a) PROVE TypeInv'
    <2> DEFINE c == Call(t, "holder")
               call == [c EXCEPT !.agent = a, !.from = Holder(t)]
               invite == [call EXCEPT !.at = "join", !.next = "holder"]
    <2>1. c \in Handler /\ c.task = t /\ c.at = "holder" /\ c.next = "idle"
      BY CallType DEF Steps
    <2>2. Start(p, call) \/ Start(p, invite) BY <1>9 DEF BeginPass
    <2> HIDE DEF c
    <2>3. call \in Handler /\ Sound(call) /\ call.agent = a /\ call.task = t BY <2>1, HolderType DEF AnyAgent, Handler, Sound, Seating
    <2> HIDE DEF call
    <2>4. invite \in Handler /\ Sound(invite) BY <2>3, ZenonT(60) DEF Steps, Handler, Sound, Seating
    <2> HIDE DEF invite
    <2>5. HandlersOK' BY <2>2, <2>3, <2>4, StartType
    <2> QED BY <1>9, <2>5 DEF BeginPass
  <1>10. ASSUME NEW a \in Agents, NEW from \in Agents, BeginRest(p, t, from, a) PROVE TypeInv'
    <2> DEFINE step == IF task[t].state = "in_progress" THEN "holder" ELSE "transfer"
               c == Call(t, step)
               h == [c EXCEPT !.agent = a, !.from = from]
    <2>1. step \in Steps /\ step # "back" BY DEF Steps
    <2>2. Start(p, h) BY <1>10 DEF BeginRest
    <2> HIDE DEF step
    <2>3. c \in Handler /\ c.task = t /\ c.at # "back" BY <2>1, CallType
    <2> HIDE DEF c
    <2>4. h \in Handler /\ Sound(h) BY <2>3 DEF AnyAgent, Handler, Sound, Seating
    <2> HIDE DEF h
    <2>5. HandlersOK' BY <2>2, <2>4, StartType
    <2> QED BY <1>10, <2>5 DEF BeginRest
  <1>11. ASSUME NEW s \in Sessions, Edit(p, t, s) PROVE TypeInv'
    <2>1. [task[t] EXCEPT !.session = s, !.reporting = NoSession] \in Task
      BY <1>1 DEF Task, AnySession
    <2>2. TasksOK' BY <1>11, <2>1, SetTaskType DEF Edit
    <2> QED BY <1>11, <2>2, HandlersKept DEF Edit
  <1> QED BY <1>2, <1>3, <1>4, <1>5, <1>6, <1>7, <1>8, <1>9, <1>10, <1>11 DEF Operation

\* The steps that write the roster.
LEMMA RosterStepType ==
  ASSUME TypeInv, NEW p \in Procs,
         Join(p) \/ Reoffer(p) \/ Settle(p) \/ SeatHolder(p) \/ Chair(p) \/ Transfer(p)
  PROVE  TypeInv'
  <1> USE TasksKept, RosterKept, LeasesKept, HandoffsKept, PartsNext
  <1> DEFINE h == proc[p]
             t == On(p)
  <1>1. h \in Handler /\ roster \in [Tasks -> [Agents -> Member]]
    BY DEF TypeInv, TypeOK
  <1>2. h.agent \in AnyAgent /\ h.home \in AnySession /\ h.seat \in AnySession
        /\ h.as \in {"offered", "waiting", "active"}
    BY <1>1 DEF Handler
  <1>3. CASE Join(p)
    <2>1. t \in Tasks BY <1>3, OnType DEF Join
    <2>2. Joined(roster[t], h.agent, h.as, h.seat) \in [Agents -> Member]
      BY <1>1, <1>2, <2>1, JoinedType
    <2>3. RosterOK' BY <1>3, <2>2, SetRosterType DEF Join
    <2>4. HandlersOK' BY <1>3, GotoType, ContinueType DEF Join, Steps, Seating
    <2> QED BY <1>3, <2>3, <2>4 DEF Join
  <1>4. CASE Reoffer(p)
    <2>1. t \in Tasks BY <1>4, OnType DEF Reoffer
    <2> QED BY <1>4, <2>1, RestatusType, ReturnType DEF Reoffer
  <1>5. CASE Settle(p)
    <2>1. t \in Tasks BY <1>5, OnType DEF Settle
    <2> QED BY <1>5, <2>1, RestatusType, ReturnType DEF Settle
  <1>6. CASE SeatHolder(p)
    <2>1. t \in Tasks BY <1>6, OnType DEF SeatHolder
    <2>2. HandlersOK' BY <1>6, GotoType DEF SeatHolder, Steps, Seating
    <2>3. CASE Holder(t) = NoAgent
      BY <1>6, <2>2, <2>3 DEF SeatHolder
    <2>4. CASE Holder(t) # NoAgent
      <3> DEFINE s == IF roster[t][Holder(t)].seat = NoSession THEN h.home
                      ELSE roster[t][Holder(t)].seat
      <3>1. Holder(t) \in Agents BY <2>4, HolderType DEF AnyAgent
      <3>2. s \in AnySession BY <1>1, <1>2, <2>1, <3>1 DEF Member
      <3>3. roster' = [roster EXCEPT ![t][Holder(t)].seat = s]
        BY <1>6, <2>4 DEF SeatHolder
      <3> HIDE DEF s
      <3>4. RosterOK' BY <2>1, <3>2, <3>3, SeatType
      <3> QED BY <1>6, <2>2, <3>4 DEF SeatHolder
    <2> QED BY <2>3, <2>4
  <1>7. CASE Chair(p)
    <2>1. t \in Tasks BY <1>7, OnType DEF Chair
    <2>2. PICK s \in Sessions :
            /\ roster' = [roster EXCEPT ![t][h.agent].seat =
                            IF roster[t][h.agent].on THEN s ELSE @]
            /\ proc' = [proc EXCEPT ![p] = [@ EXCEPT !.at = "check", !.seat = s]]
      BY <1>7 DEF Chair, Fresh
    <2> DEFINE x == IF roster[t][h.agent].on THEN s ELSE roster[t][h.agent].seat
    <2>3. h.agent \in Agents => x \in AnySession
      BY <1>1, <2>1 DEF Member, AnySession
    <2>4. roster' = [roster EXCEPT ![t][h.agent].seat = x] BY <2>2
    <2> HIDE DEF x
    <2>5. RosterOK' BY <2>1, <2>3, <2>4, SeatType
    <2>6. h.task \in Tasks /\ Sound(h) /\ proc' = [proc EXCEPT ![p] = [h EXCEPT !.at = "check", !.seat = s]]
      BY <2>1, <2>2 DEF On, TypeInv, Engaged
    <2> HIDE DEF h
    <2> DEFINE n == [h EXCEPT !.at = "check", !.seat = s]
    <2>7. n \in Handler
      BY <1>1 DEF Handler, Steps, AnySession
    <2>8. Sound(n)
      BY <1>1, <2>6 DEF Handler, Sound, Seating
    <2> HIDE DEF n
    <2>9. HandlersOK' BY <2>6, <2>7, <2>8, SetType DEF n
    <2> QED BY <1>7, <2>5, <2>9 DEF Chair
  <1>8. CASE Transfer(p)
    <2>1. t \in Tasks BY <1>8, OnType DEF Transfer
    <2>2. Passed(roster[t], h.from, h.agent) \in [Agents -> Member]
      BY <1>1, <2>1, PassedType
    <2>3. RosterOK' BY <1>8, <2>2, SetRosterType DEF Transfer
    <2>4. HandlersOK' BY <1>8, GotoType, ReturnType DEF Transfer, Steps, Seating
    <2> QED BY <1>8, <2>3, <2>4 DEF Transfer
  <1> QED BY <1>3, <1>4, <1>5, <1>6, <1>7, <1>8

\* The steps that leave the roster alone.
LEMMA OtherStepType ==
  ASSUME TypeInv, NEW p \in Procs,
         \/ Sync(p) \/ Ledger(p) \/ Requeue(p) \/ Back(p) \/ Worker(p) \/ Seat(p)
         \/ Check(p) \/ Insert(p) \/ Ack(p) \/ Mark(p) \/ Report(p) \/ Stop(p)
  PROVE  TypeInv'
  <1> USE TasksKept, RosterKept, LeasesKept, HandoffsKept, PartsNext
  <1> DEFINE h == proc[p]
             t == On(p)
  <1>1. h \in Handler /\ task \in [Tasks -> Task]
    BY DEF TypeInv, TypeOK
  <1>2. h.agent \in AnyAgent /\ h.from \in AnyAgent /\ h.home \in AnySession
        /\ h.seat \in AnySession
    BY <1>1 DEF Handler
  <1>3. CASE Sync(p)
    <2>1. t \in Tasks BY <1>3, OnType DEF Sync
    <2>2. LeasesOK' BY <1>3, <2>1, SyncType DEF Sync
    <2>3. HandlersOK' BY <1>3, ContinueType DEF Sync
    <2> QED BY <1>3, <2>2, <2>3 DEF Sync
  <1>4. CASE Ledger(p)
    <2>1. t \in Tasks BY <1>4, OnType DEF Ledger
    <2>2. HandlersOK' BY <1>4, ReturnType DEF Ledger
    <2>3. CASE task[t].turned \/ Holder(t) = NoAgent
      BY <1>4, <2>2, <2>3 DEF Ledger
    <2>4. CASE ~(task[t].turned \/ Holder(t) = NoAgent)
      <3> DEFINE s == IF roster[t][Holder(t)].seat = NoSession THEN h.home
                      ELSE roster[t][Holder(t)].seat
      <3>1. Holder(t) \in Agents BY <2>4, HolderType DEF AnyAgent
      <3>2. s \in AnySession BY <1>2, <2>1, <3>1 DEF Member, TypeInv, TypeOK
      <3>3. /\ roster' = [roster EXCEPT ![t][Holder(t)].seat = s]
            /\ SetTask(t, [task[t] EXCEPT !.turned = TRUE])
        BY <1>4, <2>4 DEF Ledger
      <3> HIDE DEF s
      <3>4. RosterOK' BY <2>1, <3>2, <3>3, SeatType
      <3>5. [task[t] EXCEPT !.turned = TRUE] \in Task BY <1>1, <2>1 DEF Task
      <3>6. TasksOK' BY <3>3, <3>5, SetTaskType
      <3> QED BY <1>4, <2>2, <3>4, <3>6 DEF Ledger
    <2> QED BY <2>3, <2>4
  <1>5. CASE Requeue(p)
    <2>1. t \in Tasks BY <1>5, OnType DEF Requeue
    <2>2. [task[t] EXCEPT !.state = "todo", !.reporting = NoSession] \in Task
      BY <1>1, <2>1 DEF Task, AnySession
    <2>3. TasksOK' BY <1>5, <2>2, SetTaskType DEF Requeue
    <2>4. HandlersOK' BY <1>5, GotoType, ReturnType DEF Requeue, Steps, Seating
    <2> QED BY <1>5, <2>3, <2>4 DEF Requeue
  <1>6. CASE Back(p)
    <2>1. t \in Tasks BY <1>6, OnType DEF Back
    <2> DEFINE a == Holder(t)
               s == WorkingSession(t, h.home)
    <2>2. a \in AnyAgent BY HolderType
    <2>3. s \in AnySession
      BY <1>2, <2>1, HolderType DEF WorkingSession, AnyAgent, Member, TypeInv, TypeOK
    <2>4. proc' = [proc EXCEPT ![p] = [h EXCEPT !.at = "report", !.agent = a, !.seat = s]]
      BY <1>6 DEF Back
    <2>5. h.task \in Tasks /\ h.next = "idle"
      BY <1>6, <2>1 DEF Back, At, On, TypeInv, Engaged, Sound
    <2> HIDE DEF h, a, s
    <2>6. /\ [h EXCEPT !.at = "report", !.agent = a, !.seat = s] \in Handler
          /\ Sound([h EXCEPT !.at = "report", !.agent = a, !.seat = s])
      BY <1>1, <2>2, <2>3, <2>5 DEF Handler, Steps, Sound, Seating
    <2>7. HandlersOK' BY <2>4, <2>6, SetType
    <2> QED BY <1>6, <2>7 DEF Back
  <1>7. CASE Worker(p)
    <2>1. h.task \in Tasks BY <1>7, OnType DEF Worker, On
    <2>2. PICK a \in Agents : proc' = [proc EXCEPT ![p] = [h EXCEPT !.at = "join", !.agent = a]]
      BY <1>7 DEF Worker
    <2> HIDE DEF h
    <2>3. /\ [h EXCEPT !.at = "join", !.agent = a] \in Handler
          /\ Sound([h EXCEPT !.at = "join", !.agent = a])
      BY <1>1, <2>1, ZenonT(60) DEF Handler, Steps, AnyAgent, Sound, Seating
    <2>4. HandlersOK' BY <2>2, <2>3, SetType
    <2> QED BY <1>7, <2>4 DEF Worker
  <1>8. CASE Seat(p)
    <2> DEFINE s == roster[t][h.agent].seat
               join == [h EXCEPT !.at = "join", !.next = "chair"]
               chair == [h EXCEPT !.at = "chair"]
               check == [h EXCEPT !.at = "check", !.seat = s]
    <2>1. h.task \in Tasks /\ Sound(h) /\ h.agent \in Agents
      BY <1>8, OnType DEF Seat, At, On, TypeInv, Engaged, Sound, Seating
    <2>2. s \in AnySession
      BY <2>1 DEF On, Member, TypeInv, TypeOK
    <2>3. \E n \in {join, chair, check} : proc' = [proc EXCEPT ![p] = n]
      BY <1>8 DEF Seat
    <2> HIDE DEF h, s
    <2>4. join \in Handler /\ Sound(join)
      BY <1>1, <2>1, ZenonT(60) DEF Handler, Steps, Sound, Seating
    <2>5. chair \in Handler /\ Sound(chair)
      BY <1>1, <2>1 DEF Handler, Steps, Sound, Seating
    <2>6. check \in Handler /\ Sound(check)
      BY <1>1, <2>1, <2>2 DEF Handler, Steps, Sound, Seating
    <2> HIDE DEF join, chair, check
    <2>7. HandlersOK' BY <2>3, <2>4, <2>5, <2>6, SetType
    <2> QED BY <1>8, <2>7 DEF Seat
  <1>9. CASE Check(p)
    <2>1. HandlersOK' BY <1>9, GotoType, ReturnType DEF Check, Steps, Seating
    <2> QED BY <1>9, <2>1 DEF Check
  <1>10. CASE Insert(p)
    <2>1. t \in Tasks BY <1>10, OnType DEF Insert
    <2>2. [by |-> p, from |-> h.from, to |-> h.agent] \in Handover
      BY <1>2 DEF Handover
    <2>3. HandoffsOK' BY <1>10, <2>1, <2>2 DEF Insert, HandoffsOK, TypeInv, TypeOK
    <2>4. HandlersOK' BY <1>10, GotoType DEF Insert, Steps, Seating
    <2> QED BY <1>10, <2>3, <2>4 DEF Insert
  <1>11. CASE Ack(p)
    <2>1. t \in Tasks /\ h.task \in Tasks BY <1>11, OnType DEF Ack, On
    <2>2. CASE Return(p) BY <1>11, <2>2, ReturnType DEF Ack
    <2>3. CASE ~Return(p)
      <3>1. PICK g \in handoffs[t] :
              proc' = [proc EXCEPT ![p] = [h EXCEPT !.at = "transfer", !.next = "mark",
                                            !.from = g.from, !.hand = g.by]]
        BY <1>11, <2>3 DEF Ack
      <3>2. g.from \in AnyAgent /\ g.by \in Procs
        BY <2>1 DEF TypeInv, TypeOK, Handover
      <3> DEFINE n == [h EXCEPT !.at = "transfer", !.next = "mark", !.from = g.from, !.hand = g.by]
      <3> HIDE DEF h
      <3>3. n \in Handler /\ Sound(n)
        BY <1>1, <2>1, <3>2, ZenonT(60) DEF Handler, Steps, Sound, Seating
      <3> HIDE DEF n
      <3>4. HandlersOK' BY <3>1, <3>3, SetType DEF n
      <3> QED BY <1>11, <3>4 DEF Ack
    <2> QED BY <2>2, <2>3
  <1>12. CASE Mark(p)
    <2>1. t \in Tasks BY <1>12, OnType DEF Mark
    <2>2. HandoffsOK' BY <1>12, <2>1 DEF Mark, HandoffsOK, TypeInv, TypeOK
    <2>3. HandlersOK' BY <1>12, GotoType DEF Mark, Steps, Seating
    <2> QED BY <1>12, <2>2, <2>3 DEF Mark
  <1>13. CASE Report(p)
    <2>1. t \in Tasks BY <1>13, OnType DEF Report
    <2>2. [task[t] EXCEPT !.reporting = h.seat, !.turned = @ \/ h.agent # NoAgent] \in Task
      BY <1>1, <1>2, <2>1 DEF Task
    <2>3. TasksOK' BY <1>13, <2>2, SetTaskType DEF Report
    <2>4. HandlersOK' BY <1>13, ReturnType DEF Report
    <2> QED BY <1>13, <2>3, <2>4 DEF Report
  <1>14. CASE Stop(p)
    BY <1>14, ReturnType DEF Stop
  <1> QED BY <1>3, <1>4, <1>5, <1>6, <1>7, <1>8, <1>9, <1>10, <1>11, <1>12, <1>13, <1>14

LEMMA LeaveType ==
  ASSUME TypeInv, NEW t \in Tasks, NEW a \in Agents, Leave(t, a) PROVE TypeInv'
  <1>1. roster[t] \in [Agents -> Member] BY DEF TypeInv, TypeOK
  <1> DEFINE m == [roster[t][a] EXCEPT !.on = FALSE]
             r == [roster[t] EXCEPT ![a] = m]
  <1>2. m \in Member BY <1>1 DEF Member
  <1>3. roster' = [roster EXCEPT ![t] = r] BY DEF Leave
  <1> HIDE DEF m
  <1>4. r \in [Agents -> Member] BY <1>1, <1>2
  <1> HIDE DEF r
  <1>5. RosterOK' BY <1>3, <1>4, SetRosterType DEF SetRoster
  <1> QED BY <1>5, TasksKept, LeasesKept, HandoffsKept, HandlersKept, PartsNext DEF Leave

-----------------------------------------------------------------------------
(* Every row, lease, lane and handler keeps the shape the code gives it,   *)
(* and no handler in flight loses its task or the member it seats.         *)
THEOREM LeaseTyping == Spec => []TypeInv
  <1>1. Init => TypeInv
    <2> SUFFICES ASSUME Init PROVE TypeInv
      OBVIOUS
    <2>1. TasksOK
      <3> DEFINE rows == {[state |-> "todo", session |-> s, reporting |-> NoSession,
                           turned |-> FALSE] : s \in Sessions}
      <3>1. ASSUME NEW row \in rows PROVE row \in Task
        <4>1. PICK s \in Sessions : row = [state |-> "todo", session |-> s,
                                           reporting |-> NoSession, turned |-> FALSE]
          OBVIOUS
        <4> QED BY <4>1 DEF Task, AnySession
      <3>2. task \in [Tasks -> rows] BY DEF Init
      <3> HIDE DEF rows
      <3> QED BY <3>1, <3>2 DEF TasksOK
    <2>2. Absent \in Member /\ NoLease \in Lease /\ NoLane \in Lane
      BY DEF Absent, Member, AnySession, NoLease, Lease, AnyAgent, NoLane, Lane
    <2>3. RosterOK /\ LeasesOK /\ HandoffsOK
      BY <2>2 DEF Init, RosterOK, LeasesOK, HandoffsOK
    <2>4. Sound(Idle)
      BY DEF Sound, Seating, Idle
    <2>5. HandlersOK
      BY <2>4, IdleType DEF Init, HandlersOK, Engaged
    <2> QED BY <2>1, <2>3, <2>5, Parts
  <1>2. TypeInv /\ [Next]_vars => TypeInv'
    <2> SUFFICES ASSUME TypeInv, [Next]_vars PROVE TypeInv'
      OBVIOUS
    <2>1. CASE \E p \in Procs : Step(p)
      BY <2>1, RosterStepType, OtherStepType DEF Step
    <2>2. CASE \E p \in Procs, t \in Tasks : Operation(p, t)
      BY <2>2, BeginType
    <2>3. ASSUME NEW t \in Tasks, ReadLease(t) PROVE TypeInv'
      <3>1. LeasesOK' BY <2>3, SyncType DEF ReadLease
      <3> QED BY <2>3, <3>1, TasksKept, RosterKept, HandoffsKept, HandlersKept, PartsNext
        DEF ReadLease
    <2>4. CASE \E t \in Tasks, a \in Agents : Leave(t, a)
      BY <2>4, LeaveType
    <2>5. ASSUME NEW l \in Lanes, Land(l) \/ \E t \in Tasks : Launch(l, t) PROVE TypeInv'
      <3>1. LeasesOK' BY <2>5, LaneType
      <3> QED BY <2>5, <3>1, TasksKept, RosterKept, HandoffsKept, HandlersKept, PartsNext
        DEF Land, Launch
    <2>6. CASE UNCHANGED vars
      BY <2>6, TasksKept, RosterKept, LeasesKept, HandoffsKept, HandlersKept, PartsNext
      DEF vars, leaseVars
    <2> QED BY <2>1, <2>2, <2>3, <2>4, <2>5, <2>6 DEF Next
  <1> QED BY <1>1, <1>2, PTL DEF Spec

\* The type invariant the runs check.
THEOREM LeaseTypeCorrect == Spec => []TypeOK
  BY LeaseTyping, PTL DEF TypeInv

-----------------------------------------------------------------------------
(* Tokens.  While no task changes its session, the tokens of a task are    *)
(* drawn from one counter, whatever else draws from it.                    *)

\* What moves a task to another session.
Rebinding == {"edit", "deliver"}

LEMMA SessionKept ==
  ASSUME TypeInv, NEW t \in Tasks, NEW row, row.session = task[t].session, SetTask(t, row)
  PROVE  \A u \in Tasks : task'[u].session = task[u].session
  BY DEF SetTask, TypeInv, TypeOK

SessionsStay == \A u \in Tasks : task'[u].session = task[u].session

\* Only synchronising a task moves its lease, and the lanes come and go.
LEMMA LeaseWrites ==
  ASSUME TypeInv, Ops \cap Rebinding = {}, [Next]_vars
  PROVE  /\ SessionsStay
         /\ \/ \E t \in Tasks : SyncLease(t)
            \/ UNCHANGED leaseVars
            \/ \E l \in Lanes : Land(l) \/ \E t \in Tasks : Launch(l, t)
  <1> USE DEF SessionsStay
  <1>1. ASSUME NEW p \in Procs, Step(p)
        PROVE  SessionsStay /\ ((\E t \in Tasks : SyncLease(t)) \/ UNCHANGED leaseVars)
    <2>1. CASE Sync(p)
      BY <2>1, OnType DEF Sync
    <2>2. CASE Requeue(p)
      <3>1. On(p) \in Tasks BY <2>2, OnType DEF Requeue
      <3>2. [task[On(p)] EXCEPT !.state = "todo", !.reporting = NoSession].session
              = task[On(p)].session
        BY <3>1 DEF TypeInv, TypeOK, Task
      <3> QED BY <2>2, <3>1, <3>2, SessionKept DEF Requeue
    <2>3. CASE Ledger(p)
      <3>1. On(p) \in Tasks BY <2>3, OnType DEF Ledger
      <3>2. [task[On(p)] EXCEPT !.turned = TRUE].session = task[On(p)].session
        BY <3>1 DEF TypeInv, TypeOK, Task
      <3> QED BY <2>3, <3>1, <3>2, SessionKept DEF Ledger
    <2>4. CASE Report(p)
      <3>1. On(p) \in Tasks BY <2>4, OnType DEF Report
      <3>2. [task[On(p)] EXCEPT !.reporting = proc[p].seat,
               !.turned = @ \/ proc[p].agent # NoAgent].session = task[On(p)].session
        BY <3>1 DEF TypeInv, TypeOK, Task
      <3> QED BY <2>4, <3>1, <3>2, SessionKept DEF Report
    <2>5. CASE UNCHANGED task /\ UNCHANGED leaseVars
      BY <2>5
    <2>6. \/ Sync(p) \/ Requeue(p) \/ Ledger(p) \/ Report(p)
          \/ UNCHANGED task /\ UNCHANGED leaseVars
      BY <1>1 DEF Step, Join, Reoffer, Settle, Back, Worker, SeatHolder, Seat, Chair, Check,
                  Insert, Ack, Transfer, Mark, Stop
    <2> QED BY <2>1, <2>2, <2>3, <2>4, <2>5, <2>6
  <1>2. ASSUME NEW p \in Procs, NEW t \in Tasks, Operation(p, t)
        PROVE  SessionsStay /\ UNCHANGED leaseVars
    <2>1. \A s \in Sessions : ~Deliver(p, t, s) /\ ~Edit(p, t, s)
      BY DEF Deliver, Edit, Free, Rebinding
    <2>2. /\ [task[t] EXCEPT !.state = "in_progress", !.reporting = task[t].session].session
               = task[t].session
          /\ [task[t] EXCEPT !.state = "over", !.reporting = NoSession].session
               = task[t].session
      BY DEF TypeInv, TypeOK, Task
    <2>3. CASE Dispatch(p, t) BY <2>2, <2>3, SessionKept DEF Dispatch
    <2>4. CASE Revise(p, t) BY <2>2, <2>4, SessionKept DEF Revise
    <2>5. CASE Finish(p, t) BY <2>2, <2>5, SessionKept DEF Finish
    <2>6. \/ Dispatch(p, t) \/ Revise(p, t) \/ Finish(p, t)
          \/ UNCHANGED task /\ UNCHANGED leaseVars
      BY <1>2, <2>1 DEF Operation, BeginRequeue, BeginAssign, BeginClaim, BeginPass, BeginRest
    <2> QED BY <2>3, <2>4, <2>5, <2>6
  <1>3. ASSUME NEW t \in Tasks, ReadLease(t) \/ \E a \in Agents : Leave(t, a)
        PROVE  SessionsStay /\ (SyncLease(t) \/ UNCHANGED leaseVars)
    BY <1>3 DEF ReadLease, Leave
  <1>4. ASSUME NEW l \in Lanes, Land(l) \/ \E t \in Tasks : Launch(l, t)
        PROVE  SessionsStay
    BY <1>4 DEF Land, Launch
  <1>5. CASE UNCHANGED vars
    BY <1>5 DEF vars, leaseVars
  <1> QED BY <1>1, <1>2, <1>3, <1>4, <1>5 DEF Next

\* The task's counter is not behind its newest token, the lease held is that
\* newest one, and a lane under an earlier holder has a smaller token.
LaneBehind(l) ==
  IF lanes[l].task = NoTask THEN ~lanes[l].moved
  ELSE LET t == lanes[l].task IN
       /\ lanes[l].token <= last[t]
       /\ lanes[l].moved /\ lease[t].agent # NoAgent => lanes[l].token < last[t]

TokenInv ==
  /\ \A t \in Tasks : last[t] <= issued[task[t].session]
  /\ \A t \in Tasks : lease[t].agent # NoAgent => lease[t].token = last[t]
  /\ \A l \in Lanes : LaneBehind(l)

LEMMA TokensStep ==
  ASSUME TypeInv, TokenInv, Ops \cap Rebinding = {}, [Next]_vars
  PROVE  TokenInv'
  <1> USE LeaseNoTask
  <1>1. SessionsStay
    BY LeaseWrites
  <1>2. /\ lease \in [Tasks -> Lease] /\ last \in [Tasks -> Nat]
        /\ issued \in [Sessions -> Nat] /\ lanes \in [Lanes -> Lane]
        /\ \A t \in Tasks : task[t].session \in Sessions
    BY DEF TypeInv, TypeOK, Task
  <1>3. ASSUME NEW t \in Tasks, Grant(t, Holder(t))
        PROVE  TokenInv'
    <2> DEFINE s == task[t].session
               n == issued[s] + 1
    <2>1. /\ Holder(t) # NoAgent
          /\ lease' = [lease EXCEPT ![t] = [agent |-> Holder(t), token |-> n]]
          /\ last' = [last EXCEPT ![t] = n]
          /\ issued' = [issued EXCEPT ![s] = n]
          /\ lanes' = Overtaken(t)
      BY <1>3 DEF Grant
    <2>2. s \in Sessions /\ n \in Nat /\ last[t] < n /\ issued[s] < n
      BY <1>2 DEF TokenInv
    <2>3. \A u \in Tasks : last'[u] <= issued'[task'[u].session]
      BY <1>1, <1>2, <2>1, <2>2 DEF SessionsStay, TokenInv
    <2>4. \A u \in Tasks : lease'[u].agent # NoAgent => lease'[u].token = last'[u]
      BY <1>2, <2>1 DEF TokenInv
    <2> HIDE DEF n, s
    <2>5. ASSUME NEW l \in Lanes PROVE LaneBehind(l)'
      <3>1. lanes[l] \in Lane /\ LaneBehind(l) BY <1>2 DEF TokenInv
      <3>2. CASE lanes[l].task = t
        <4>1. lanes'[l] = [lanes[l] EXCEPT !.moved = TRUE]
          BY <2>1, <3>2 DEF Overtaken
        <4>2. lanes'[l].task = t /\ lanes'[l].token = lanes[l].token /\ lanes[l].token \in Nat
          BY <3>1, <3>2, <4>1 DEF Lane
        <4>3. last[t] \in Nat /\ lanes[l].token <= last[t] /\ last'[t] = n
          BY <1>2, <2>1, <3>1, <3>2 DEF LaneBehind
        <4>4. lanes'[l].token < last'[t]
          BY <2>2, <4>2, <4>3
        <4> QED BY <2>2, <4>2, <4>3, <4>4 DEF LaneBehind
      <3>3. CASE lanes[l].task # t
        <4>1. lanes'[l] = lanes[l] BY <2>1, <3>3 DEF Overtaken
        <4>2. \A u \in Tasks : u # t => lease'[u] = lease[u] /\ last'[u] = last[u]
          BY <1>2, <2>1
        <4>3. lanes[l].task # NoTask => lanes[l].task \in Tasks
          BY <3>1 DEF Lane
        <4> QED BY <3>1, <3>3, <4>1, <4>2, <4>3 DEF LaneBehind
      <3> QED BY <3>2, <3>3
    <2> QED BY <2>3, <2>4, <2>5 DEF TokenInv
  <1>4. ASSUME NEW t \in Tasks, Vacate(t)
        PROVE  TokenInv'
    <2>1. /\ lease' = [lease EXCEPT ![t] = NoLease]
          /\ lanes' = Overtaken(t)
          /\ last' = last /\ issued' = issued
      BY <1>4 DEF Vacate
    <2>2. lease'[t].agent = NoAgent
      BY <1>2, <2>1 DEF NoLease
    <2>3. \A u \in Tasks : u # t => lease'[u] = lease[u]
      BY <1>2, <2>1
    <2>4. \A u \in Tasks : last'[u] <= issued'[task'[u].session]
      BY <1>1, <2>1 DEF SessionsStay, TokenInv
    <2>5. \A u \in Tasks : lease'[u].agent # NoAgent => lease'[u].token = last'[u]
      BY <2>1, <2>2, <2>3 DEF TokenInv
    <2>6. ASSUME NEW l \in Lanes PROVE LaneBehind(l)'
      <3>1. lanes[l] \in Lane /\ LaneBehind(l) BY <1>2 DEF TokenInv
      <3>2. CASE lanes[l].task = t
        <4>1. lanes'[l] = [lanes[l] EXCEPT !.moved = TRUE]
          BY <2>1, <3>2 DEF Overtaken
        <4>2. lanes'[l].task = t /\ lanes'[l].token = lanes[l].token
          BY <3>1, <3>2, <4>1 DEF Lane
        <4> QED BY <2>1, <2>2, <3>1, <3>2, <4>2 DEF LaneBehind
      <3>3. CASE lanes[l].task # t
        <4>1. lanes'[l] = lanes[l] BY <2>1, <3>3 DEF Overtaken
        <4>2. lanes[l].task # NoTask => lanes[l].task \in Tasks
          BY <3>1 DEF Lane
        <4> QED BY <2>1, <2>3, <3>1, <3>3, <4>1, <4>2 DEF LaneBehind
      <3> QED BY <3>2, <3>3
    <2> QED BY <2>4, <2>5, <2>6 DEF TokenInv
  <1>5. CASE UNCHANGED leaseVars
    BY <1>1, <1>5 DEF leaseVars, TokenInv, LaneBehind, SessionsStay
  <1>6. ASSUME NEW k \in Lanes, Land(k) \/ \E t \in Tasks : Launch(k, t)
        PROVE  TokenInv'
    <2>1. UNCHANGED <<task, lease, last, issued>>
      BY <1>6 DEF Land, Launch
    <2>2. ASSUME NEW l \in Lanes, l # k PROVE LaneBehind(l)'
      <3>1. lanes'[l] = lanes[l] BY <1>2, <1>6, <2>2 DEF Land, Launch
      <3> QED BY <2>1, <3>1 DEF LaneBehind, TokenInv
    <2>3. LaneBehind(k)'
      <3>1. CASE Land(k)
        <4>1. lanes'[k] = NoLane BY <1>2, <3>1 DEF Land
        <4> QED BY <4>1 DEF LaneBehind, NoLane
      <3>2. ASSUME NEW t \in Tasks, Launch(k, t) PROVE LaneBehind(k)'
        <4>1. lanes'[k] = [task |-> t, token |-> lease[t].token, moved |-> FALSE]
          BY <1>2, <3>2 DEF Launch
        <4>2. lease[t].token = last[t] /\ last[t] \in Nat
          BY <1>2, <3>2 DEF Launch, TokenInv
        <4> QED BY <2>1, <4>1, <4>2 DEF LaneBehind
      <3> QED BY <1>6, <3>1, <3>2
    <2> QED BY <2>1, <2>2, <2>3 DEF TokenInv
  <1> QED BY <1>3, <1>4, <1>5, <1>6, LeaseWrites DEF SyncLease

LEMMA TokensKept == ASSUME Ops \cap Rebinding = {} PROVE Spec => []TokenInv
  <1>1. Init => TokenInv
    <2> SUFFICES ASSUME Init PROVE TokenInv
      OBVIOUS
    <2>1. /\ \A t \in Tasks : last[t] = 0 /\ lease[t].agent = NoAgent
          /\ \A s \in Sessions : issued[s] = 0
          /\ \A l \in Lanes : lanes[l] = NoLane
      BY DEF Init, NoLease
    <2>2. \A t \in Tasks : task[t].session \in Sessions
      <3> DEFINE rows == {[state |-> "todo", session |-> s, reporting |-> NoSession,
                           turned |-> FALSE] : s \in Sessions}
      <3>1. \A row \in rows : row.session \in Sessions OBVIOUS
      <3>2. task \in [Tasks -> rows] BY DEF Init
      <3> HIDE DEF rows
      <3> QED BY <3>1, <3>2
    <2> QED BY <2>1, <2>2 DEF TokenInv, LaneBehind, NoLane
  <1>2. TypeInv /\ TokenInv /\ [Next]_vars => TokenInv'
    BY TokensStep
  <1> QED BY <1>1, <1>2, LeaseTyping, PTL DEF Spec

(***************************************************************************)
(* A lane started before the lease changed hands does not have the token   *)
(* of the lease in force, however many tasks draw their tokens from one    *)
(* session and whoever passes the turn: provided no task is moved to       *)
(* another session.                                                        *)
(***************************************************************************)
THEOREM OldTokensRefused ==
  ASSUME Ops \cap Rebinding = {} PROVE Spec => []OldTokensAreStale
  <1>1. TypeInv /\ TokenInv => OldTokensAreStale
    <2> SUFFICES ASSUME TypeInv, TokenInv, NEW l \in Lanes, lanes[l].moved,
                        lease[lanes[l].task].agent # NoAgent
                 PROVE  lanes[l].token # lease[lanes[l].task].token
      BY DEF OldTokensAreStale
    <2>1. lanes[l] \in Lane /\ LaneBehind(l)
      BY DEF TypeInv, TypeOK, TokenInv
    <2>2. lanes[l].task \in Tasks
      BY <2>1 DEF LaneBehind, Lane
    <2>3. lanes[l].token < last[lanes[l].task] /\ last[lanes[l].task] \in Nat
      BY <2>1, <2>2, LeaseNoTask DEF LaneBehind, TypeInv, TypeOK
    <2>4. lease[lanes[l].task].token = last[lanes[l].task]
      BY <2>2 DEF TokenInv
    <2> QED BY <2>1, <2>3, <2>4 DEF Lane
  <1> QED BY <1>1, LeaseTyping, TokensKept, PTL

(***************************************************************************)
(* TaskLease implements Fencing under the same proviso: each change of     *)
(* holder comes with a token greater than any the task had.                *)
(***************************************************************************)
THEOREM TokensGrow ==
  ASSUME Ops \cap Rebinding = {} PROVE Spec => Fenced
  <1> DEFINE holder == [t \in Tasks |-> lease[t].agent]
  <1>1. Init => Promise!Init
    BY DEF Init, Promise!Init, NoLease
  <1>2. TypeInv /\ TokenInv /\ [Next]_vars => [Promise!Next]_<<holder, last>>
    <2> SUFFICES ASSUME TypeInv, TokenInv, [Next]_vars
                 PROVE  Promise!Next \/ UNCHANGED <<holder, last>>
      OBVIOUS
    <2>1. /\ lease \in [Tasks -> Lease] /\ last \in [Tasks -> Nat]
          /\ issued \in [Sessions -> Nat]
          /\ \A t \in Tasks : task[t].session \in Sessions
      BY DEF TypeInv, TypeOK, Task
    <2>2. ASSUME NEW t \in Tasks, Grant(t, Holder(t))
          PROVE  \E a \in Agents : Promise!Grant(t, a)
      <3> DEFINE a == Holder(t)
                 n == issued[task[t].session] + 1
      <3>1. /\ a # NoAgent /\ a # lease[t].agent
            /\ lease' = [lease EXCEPT ![t] = [agent |-> a, token |-> n]]
            /\ last' = [last EXCEPT ![t] = n]
        BY <2>2 DEF Grant
      <3>2. a \in Agents BY <3>1, HolderType DEF AnyAgent
      <3>3. n \in Nat /\ last[t] < n BY <2>1 DEF TokenInv
      <3> HIDE DEF a, n
      <3>4. last'[t] = n /\ holder[t] = lease[t].agent BY <2>1, <3>1
      <3>5. holder' = [holder EXCEPT ![t] = a] BY <2>1, <3>1
      <3>6. last' = [last EXCEPT ![t] = last'[t]] BY <3>1, <3>4
      <3>7. last'[t] > last[t] BY <2>1, <3>3, <3>4
      <3> QED BY <3>1, <3>2, <3>3, <3>4, <3>5, <3>6, <3>7 DEF Promise!Grant
    <2>3. ASSUME NEW t \in Tasks, Vacate(t) PROVE Promise!Vacate(t)
      BY <2>1, <2>3 DEF Vacate, Promise!Vacate, NoLease
    <2>4. CASE UNCHANGED leaseVars
      BY <2>4 DEF leaseVars
    <2>5. CASE \E l \in Lanes : Land(l) \/ \E t \in Tasks : Launch(l, t)
      BY <2>5 DEF Land, Launch
    <2> QED BY <2>2, <2>3, <2>4, <2>5, LeaseWrites DEF SyncLease, Promise!Next
  <1> QED BY <1>1, <1>2, LeaseTyping, TokensKept, PTL DEF Spec, Fenced, Promise!Spec

-----------------------------------------------------------------------------
(* Who is active, and who holds the turn, after each way of writing the     *)
(* roster.                                                                 *)

LEMMA HolderIsActive == \A t : Holder(t) # NoAgent => Holder(t) \in Active(t)
  <1> SUFFICES ASSUME NEW t, Holder(t) # NoAgent PROVE Holder(t) \in Active(t)
    OBVIOUS
  <1>1. First(t) # {} /\ Holder(t) = CHOOSE a \in First(t) : TRUE
    BY DEF Holder
  <1>2. Holder(t) \in First(t)
    BY <1>1
  <1> QED BY <1>2 DEF First

Alone(t) == \A a, b \in Active(t) : a = b

LEMMA AloneHolds ==
  ASSUME RosterOK, NEW t \in Tasks, Alone(t), NEW a \in Active(t)
  PROVE  Holder(t) = a
  <1>1. roster[t][a].since <= roster[t][a].since
    BY DEF RosterOK, Active, Member
  <1>2. First(t) = {a}
    BY <1>1 DEF First, Alone
  <1> QED BY <1>2 DEF Holder

\* The holder is a matter of who is active and when each joined.
TurnStays(t) == /\ Active(t)' = Active(t)
                /\ \A a \in Active(t) : roster'[t][a].since = roster[t][a].since

LEMMA HolderStays ==
  ASSUME NEW t, TurnStays(t) PROVE Holder(t)' = Holder(t)
  <1>1. First(t)' = First(t)
    BY DEF First, TurnStays
  <1> QED BY <1>1 DEF Holder

LEMMA RosterElsewhere ==
  ASSUME RosterOK, NEW t, NEW r, SetRoster(t, r), NEW u \in Tasks, u # t
  PROVE  roster'[u] = roster[u] /\ TurnStays(u)
  <1>1. roster'[u] = roster[u]
    BY DEF RosterOK, SetRoster
  <1> QED BY <1>1 DEF TurnStays, Active

LEMMA RosterThere ==
  ASSUME RosterOK, NEW t \in Tasks, NEW r, SetRoster(t, r)
  PROVE  roster'[t] = r
  BY DEF RosterOK, SetRoster

LEMMA JoinsActive ==
  ASSUME RosterOK, NEW t \in Tasks, NEW a, NEW s,
         SetRoster(t, Joined(roster[t], a, "active", s))
  PROVE  Active(t)' = {a} \cap Agents
  <1>1. roster'[t] = Joined(roster[t], a, "active", s)
    BY RosterThere
  <1>2. \A b \in Agents : b # a => roster'[t][b].status # "active"
    <2> SUFFICES ASSUME NEW b \in Agents, b # a PROVE roster'[t][b].status # "active"
      OBVIOUS
    <2> DEFINE m == roster[t][b]
    <2>1. roster'[t][b] = IF m.status \in {"active", "offered"}
                            THEN [m EXCEPT !.status = "waiting"] ELSE m
      BY <1>1 DEF Joined
    <2>2. m \in Member BY DEF RosterOK
    <2> HIDE DEF m
    <2> QED BY <2>1, <2>2 DEF Member
  <1>3. a \in Agents => roster'[t][a].status = "active" /\ roster'[t][a].on
    BY <1>1 DEF Joined
  <1> QED BY <1>2, <1>3 DEF Active

LEMMA JoinsBeside ==
  ASSUME RosterOK, NEW t \in Tasks, NEW a, NEW s, NEW status, status # "active",
         SetRoster(t, Joined(roster[t], a, status, s))
  PROVE  /\ Active(t)' = Active(t) \ {a}
         /\ \A b \in Agents : b # a => roster'[t][b] = roster[t][b]
  <1>1. roster'[t] = Joined(roster[t], a, status, s)
    BY RosterThere
  <1>2. \A b \in Agents : b # a => roster'[t][b] = roster[t][b]
    BY <1>1 DEF Joined
  <1>3. a \in Agents => roster'[t][a].status # "active"
    BY <1>1 DEF Joined
  <1> QED BY <1>2, <1>3 DEF Active

LEMMA PassesTo ==
  ASSUME RosterOK, NEW t \in Tasks, NEW from, NEW to, roster[t][to].on,
         SetRoster(t, Passed(roster[t], from, to))
  PROVE  Active(t)' = (Active(t) \ {from}) \cup ({to} \cap Agents)
  <1>1. roster'[t] = Passed(roster[t], from, to)
    BY RosterThere
  <1>2. ASSUME NEW b \in Agents, b # to
        PROVE  b \in Active(t)' <=> b \in Active(t) /\ b # from
    <2> DEFINE m == roster[t][b]
    <2>1. roster'[t][b] = IF m.on /\ (b = from \/ m.status = "offered")
                            THEN [m EXCEPT !.status = "waiting"] ELSE m
      BY <1>1, <1>2 DEF Passed
    <2>2. m \in Member BY DEF RosterOK
    <2>3. b \in Active(t) <=> m.on /\ m.status = "active" BY DEF Active
    <2> HIDE DEF m
    <2>4. roster'[t][b].on /\ roster'[t][b].status = "active"
             <=> m.on /\ m.status = "active" /\ b # from
      BY <2>1, <2>2 DEF Member
    <2> QED BY <2>3, <2>4 DEF Active
  <1>3. ASSUME to \in Agents PROVE to \in Active(t)'
    <2>1. roster'[t][to] = [roster[t][to] EXCEPT !.status = "active"]
      BY <1>1, <1>3 DEF Passed
    <2>2. roster[t][to] \in Member BY <1>3 DEF RosterOK
    <2> QED BY <1>3, <2>1, <2>2 DEF Active, Member
  <1>4. Active(t)' \subseteq Agents /\ Active(t) \subseteq Agents
    BY DEF Active
  <1> QED BY <1>2, <1>3, <1>4

\* Seats, offers and refusals leave the turn where it is.
LEMMA SeatsBeside ==
  ASSUME RosterOK, NEW t, NEW a, NEW s,
         roster' = [roster EXCEPT ![t][a].seat = s], NEW u \in Tasks
  PROVE  /\ TurnStays(u)
         /\ \A b \in Agents : roster'[u][b].on = roster[u][b].on
  <1> SUFFICES ASSUME NEW b \in Agents
               PROVE  /\ roster'[u][b].on = roster[u][b].on
                      /\ roster'[u][b].status = roster[u][b].status
                      /\ roster'[u][b].since = roster[u][b].since
    BY DEF TurnStays, Active
  <1>1. roster[u] \in [Agents -> Member] /\ roster[u][b] \in Member
    BY DEF RosterOK
  <1>2. roster'[u][b] = IF u = t /\ b = a THEN [roster[u][b] EXCEPT !.seat = s]
                        ELSE roster[u][b]
    BY <1>1 DEF RosterOK
  <1> QED BY <1>1, <1>2 DEF Member

LEMMA OffersBeside ==
  ASSUME RosterOK, NEW t \in Tasks, NEW from, NEW to, from # "active", to # "active",
         Restatus(t, from, to), NEW u \in Tasks
  PROVE  /\ TurnStays(u)
         /\ \A b \in Agents : /\ roster'[u][b].on = roster[u][b].on
                              /\ roster'[u][b].seat = roster[u][b].seat
  <1>1. CASE u # t
    BY <1>1, RosterElsewhere DEF Restatus
  <1>2. CASE u = t
    <2>1. roster'[t] = [a \in Agents |->
                         IF roster[t][a].on /\ roster[t][a].status = from
                           THEN [roster[t][a] EXCEPT !.status = to] ELSE roster[t][a]]
      BY RosterThere DEF Restatus
    <2>2. ASSUME NEW b \in Agents
          PROVE  /\ roster'[t][b].on = roster[t][b].on
                 /\ roster'[t][b].seat = roster[t][b].seat
                 /\ roster'[t][b].since = roster[t][b].since
                 /\ roster'[t][b].status = "active" <=> roster[t][b].status = "active"
      <3> DEFINE m == roster[t][b]
      <3>1. roster'[t][b] = IF m.on /\ m.status = from THEN [m EXCEPT !.status = to] ELSE m
        BY <2>1
      <3>2. m \in Member BY DEF RosterOK
      <3> HIDE DEF m
      <3>3. /\ roster'[t][b].on = m.on /\ roster'[t][b].seat = m.seat
            /\ roster'[t][b].since = m.since
            /\ roster'[t][b].status = "active" <=> m.status = "active"
        BY <3>1, <3>2 DEF Member
      <3> QED BY <3>3 DEF m
    <2> QED BY <1>2, <2>2 DEF TurnStays, Active
  <1> QED BY <1>1, <1>2

-----------------------------------------------------------------------------
(* One holder.  Handing over reads who holds the turn, and later asks that  *)
(* member to step back: in between, nobody else may have become active.    *)

OneHandler == \A p, q \in Procs : p = q

Inviting == {"holder", "chair"}
Passing == {"holder", "seat", "chair", "check", "insert", "ack", "transfer"}
OnPass(h) == h.at \in Passing \/ (h.at = "join" /\ h.next \in Inviting)

\* Only the receiver's joining leads into the handover.
Leads(h) == \/ h.next \in {"idle", "requeue", "mark", "ledger"}
            \/ h.at = "join" /\ h.next \in Inviting

PassesFrom(p, t) ==
  /\ OnPass(proc[p]) => Active(t) \subseteq {proc[p].from} /\ proc[p].as = "waiting"
  /\ Leads(proc[p])
  /\ At(p, "insert") => handoffs[t] = {}
  /\ At(p, "ack") => handoffs[t] = {[by |-> p, from |-> proc[p].from, to |-> proc[p].agent]}

TurnInv == \A t \in Tasks : /\ Alone(t)
                            /\ \A p \in Procs : On(p) = t => PassesFrom(p, t)

\* What a handler's next record has to satisfy.
LEMMA TurnBy ==
  ASSUME TypeInv, OneHandler, NEW p \in Procs, NEW n, proc' = [proc EXCEPT ![p] = n],
         \A t \in Tasks : Alone(t)',
         \A t \in Tasks : n.task = t =>
           /\ OnPass(n) => Active(t)' \subseteq {n.from} /\ n.as = "waiting"
           /\ Leads(n)
           /\ n.at = "insert" => handoffs'[t] = {}
           /\ n.at = "ack" => handoffs'[t] = {[by |-> p, from |-> n.from, to |-> n.agent]}
  PROVE  TurnInv'
  <1>1. proc'[p] = n /\ \A q \in Procs : q = p
    BY DEF TypeInv, TypeOK, OneHandler
  <1> QED BY <1>1 DEF TurnInv, PassesFrom, On, At, OnPass, Leads

LEMMA AloneStays ==
  ASSUME TurnInv, \A t \in Tasks : Active(t)' \subseteq Active(t)
  PROVE  \A t \in Tasks : Alone(t)'
  BY DEF TurnInv, Alone

\* Elsewhere than in a handover the handler promises nothing.
LEMMA TurnQuiet ==
  ASSUME TypeInv, OneHandler, NEW p \in Procs, NEW n, proc' = [proc EXCEPT ![p] = n],
         \A t \in Tasks : Alone(t)', n.at \notin Passing \cup {"join"}, Leads(n)
  PROVE  TurnInv'
  BY TurnBy DEF OnPass, Passing

LEMMA TurnReturn ==
  ASSUME TypeInv, OneHandler, NEW p \in Procs, Return(p), \A t \in Tasks : Alone(t)'
  PROVE  TurnInv'
  <1>1. Idle.at = "idle" /\ Leads(Idle) BY DEF Idle, Leads
  <1> QED BY <1>1, TurnQuiet DEF Return, Passing

LEMMA TurnKept ==
  ASSUME TurnInv, UNCHANGED <<proc, handoffs>>,
         \A t \in Tasks : Active(t)' \subseteq Active(t)
  PROVE  TurnInv'
  <1>1. \A t \in Tasks : Alone(t)' BY AloneStays
  <1> QED BY <1>1 DEF TurnInv, PassesFrom, On, At, OnPass, Leads

LEMMA ActiveKept == ASSUME UNCHANGED roster PROVE \A t : Active(t)' = Active(t)
  BY DEF Active

\* A handler that goes on, with what it holds unchanged.
LEMMA TurnGoto ==
  ASSUME TypeInv, TurnInv, OneHandler, NEW p \in Procs, On(p) \in Tasks,
         proc[p].at \in Passing, NEW step \in Passing \ {"insert", "ack"},
         Goto(p, step), \A t \in Tasks : Active(t)' \subseteq Active(t)
  PROVE  TurnInv'
  <1> DEFINE h == proc[p]
             n == [h EXCEPT !.at = step]
  <1>1. proc' = [proc EXCEPT ![p] = n] /\ h \in Handler BY DEF Goto, TypeInv, TypeOK
  <1>2. \A t \in Tasks : Alone(t)' BY AloneStays
  <1>3. \A t \in Tasks : h.task = t => /\ Active(t) \subseteq {h.from} /\ h.as = "waiting"
                                       /\ Leads(h)
    BY DEF TurnInv, PassesFrom, On, OnPass
  <1>4. h.at \in Passing OBVIOUS
  <1> HIDE DEF h
  <1>5. n.at = step /\ n.from = h.from /\ n.task = h.task /\ n.next = h.next /\ n.as = h.as
    BY <1>1 DEF Handler
  <1> HIDE DEF n
  <1> QED BY <1>1, <1>2, <1>3, <1>4, <1>5, TurnBy, ZenonT(60) DEF Passing, Leads

\* Beginning an operation.
LEMMA TurnBegins ==
  ASSUME TypeInv, TurnInv, OneHandler, Ops \cap {"rest", "transfer"} = {},
         NEW p \in Procs, NEW t \in Tasks, Operation(p, t)
  PROVE  TurnInv'
  <1>1. UNCHANGED roster /\ UNCHANGED handoffs
    BY DEF Operation, Dispatch, BeginRequeue, Finish, Revise, Deliver, Edit, BeginAssign,
           BeginClaim, BeginPass, BeginRest
  <1>2. /\ \A u \in Tasks : Active(u)' = Active(u)
        /\ \A u \in Tasks : Alone(u)'
    BY <1>1, ActiveKept, AloneStays
  <1>3. \A step \in Steps : Call(t, step) \in Handler /\ Call(t, step).at = step
                            /\ Call(t, step).next = "idle" /\ Call(t, step).task = t
    BY CallType
  <1>4. \A step \in Steps \ (Passing \cup {"join"}) :
          Start(p, Call(t, step)) => TurnInv'
    BY <1>2, <1>3, TurnQuiet DEF Start, Leads
  <1>5. CASE Dispatch(p, t) BY <1>4, <1>5 DEF Dispatch, Steps, Passing
  <1>6. CASE BeginRequeue(p, t) BY <1>4, <1>6 DEF BeginRequeue, Steps, Passing
  <1>7. CASE Finish(p, t) BY <1>4, <1>7 DEF Finish, Steps, Passing
  <1>8. CASE Revise(p, t) BY <1>4, <1>8 DEF Revise, Steps, Passing
  <1>9. ASSUME NEW s \in Sessions, Deliver(p, t, s) PROVE TurnInv'
    <2> DEFINE c == Call(t, "worker")
               n == [c EXCEPT !.seat = s, !.as = "active", !.home = s, !.next = "ledger"]
    <2>1. proc' = [proc EXCEPT ![p] = n] BY <1>9 DEF Deliver, Start
    <2>2. c \in Handler /\ c.at = "worker" BY <1>3 DEF Steps
    <2> HIDE DEF c
    <2>3. n.at = "worker" /\ n.next = "ledger" BY <2>2 DEF Handler
    <2> HIDE DEF n
    <2> QED BY <1>2, <2>1, <2>3, TurnQuiet DEF Passing, Leads
  <1>10. ASSUME NEW s \in Sessions, Edit(p, t, s) PROVE TurnInv'
    BY <1>1, <1>2, <1>10, TurnKept DEF Edit
  <1>11. ASSUME NEW a \in Agents, BeginAssign(p, t, a) PROVE TurnInv'
    <2> DEFINE c == Call(t, "join")
    <2>1. PICK status \in {"active", "waiting", "offered"} :
            proc' = [proc EXCEPT ![p] = [c EXCEPT !.agent = a, !.as = status]]
      BY <1>11 DEF BeginAssign, Start
    <2>2. c \in Handler /\ c.at = "join" /\ c.next = "idle" BY <1>3 DEF Steps
    <2> HIDE DEF c
    <2> DEFINE n == [c EXCEPT !.agent = a, !.as = status]
    <2>3. n.at = "join" /\ n.next = "idle" BY <2>2 DEF Handler
    <2>4. proc' = [proc EXCEPT ![p] = n] BY <2>1
    <2> HIDE DEF n
    <2> QED BY <1>2, <2>3, <2>4, TurnBy DEF OnPass, Passing, Inviting, Leads
  <1>12. ASSUME NEW a \in Agents, BeginClaim(p, t, a) PROVE TurnInv'
    <2> DEFINE c == Call(t, "join")
               n == [c EXCEPT !.agent = a, !.as = "active", !.next = "requeue"]
    <2>1. proc' = [proc EXCEPT ![p] = n] BY <1>12 DEF BeginClaim, Start
    <2>2. c \in Handler /\ c.at = "join" BY <1>3 DEF Steps
    <2> HIDE DEF c
    <2>3. n.at = "join" /\ n.next = "requeue" BY <2>2 DEF Handler
    <2> HIDE DEF n
    <2> QED BY <1>2, <2>1, <2>3, TurnBy DEF OnPass, Passing, Inviting, Leads
  <1>13. ASSUME NEW a \in Agents, BeginPass(p, t, a) PROVE TurnInv'
    <2> DEFINE c == Call(t, "holder")
               call == [c EXCEPT !.agent = a, !.from = Holder(t)]
               invite == [call EXCEPT !.at = "join", !.next = "holder"]
    <2>1. c \in Handler /\ c.task = t /\ c.at = "holder" /\ c.next = "idle" /\ c.as = "waiting"
      <3>1. Idle.as = "waiting" /\ Idle \in Handler BY IdleType DEF Idle
      <3>2. c.as = "waiting" BY <3>1 DEF Call, Handler
      <3> QED BY <1>3, <3>2 DEF Steps
    <2>2. Start(p, call) \/ Start(p, invite) BY <1>13 DEF BeginPass
    <2>3. Active(t)' \subseteq {Holder(t)}
      <3>1. RosterOK /\ Alone(t) BY Parts DEF TurnInv
      <3> QED BY <1>2, <3>1, AloneHolds
    <2> HIDE DEF c
    <2>4. call \in Handler /\ call.at = "holder" /\ call.from = Holder(t)
          /\ call.task = t /\ call.next = "idle" /\ call.as = "waiting"
      BY <2>1, HolderType DEF Handler, AnyAgent
    <2> HIDE DEF call
    <2>5. invite.at = "join" /\ invite.next = "holder" /\ invite.from = Holder(t)
          /\ invite.task = t /\ invite.as = "waiting"
      BY <2>4 DEF Handler
    <2> HIDE DEF invite
    <2>6. CASE Start(p, call)
      BY <1>2, <2>3, <2>4, <2>6, TurnBy DEF Start, Leads
    <2>7. CASE Start(p, invite)
      BY <1>2, <2>3, <2>5, <2>7, TurnBy DEF Start, Leads, Inviting
    <2> QED BY <2>2, <2>6, <2>7
  <1>14. \A a, from \in Agents : ~BeginRest(p, t, from, a)
    BY DEF BeginRest, Free
  <1> QED BY <1>5, <1>6, <1>7, <1>8, <1>9, <1>10, <1>11, <1>12, <1>13, <1>14 DEF Operation

\* The steps outside a handover, and those that end one.
LEMMA TurnStepsAside ==
  ASSUME TypeInv, TurnInv, OneHandler, NEW p \in Procs,
         \/ Sync(p) \/ Ledger(p) \/ Requeue(p) \/ Reoffer(p) \/ Settle(p) \/ Back(p)
         \/ Worker(p) \/ Mark(p) \/ Report(p) \/ Stop(p)
  PROVE  TurnInv'
  <1> DEFINE h == proc[p]
             t == On(p)
  <1>1. /\ h \in Handler /\ RosterOK
        /\ \A q \in Procs : q = p
    BY Parts DEF TypeInv, TypeOK, OneHandler
  <1>2. \A u \in Tasks : Active(u)' = Active(u)
    <2>1. CASE UNCHANGED roster BY <2>1, ActiveKept
    <2>2. CASE Ledger(p)
      BY <1>1, <2>2, SeatsBeside, ActiveKept DEF Ledger, TurnStays
    <2>3. CASE Reoffer(p)
      BY <1>1, <2>3, OffersBeside, OnType DEF Reoffer, TurnStays
    <2>4. CASE Settle(p)
      BY <1>1, <2>4, OffersBeside, OnType DEF Settle, TurnStays
    <2>5. UNCHANGED roster \/ Ledger(p) \/ Reoffer(p) \/ Settle(p)
      BY DEF Sync, Requeue, Back, Worker, Mark, Report, Stop
    <2> QED BY <2>1, <2>2, <2>3, <2>4, <2>5
  <1>3. \A u \in Tasks : Alone(u)'
    BY <1>2, AloneStays
  <1>4. CASE Return(p)
    BY <1>3, <1>4, TurnReturn
  <1> DEFINE Onward == h.next \in {"idle", "requeue", "mark", "ledger"}
  <1>5. ASSUME NEW step, step \notin Passing \cup {"join"}, Goto(p, step), Onward
        PROVE  TurnInv'
    <2> DEFINE n == [h EXCEPT !.at = step]
    <2>1. proc' = [proc EXCEPT ![p] = n] BY <1>5 DEF Goto
    <2>2. n.at = step /\ n.next = h.next BY <1>1 DEF Handler
    <2> HIDE DEF n
    <2> QED BY <1>3, <1>5, <2>1, <2>2, TurnQuiet DEF Leads
  <1>11. ASSUME t \in Tasks, h.at # "join" PROVE Onward
    BY <1>11 DEF TurnInv, PassesFrom, Leads, On
  <1>6. CASE Sync(p)
    <2>1. CASE h.next = "idle"
      BY <1>4, <1>6, <2>1 DEF Sync, Continue
    <2>2. CASE h.next # "idle"
      <3> DEFINE n == [h EXCEPT !.at = h.next, !.next = "idle"]
      <3>1. proc' = [proc EXCEPT ![p] = n] BY <1>6, <2>2 DEF Sync, Continue
      <3>2. Onward BY <1>6, <1>11, OnType DEF Sync, At
      <3> HIDE DEF h
      <3>3. n.at = h.next /\ n.next = "idle" BY <1>1 DEF Handler
      <3> HIDE DEF n
      <3>4. h.next \notin Passing \cup {"join"} BY <3>2 DEF Passing
      <3> QED BY <1>3, <3>1, <3>3, <3>4, TurnQuiet DEF Leads
    <2> QED BY <2>1, <2>2
  <1>7. CASE Requeue(p)
    <2>1. Onward BY <1>7, <1>11, OnType DEF Requeue, At
    <2> QED BY <1>4, <1>5, <1>7, <2>1 DEF Requeue, Passing
  <1>8. CASE Back(p)
    <2> DEFINE n == [h EXCEPT !.at = "report", !.agent = Holder(t),
                              !.seat = WorkingSession(t, h.home)]
    <2>1. proc' = [proc EXCEPT ![p] = n] BY <1>8 DEF Back
    <2>2. Onward BY <1>8, <1>11, OnType DEF Back, At
    <2> HIDE DEF h
    <2>3. n.at = "report" /\ n.next = h.next BY <1>1 DEF Handler
    <2> HIDE DEF n
    <2> QED BY <1>3, <2>1, <2>2, <2>3, TurnQuiet DEF Passing, Leads
  <1>9. CASE Worker(p)
    <2>1. PICK a \in Agents : proc' = [proc EXCEPT ![p] = [h EXCEPT !.at = "join", !.agent = a]]
      BY <1>9 DEF Worker
    <2>2. Onward BY <1>9, <1>11, OnType DEF Worker, At
    <2> HIDE DEF h
    <2> DEFINE n == [h EXCEPT !.at = "join", !.agent = a]
    <2>3. proc' = [proc EXCEPT ![p] = n] BY <2>1
    <2>4. n.at = "join" /\ n.next = h.next BY <1>1 DEF Handler
    <2> HIDE DEF n
    <2> QED BY <1>3, <2>2, <2>3, <2>4, TurnBy DEF OnPass, Passing, Inviting, Leads
  <1>10. CASE Mark(p)
    <2>1. Onward BY <1>10, <1>11, OnType DEF Mark, At
    <2> QED BY <1>5, <1>10, <2>1 DEF Mark, Passing
  <1> QED BY <1>4, <1>6, <1>7, <1>8, <1>9, <1>10
       DEF Ledger, Reoffer, Settle, Report, Stop

\* Joining: as the active member, or beside the one there is.
LEMMA TurnJoins ==
  ASSUME TypeInv, TurnInv, OneHandler, NEW p \in Procs, Join(p)
  PROVE  TurnInv'
  <1> DEFINE h == proc[p]
  <1>7. PICK t \in Tasks : t = On(p)
    BY OnType DEF Join
  <1>1. h \in Handler /\ RosterOK /\ t = h.task /\ h.at = "join"
    BY <1>7, Parts DEF TypeInv, TypeOK, Join, On, At
  <1>2. SetRoster(t, Joined(roster[t], h.agent, h.as, h.seat))
    BY <1>7 DEF Join
  <1>3. Leads(h) /\ (OnPass(h) => Active(t) \subseteq {h.from} /\ h.as = "waiting")
    BY <1>1, <1>7 DEF TurnInv, PassesFrom
  <1>4. \A u \in Tasks : u # t => Active(u)' = Active(u)
    BY <1>1, <1>2, RosterElsewhere DEF TurnStays
  <1>5. CASE h.as = "active"
    <2>1. \A u \in Tasks : Alone(u)'
      <3>1. Active(t)' \subseteq {h.agent}
        <4>1. SetRoster(t, Joined(roster[t], h.agent, "active", h.seat))
          BY <1>2, <1>5
        <4>2. Active(t)' = {h.agent} \cap Agents BY <1>1, <4>1, JoinsActive
        <4> QED BY <4>2
      <3> QED BY <1>4, <3>1 DEF TurnInv, Alone
    <2> DEFINE n == [h EXCEPT !.at = "sync"]
    <2>2. proc' = [proc EXCEPT ![p] = n] BY <1>5 DEF Join, Goto
    <2> HIDE DEF h
    <2>3. n.at = "sync" /\ n.next = h.next BY <1>1 DEF Handler
    <2> HIDE DEF n
    <2>4. h.next \notin Inviting BY <1>1, <1>3, <1>5 DEF OnPass
    <2> QED BY <1>3, <2>1, <2>2, <2>3, <2>4, TurnQuiet DEF Leads, Passing
  <1>6. CASE h.as # "active"
    <2>1. Active(t)' \subseteq Active(t)
      BY <1>1, <1>2, <1>6, JoinsBeside
    <2>2. \A u \in Tasks : Alone(u)'
      BY <1>4, <2>1, AloneStays
    <2>3. CASE h.next = "idle"
      BY <1>6, <2>2, <2>3, TurnReturn DEF Join, Continue
    <2>4. CASE h.next # "idle"
      <3> DEFINE n == [h EXCEPT !.at = h.next, !.next = "idle"]
      <3>1. proc' = [proc EXCEPT ![p] = n] BY <1>6, <2>4 DEF Join, Continue
      <3> HIDE DEF h
      <3>2. n.at = h.next /\ n.next = "idle" /\ n.from = h.from /\ n.task = h.task
          /\ n.as = h.as
        BY <1>1 DEF Handler
      <3> HIDE DEF n
      <3>3. CASE h.next \in Inviting
        <4>1. Active(t) \subseteq {h.from} /\ h.as = "waiting" BY <1>1, <1>3, <3>3 DEF OnPass
        <4>2. Active(t)' \subseteq {n.from} /\ n.as = "waiting" BY <2>1, <3>2, <4>1
        <4>3. n.task = t BY <1>1, <3>2
        <4>4. Leads(n) /\ n.at # "insert" /\ n.at # "ack"
          BY <3>2, <3>3 DEF Leads, Inviting
        <4> QED BY <2>2, <3>1, <4>2, <4>3, <4>4, TurnBy
      <3>4. CASE h.next \notin Inviting
        <4>1. n.at \notin Passing \cup {"join"} /\ Leads(n)
          BY <1>3, <2>4, <3>2, <3>4 DEF Leads, Passing
        <4> QED BY <2>2, <3>1, <4>1, TurnQuiet
      <3> QED BY <3>3, <3>4
    <2> QED BY <2>3, <2>4
  <1> QED BY <1>5, <1>6

\* The steps of a handover.
LEMMA TurnPasses ==
  ASSUME TypeInv, TurnInv, OneHandler, NEW p \in Procs,
         \/ SeatHolder(p) \/ Seat(p) \/ Chair(p) \/ Check(p) \/ Insert(p) \/ Ack(p)
         \/ Transfer(p)
  PROVE  TurnInv'
  <1> DEFINE h == proc[p]
  <1>12. PICK t \in Tasks : t = On(p)
    BY OnType DEF SeatHolder, Seat, Chair, Check, Insert, Ack, Transfer
  <1>1. /\ h \in Handler /\ RosterOK /\ t = h.task /\ t \in Tasks
        /\ h.at \in Passing
    BY <1>12, Parts DEF TypeInv, TypeOK, SeatHolder, Seat, Chair, Check, Insert, Ack,
       Transfer, On, At, Passing
  <1>2. /\ Active(t) \subseteq {h.from} /\ h.as = "waiting" /\ Leads(h)
        /\ At(p, "insert") => handoffs[t] = {}
        /\ At(p, "ack") => handoffs[t] = {[by |-> p, from |-> h.from, to |-> h.agent]}
    BY <1>1, <1>12 DEF TurnInv, PassesFrom, OnPass
  <1>3. h.next \in {"idle", "requeue", "mark", "ledger"}
    BY <1>1, <1>2 DEF Leads, Passing
  <1>4. ASSUME ~Transfer(p)
        PROVE  \A u \in Tasks : Active(u)' = Active(u) /\ Alone(u)'
    <2>1. CASE UNCHANGED roster BY <2>1, ActiveKept, AloneStays
    <2>2. CASE SeatHolder(p)
      <3>1. \A u \in Tasks : Active(u)' = Active(u)
        <4>1. CASE Holder(t) = NoAgent
          BY <1>12, <2>2, <4>1, ActiveKept DEF SeatHolder
        <4>2. CASE Holder(t) # NoAgent
          <5>1. roster' = [roster EXCEPT ![t][Holder(t)].seat =
                             IF roster[t][Holder(t)].seat = NoSession THEN h.home
                             ELSE roster[t][Holder(t)].seat]
            BY <1>12, <2>2, <4>2 DEF SeatHolder
          <5> QED BY <1>1, <5>1, SeatsBeside DEF TurnStays
        <4> QED BY <4>1, <4>2
      <3> QED BY <3>1, AloneStays
    <2>3. CASE Chair(p)
      <3>1. \A u \in Tasks : Active(u)' = Active(u)
        <4>1. PICK s \in Fresh :
                roster' = [roster EXCEPT ![t][h.agent].seat =
                             IF roster[t][h.agent].on THEN s ELSE roster[t][h.agent].seat]
          BY <1>12, <2>3 DEF Chair
        <4> QED BY <1>1, <4>1, SeatsBeside DEF TurnStays
      <3> QED BY <3>1, AloneStays
    <2>4. UNCHANGED roster \/ SeatHolder(p) \/ Chair(p)
      BY <1>4 DEF Seat, Check, Insert, Ack
    <2> QED BY <2>1, <2>2, <2>3, <2>4
  <1>5. CASE SeatHolder(p)
    <2>1. ~Transfer(p) BY <1>5 DEF SeatHolder, Transfer, At
    <2> QED BY <1>1, <1>12, <1>4, <1>5, <2>1, TurnGoto DEF SeatHolder, Passing
  <1>6. CASE Seat(p)
    <2> DEFINE m == roster[t][h.agent]
    <2>1. ~Transfer(p) BY <1>6 DEF Seat, Transfer, At
    <2>2. proc' = [proc EXCEPT ![p] =
                     IF ~m.on THEN [h EXCEPT !.at = "join", !.next = "chair"]
                     ELSE IF m.seat = NoSession THEN [h EXCEPT !.at = "chair"]
                     ELSE [h EXCEPT !.at = "check", !.seat = m.seat]]
      BY <1>12, <1>6 DEF Seat
    <2>3. CASE m.on
      <3> DEFINE n == IF m.seat = NoSession THEN [h EXCEPT !.at = "chair"]
                      ELSE [h EXCEPT !.at = "check", !.seat = m.seat]
      <3>1. proc' = [proc EXCEPT ![p] = n] BY <2>2, <2>3
      <3>2. Active(t)' \subseteq {h.from} BY <1>1, <1>2, <1>4, <2>1
      <3> HIDE DEF h, m
      <3>3. n.at \in {"chair", "check"} /\ n.next = h.next /\ n.from = h.from /\ n.as = h.as
            /\ n.task = t
        BY <1>1 DEF Handler
      <3> HIDE DEF n
      <3> QED BY <1>2, <1>3, <1>4, <2>1, <3>1, <3>2, <3>3, TurnBy DEF Leads
    <2>4. CASE ~m.on
      <3> DEFINE n == [h EXCEPT !.at = "join", !.next = "chair"]
      <3>1. proc' = [proc EXCEPT ![p] = n] BY <2>2, <2>4
      <3>2. Active(t)' \subseteq {h.from} BY <1>1, <1>2, <1>4, <2>1
      <3> HIDE DEF h, m
      <3>3. n.at = "join" /\ n.next = "chair" /\ n.from = h.from /\ n.as = h.as /\ n.task = t
        BY <1>1 DEF Handler
      <3> HIDE DEF n
      <3> QED BY <1>2, <1>4, <2>1, <3>1, <3>2, <3>3, TurnBy DEF Leads, Inviting
    <2> QED BY <2>3, <2>4
  <1>7. CASE Chair(p)
    <2>1. ~Transfer(p) BY <1>7 DEF Chair, Transfer, At
    <2>2. PICK s \in Fresh : proc' = [proc EXCEPT ![p] = [h EXCEPT !.at = "check", !.seat = s]]
      BY <1>7 DEF Chair
    <2> DEFINE n == [h EXCEPT !.at = "check", !.seat = s]
    <2>3. proc' = [proc EXCEPT ![p] = n] BY <2>2
    <2>4. Active(t)' \subseteq {h.from} BY <1>1, <1>2, <1>4, <2>1
    <2> HIDE DEF h
    <2>5. n.at = "check" /\ n.next = h.next /\ n.from = h.from /\ n.as = h.as /\ n.task = t
      BY <1>1 DEF Handler
    <2> HIDE DEF n
    <2> QED BY <1>2, <1>3, <1>4, <2>1, <2>3, <2>4, <2>5, TurnBy DEF Leads
  <1>8. CASE Check(p)
    <2>1. ~Transfer(p) BY <1>8 DEF Check, Transfer, At
    <2>2. CASE handoffs[t] # {}
      BY <1>4, <1>8, <1>12, <2>1, <2>2, TurnReturn DEF Check
    <2>3. CASE handoffs[t] = {}
      <3> DEFINE n == [h EXCEPT !.at = "insert"]
      <3>1. proc' = [proc EXCEPT ![p] = n] BY <1>12, <1>8, <2>3 DEF Check, Goto
      <3>2. Active(t)' \subseteq {h.from} /\ handoffs'[t] = {}
        BY <1>1, <1>2, <1>4, <1>8, <1>12, <2>1, <2>3 DEF Check
      <3> HIDE DEF h
      <3>3. n.at = "insert" /\ n.next = h.next /\ n.from = h.from /\ n.as = h.as /\ n.task = t
        BY <1>1 DEF Handler
      <3> HIDE DEF n
      <3> QED BY <1>2, <1>3, <1>4, <2>1, <3>1, <3>2, <3>3, TurnBy DEF Leads
    <2> QED BY <2>2, <2>3
  <1>9. CASE Insert(p)
    <2> DEFINE n == [h EXCEPT !.at = "ack"]
               own == [by |-> p, from |-> h.from, to |-> h.agent]
    <2>1. ~Transfer(p) BY <1>9 DEF Insert, Transfer, At
    <2>2. proc' = [proc EXCEPT ![p] = n] BY <1>9 DEF Insert, Goto
    <2>3. handoffs' = [handoffs EXCEPT ![t] = @ \cup {own}] BY <1>12, <1>9 DEF Insert
    <2>4. handoffs'[t] = {own}
      <3>1. handoffs[t] = {} BY <1>2, <1>9, <1>12 DEF Insert
      <3>2. handoffs \in [Tasks -> SUBSET Handover] BY DEF TypeInv, TypeOK
      <3> QED BY <1>1, <2>3, <3>1, <3>2
    <2>5. Active(t)' \subseteq {h.from} BY <1>1, <1>2, <1>4, <2>1
    <2> HIDE DEF h
    <2>6. n.at = "ack" /\ n.next = h.next /\ n.from = h.from /\ n.as = h.as /\ n.task = t
          /\ n.agent = h.agent
      BY <1>1 DEF Handler
    <2> HIDE DEF n
    <2> QED BY <1>2, <1>3, <1>4, <2>1, <2>2, <2>4, <2>5, <2>6, TurnBy, ZenonT(60) DEF Leads
  <1>10. CASE Ack(p)
    <2>1. ~Transfer(p) BY <1>10 DEF Ack, Transfer, At
    <2>2. CASE Return(p)
      BY <1>4, <2>1, <2>2, TurnReturn
    <2>3. ASSUME NEW k \in handoffs[t],
                 proc' = [proc EXCEPT ![p] =
                            [h EXCEPT !.at = "transfer", !.next = "mark",
                                      !.from = k.from, !.hand = k.by]]
          PROVE  TurnInv'
      <3> DEFINE n == [h EXCEPT !.at = "transfer", !.next = "mark",
                                !.from = k.from, !.hand = k.by]
      <3>1. proc' = [proc EXCEPT ![p] = n] BY <2>3
      <3>2. k.from = h.from 
        <4>1. At(p, "ack") BY <1>10 DEF Ack
        <4>2. k = [by |-> p, from |-> h.from, to |-> h.agent] BY <1>2, <2>3, <4>1
        <4> QED BY <4>2
      <3>3. Active(t)' \subseteq {h.from} BY <1>1, <1>2, <1>4, <2>1
      <3> HIDE DEF h
      <3>4. n.at = "transfer" /\ n.next = "mark" /\ n.from = k.from /\ n.as = h.as
            /\ n.task = t
        BY <1>1 DEF Handler
      <3> HIDE DEF n
      <3> QED BY <1>2, <1>4, <2>1, <3>1, <3>2, <3>3, <3>4, TurnBy DEF Leads
    <2> QED BY <1>12, <1>10, <2>2, <2>3 DEF Ack
  <1>11. CASE Transfer(p)
    <2>1. CASE ~roster[t][h.agent].on
      <3>1. Return(p) /\ UNCHANGED roster BY <1>12, <1>11, <2>1 DEF Transfer
      <3> QED BY <3>1, ActiveKept, AloneStays, TurnReturn
    <2>2. CASE roster[t][h.agent].on
      <3> DEFINE to == h.agent
                 n == [h EXCEPT !.at = "sync"]
      <3>1. SetRoster(t, Passed(roster[t], h.from, to)) /\ proc' = [proc EXCEPT ![p] = n]
        BY <1>12, <1>11, <2>2 DEF Transfer, Goto
      <3>2. Active(t)' \subseteq {h.agent}
        <4>1. SetRoster(t, Passed(roster[t], h.from, h.agent)) BY <3>1
        <4>2. RosterOK BY <1>1
        <4> HIDE DEF h, n
        <4>3. Active(t)' = (Active(t) \ {h.from}) \cup ({h.agent} \cap Agents)
          BY <2>2, <4>1, <4>2, PassesTo
        <4> QED BY <1>2, <4>3
      <3>3. \A u \in Tasks : Alone(u)'
        <4>1. \A u \in Tasks : u # t => Active(u)' = Active(u)
          BY <1>1, <3>1, RosterElsewhere DEF TurnStays
        <4> QED BY <3>2, <4>1 DEF TurnInv, Alone
      <3> HIDE DEF h
      <3>4. n.at = "sync" /\ n.next = h.next
        BY <1>1 DEF Handler
      <3> HIDE DEF n
      <3> QED BY <1>3, <3>1, <3>3, <3>4, TurnQuiet DEF Leads, Passing
    <2> QED BY <2>1, <2>2
  <1> QED BY <1>5, <1>6, <1>7, <1>8, <1>9, <1>10, <1>11

LEMMA TurnLeaves ==
  ASSUME RosterOK, NEW t \in Tasks, NEW a \in Agents, Leave(t, a)
  PROVE  \A u \in Tasks : Active(u)' \subseteq Active(u)
  <1>1. ASSUME NEW u \in Tasks, NEW b \in Agents
        PROVE  roster'[u][b] = IF u = t /\ b = a THEN [roster[u][b] EXCEPT !.on = FALSE]
                               ELSE roster[u][b]
    BY DEF Leave, RosterOK
  <1>2. ASSUME NEW u \in Tasks, NEW b \in Agents, roster'[u][b].on, roster'[u][b].status = "active"
        PROVE  roster[u][b].on /\ roster[u][b].status = "active"
    <2>1. roster[u][b] \in Member BY DEF RosterOK
    <2> QED BY <1>1, <1>2, <2>1 DEF Member
  <1> QED BY <1>2 DEF Active

LEMMA TurnKeeping ==
  ASSUME OneHandler, Ops \cap {"rest", "transfer"} = {} PROVE Spec => []TurnInv
  <1>1. Init => TurnInv
    <2> SUFFICES ASSUME Init PROVE TurnInv
      OBVIOUS
    <2>1. \A t \in Tasks : Active(t) = {}
      BY DEF Init, Active, Absent
    <2>2. \A p \in Procs : On(p) = NoTask
      BY DEF Init, On, Idle
    <2> QED BY <2>1, <2>2, LeaseNoTask DEF TurnInv, Alone
  <1>2. TypeInv /\ TurnInv /\ [Next]_vars => TurnInv'
    <2> SUFFICES ASSUME TypeInv, TurnInv, [Next]_vars PROVE TurnInv'
      OBVIOUS
    <2>1. ASSUME NEW p \in Procs, Step(p) PROVE TurnInv'
      BY <2>1, TurnStepsAside, TurnJoins, TurnPasses DEF Step
    <2>2. CASE \E p \in Procs, t \in Tasks : Operation(p, t)
      BY <2>2, TurnBegins
    <2>3. ASSUME NEW t \in Tasks, ReadLease(t) PROVE TurnInv'
      BY <2>3, TurnKept, ActiveKept DEF ReadLease
    <2>4. ASSUME NEW t \in Tasks, NEW a \in Agents, Leave(t, a) PROVE TurnInv'
      BY <2>4, Parts, TurnKept, TurnLeaves DEF Leave
    <2>5. ASSUME NEW l \in Lanes, Land(l) \/ \E t \in Tasks : Launch(l, t) PROVE TurnInv'
      BY <2>5, TurnKept, ActiveKept DEF Land, Launch
    <2>6. CASE UNCHANGED vars
      BY <2>6, TurnKept, ActiveKept DEF vars
    <2> QED BY <2>1, <2>2, <2>3, <2>4, <2>5, <2>6 DEF Next
  <1> QED BY <1>1, <1>2, LeaseTyping, PTL DEF Spec

(***************************************************************************)
(* At most one member of a task is active, whatever is assigned, claimed,  *)
(* passed, given back or abandoned halfway, provided handlers do not       *)
(* overlap and nobody names the holder instead of reading it: both provisos *)
(* are needed (lease_turns with a second handler, or with the REST routes, *)
(* reaches two active members).                                            *)
(***************************************************************************)
THEOREM OneHolderAtATime ==
  ASSUME OneHandler, Ops \cap {"rest", "transfer"} = {}
  PROVE  Spec => []OneHolder
  <1>1. TurnInv => OneHolder
    <2> SUFFICES ASSUME TurnInv, NEW t \in Tasks PROVE Cardinality(Active(t)) <= 1
      BY DEF OneHolder
    <2>1. CASE Active(t) = {}
      BY <2>1, FS_EmptySet
    <2>2. CASE Active(t) # {}
      <3>1. PICK a : Active(t) = {a}
        BY <2>2 DEF TurnInv, Alone
      <3> QED BY <3>1, FS_Singleton
    <2> QED BY <2>1, <2>2
  <1> QED BY <1>1, TurnKeeping, PTL

-----------------------------------------------------------------------------
(* The lease is the holder's.  Whoever moves the turn synchronises next, and *)
(* the joins that do not are of members who were not on the roster.        *)

SyncedOps == Ops \cap {"assign", "leave", "stop"} = {}

Newcomer(p, t) ==
  /\ At(p, "join") => proc[p].as = "active" \/ ~roster[t][proc[p].agent].on
  /\ At(p, "worker") => proc[p].as = "active"
  /\ proc[p].next \notin {"join", "worker", "sync"}

Syncing(t) == \E p \in Procs : At(p, "sync") /\ On(p) = t

FollowInv == \A t \in Tasks : /\ Syncing(t) \/ lease[t].agent = Holder(t)
                              /\ \A p \in Procs : On(p) = t => Newcomer(p, t)

\* What a handler's next record has to satisfy.
LEMMA FollowBy ==
  ASSUME TypeInv, OneHandler, NEW p \in Procs, NEW n, proc' = [proc EXCEPT ![p] = n],
         \A t \in Tasks : (n.at = "sync" /\ n.task = t) \/ lease'[t].agent = Holder(t)',
         n.at = "join" => n.as = "active" \/ ~roster'[n.task][n.agent].on,
         n.at = "worker" => n.as = "active",
         n.next \notin {"join", "worker", "sync"}
  PROVE  FollowInv'
  <1>1. proc'[p] = n /\ \A q \in Procs : q = p
    BY DEF TypeInv, TypeOK, OneHandler
  <1> QED BY <1>1 DEF FollowInv, Newcomer, Syncing, On, At

\* While the lease and the turns stay, only a handler at "sync" has them differ.
LEMMA FollowStays ==
  ASSUME TypeInv, FollowInv, OneHandler, NEW p \in Procs, ~At(p, "sync"), UNCHANGED lease,
         NEW t \in Tasks, TurnStays(t)
  PROVE  lease'[t].agent = Holder(t)'
  <1>1. ~Syncing(t) BY DEF Syncing, OneHandler
  <1> QED BY <1>1, HolderStays DEF FollowInv

LEMMA TurnsKept == ASSUME UNCHANGED roster PROVE \A t : TurnStays(t)
  BY DEF TurnStays, Active

LEMMA SyncFollows ==
  ASSUME TypeInv, NEW t \in Tasks, SyncLease(t)
  PROVE  /\ lease'[t].agent = Holder(t)
         /\ \A u \in Tasks : u # t => lease'[u] = lease[u]
  <1>1. lease \in [Tasks -> Lease] BY DEF TypeInv, TypeOK
  <1>2. CASE Grant(t, Holder(t)) BY <1>1, <1>2 DEF Grant
  <1>3. CASE Vacate(t) BY <1>1, <1>3 DEF Vacate, NoLease
  <1>4. CASE Holder(t) = lease[t].agent /\ UNCHANGED leaseVars
    BY <1>4 DEF leaseVars
  <1> QED BY <1>2, <1>3, <1>4 DEF SyncLease

\* Beginning an operation.
LEMMA FollowBegins ==
  ASSUME TypeInv, FollowInv, OneHandler, SyncedOps,
         NEW p \in Procs, NEW t \in Tasks, Operation(p, t)
  PROVE  FollowInv'
  <1>1. proc[p].at = "idle" /\ UNCHANGED roster /\ UNCHANGED lease
    BY DEF Operation, Dispatch, BeginRequeue, Finish, Revise, Deliver, Edit, BeginAssign,
           BeginClaim, BeginPass, BeginRest, Free, leaseVars
  <1>2. \A u \in Tasks : lease'[u].agent = Holder(u)'
    BY <1>1, TurnsKept, FollowStays DEF At
  <1>3. \A step \in Steps : Call(t, step) \in Handler /\ Call(t, step).at = step
                            /\ Call(t, step).next = "idle" /\ Call(t, step).task = t
    BY CallType
  <1>4. \A step \in Steps \ {"join", "worker"} : Start(p, Call(t, step)) => FollowInv'
    BY <1>2, <1>3, FollowBy DEF Start
  <1>5. CASE Dispatch(p, t) BY <1>4, <1>5 DEF Dispatch, Steps
  <1>6. CASE BeginRequeue(p, t) BY <1>4, <1>6 DEF BeginRequeue, Steps
  <1>7. CASE Finish(p, t) BY <1>4, <1>7 DEF Finish, Steps
  <1>8. CASE Revise(p, t) BY <1>4, <1>8 DEF Revise, Steps
  <1>9. ASSUME NEW s \in Sessions, Deliver(p, t, s) PROVE FollowInv'
    <2> DEFINE c == Call(t, "worker")
               n == [c EXCEPT !.seat = s, !.as = "active", !.home = s, !.next = "ledger"]
    <2>1. proc' = [proc EXCEPT ![p] = n] BY <1>9 DEF Deliver, Start
    <2>2. c \in Handler /\ c.at = "worker" BY <1>3 DEF Steps
    <2> HIDE DEF c
    <2>3. n.at = "worker" /\ n.next = "ledger" /\ n.as = "active" BY <2>2 DEF Handler
    <2> HIDE DEF n
    <2> QED BY <1>2, <2>1, <2>3, FollowBy
  <1>10. ASSUME NEW s \in Sessions, Edit(p, t, s) PROVE FollowInv'
    <2>1. UNCHANGED proc BY <1>10 DEF Edit
    <2> QED BY <1>1, <1>2, <2>1 DEF FollowInv, Newcomer, At, On
  <1>11. \A a \in Agents : ~BeginAssign(p, t, a)
    BY DEF BeginAssign, Free, SyncedOps
  <1>12. ASSUME NEW a \in Agents, BeginClaim(p, t, a) PROVE FollowInv'
    <2> DEFINE c == Call(t, "join")
               n == [c EXCEPT !.agent = a, !.as = "active", !.next = "requeue"]
    <2>1. proc' = [proc EXCEPT ![p] = n] BY <1>12 DEF BeginClaim, Start
    <2>2. c \in Handler /\ c.at = "join" BY <1>3 DEF Steps
    <2> HIDE DEF c
    <2>3. n.at = "join" /\ n.next = "requeue" /\ n.as = "active" BY <2>2 DEF Handler
    <2> HIDE DEF n
    <2> QED BY <1>2, <2>1, <2>3, FollowBy
  <1>13. ASSUME NEW a \in Agents, BeginPass(p, t, a) PROVE FollowInv'
    <2> DEFINE c == Call(t, "holder")
               call == [c EXCEPT !.agent = a, !.from = Holder(t)]
               invite == [call EXCEPT !.at = "join", !.next = "holder"]
    <2>1. c \in Handler /\ c.at = "holder" /\ c.next = "idle" /\ c.task = t
      BY <1>3 DEF Steps
    <2>2. Start(p, call) \/ (Start(p, invite) /\ ~roster[t][a].on)
      BY <1>13 DEF BeginPass
    <2> HIDE DEF c
    <2>3. call \in Handler /\ call.at = "holder" /\ call.next = "idle" /\ call.task = t
          /\ call.agent = a
      BY <2>1, HolderType DEF Handler, AnyAgent
    <2> HIDE DEF call
    <2>4. invite.at = "join" /\ invite.next = "holder" /\ invite.task = t /\ invite.agent = a
      BY <2>3 DEF Handler
    <2> HIDE DEF invite
    <2>5. CASE Start(p, call)
      BY <1>2, <2>3, <2>5, FollowBy DEF Start
    <2>6. CASE Start(p, invite) /\ ~roster[t][a].on
      <3>1. ~roster'[t][a].on BY <1>1, <2>6
      <3> QED BY <1>2, <2>4, <2>6, <3>1, FollowBy DEF Start
    <2> QED BY <2>2, <2>5, <2>6
  <1>14. ASSUME NEW a \in Agents, NEW from \in Agents, BeginRest(p, t, from, a)
         PROVE  FollowInv'
    <2> DEFINE step == IF task[t].state = "in_progress" THEN "holder" ELSE "transfer"
               c == Call(t, step)
               n == [c EXCEPT !.agent = a, !.from = from]
    <2>1. Start(p, n) BY <1>14 DEF BeginRest
    <2>2. c \in Handler /\ c.at = step /\ c.next = "idle" BY <1>3 DEF Steps
    <2> HIDE DEF c
    <2>3. n.at \in {"holder", "transfer"} /\ n.next = "idle" BY <2>2 DEF Handler
    <2> HIDE DEF n, step
    <2> QED BY <1>2, <2>1, <2>3, FollowBy DEF Start
  <1> QED BY <1>5, <1>6, <1>7, <1>8, <1>9, <1>10, <1>11, <1>12, <1>13, <1>14 DEF Operation

\* The steps that leave the turn where it is, and do not synchronise.
LEMMA FollowAside ==
  ASSUME TypeInv, FollowInv, OneHandler, SyncedOps, NEW p \in Procs,
         \/ Ledger(p) \/ Requeue(p) \/ Reoffer(p) \/ Settle(p) \/ Back(p) \/ Worker(p)
         \/ SeatHolder(p) \/ Seat(p) \/ Chair(p) \/ Check(p) \/ Insert(p) \/ Ack(p)
         \/ Mark(p) \/ Report(p)
  PROVE  FollowInv'
  <1> DEFINE h == proc[p]
  <1>1. PICK t \in Tasks : t = On(p)
    BY OnType DEF Ledger, Requeue, Reoffer, Settle, Back, Worker, SeatHolder, Seat, Chair,
       Check, Insert, Ack, Mark, Report
  <1>2. h \in Handler /\ RosterOK /\ t = h.task
    BY <1>1, Parts DEF TypeInv, TypeOK, On
  <1>3. Newcomer(p, t) BY <1>1 DEF FollowInv
  <1>4. ~At(p, "sync") /\ UNCHANGED lease
    BY DEF Ledger, Requeue, Reoffer, Settle, Back, Worker, SeatHolder, Seat, Chair, Check,
           Insert, Ack, Mark, Report, At, leaseVars
  <1>5. \A u \in Tasks : TurnStays(u)
    <2>1. ASSUME NEW a, NEW s, roster' = [roster EXCEPT ![t][a].seat = s]
          PROVE  \A u \in Tasks : TurnStays(u)
      BY <1>2, <2>1, SeatsBeside
    <2>2. CASE UNCHANGED roster BY <2>2, TurnsKept
    <2>3. CASE Ledger(p)
      <3>1. UNCHANGED roster
            \/ roster' = [roster EXCEPT ![t][Holder(t)].seat =
                            IF roster[t][Holder(t)].seat = NoSession THEN h.home
                            ELSE roster[t][Holder(t)].seat]
        BY <1>1, <2>3 DEF Ledger
      <3> QED BY <2>1, <2>2, <3>1
    <2>4. CASE SeatHolder(p)
      <3>1. UNCHANGED roster
            \/ roster' = [roster EXCEPT ![t][Holder(t)].seat =
                            IF roster[t][Holder(t)].seat = NoSession THEN h.home
                            ELSE roster[t][Holder(t)].seat]
        BY <1>1, <2>4 DEF SeatHolder
      <3> QED BY <2>1, <2>2, <3>1
    <2>5. CASE Chair(p)
      <3>1. PICK s \in Fresh :
              roster' = [roster EXCEPT ![t][h.agent].seat =
                           IF roster[t][h.agent].on THEN s ELSE roster[t][h.agent].seat]
        BY <1>1, <2>5 DEF Chair
      <3> QED BY <2>1, <3>1
    <2>6. CASE Reoffer(p)
      <3>1. Restatus(t, "withdrawn", "offered") BY <1>1, <2>6 DEF Reoffer
      <3> QED BY <1>2, <3>1, OffersBeside
    <2>7. CASE Settle(p)
      <3>1. PICK status \in {"done", "withdrawn"} : Restatus(t, "offered", status)
        BY <1>1, <2>7 DEF Settle
      <3> QED BY <1>2, <3>1, OffersBeside
    <2> QED BY <2>2, <2>3, <2>4, <2>5, <2>6, <2>7
         DEF Requeue, Back, Worker, Seat, Check, Insert, Ack, Mark, Report
  <1>6. \A u \in Tasks : lease'[u].agent = Holder(u)'
    BY <1>4, <1>5, FollowStays
  <1>7. CASE Return(p)
    <2>1. proc' = [proc EXCEPT ![p] = Idle] BY <1>7 DEF Return
    <2>2. Idle.at = "idle" /\ Idle.next = "idle" BY DEF Idle
    <2> QED BY <1>6, <2>1, <2>2, FollowBy
  <1>8. ASSUME NEW n, proc' = [proc EXCEPT ![p] = n], n.at \notin {"join", "worker"},
               n.next \notin {"join", "worker", "sync"}
        PROVE  FollowInv'
    BY <1>6, <1>8, FollowBy
  <1>9. h.next \notin {"join", "worker", "sync"}
    BY <1>3 DEF Newcomer
  <1>10. ASSUME NEW step, step \notin {"join", "worker"}, Goto(p, step)
         PROVE  FollowInv'
    <2> DEFINE n == [h EXCEPT !.at = step]
    <2>1. proc' = [proc EXCEPT ![p] = n] BY <1>10 DEF Goto
    <2>2. n.at = step /\ n.next = h.next BY <1>2 DEF Handler
    <2> HIDE DEF n, h
    <2> QED BY <1>8, <1>9, <1>10, <2>1, <2>2
  <1>11. CASE Back(p)
    <2> DEFINE n == [h EXCEPT !.at = "report", !.agent = Holder(On(p)),
                              !.seat = WorkingSession(On(p), h.home)]
    <2>1. proc' = [proc EXCEPT ![p] = n] BY <1>11 DEF Back
    <2> HIDE DEF h
    <2>2. n.at = "report" /\ n.next = h.next BY <1>2 DEF Handler
    <2> HIDE DEF n
    <2> QED BY <1>8, <1>9, <2>1, <2>2
  <1>12. CASE Worker(p)
    <2>1. PICK a \in Agents : proc' = [proc EXCEPT ![p] = [h EXCEPT !.at = "join", !.agent = a]]
      BY <1>12 DEF Worker
    <2> DEFINE n == [h EXCEPT !.at = "join", !.agent = a]
    <2>2. proc' = [proc EXCEPT ![p] = n] BY <2>1
    <2>3. h.as = "active" BY <1>3, <1>12 DEF Newcomer, Worker
    <2> HIDE DEF h
    <2>4. n.at = "join" /\ n.next = h.next /\ n.as = h.as BY <1>2 DEF Handler
    <2> HIDE DEF n
    <2> QED BY <1>6, <1>9, <2>2, <2>3, <2>4, FollowBy
  <1>13. CASE Seat(p)
    <2> DEFINE m == roster[t][h.agent]
               invite == [h EXCEPT !.at = "join", !.next = "chair"]
               n == IF m.seat = NoSession THEN [h EXCEPT !.at = "chair"]
                    ELSE [h EXCEPT !.at = "check", !.seat = m.seat]
    <2>1. /\ proc' = [proc EXCEPT ![p] = IF ~m.on THEN invite ELSE n]
          /\ UNCHANGED roster
      BY <1>1, <1>13 DEF Seat
    <2>2. CASE ~m.on
      <3>1. invite.at = "join" /\ invite.next = "chair" /\ invite.agent = h.agent
            /\ invite.task = t
        BY <1>2 DEF Handler
      <3>2. ~roster'[invite.task][invite.agent].on BY <2>1, <2>2, <3>1
      <3>3. proc' = [proc EXCEPT ![p] = invite] BY <2>1, <2>2
      <3> HIDE DEF invite
      <3> QED BY <1>6, <3>1, <3>2, <3>3, FollowBy
    <2>3. CASE m.on
      <3>1. proc' = [proc EXCEPT ![p] = n] BY <2>1, <2>3
      <3> HIDE DEF h, m
      <3>2. n.at \in {"chair", "check"} /\ n.next = h.next BY <1>2 DEF Handler
      <3> HIDE DEF n
      <3> QED BY <1>8, <1>9, <3>1, <3>2
    <2> QED BY <2>2, <2>3
  <1>14. CASE Chair(p)
    <2>1. PICK s \in Fresh : proc' = [proc EXCEPT ![p] = [h EXCEPT !.at = "check", !.seat = s]]
      BY <1>14 DEF Chair
    <2> DEFINE n == [h EXCEPT !.at = "check", !.seat = s]
    <2>2. proc' = [proc EXCEPT ![p] = n] BY <2>1
    <2> HIDE DEF h
    <2>3. n.at = "check" /\ n.next = h.next BY <1>2 DEF Handler
    <2> HIDE DEF n
    <2> QED BY <1>8, <1>9, <2>2, <2>3
  <1>15. CASE Ack(p)
    <2>1. ASSUME ~Return(p) PROVE FollowInv'
      <3>1. PICK k \in handoffs[On(p)] :
              proc' = [proc EXCEPT ![p] = [h EXCEPT !.at = "transfer", !.next = "mark",
                                                    !.from = k.from, !.hand = k.by]]
        BY <1>15, <2>1 DEF Ack
      <3> DEFINE n == [h EXCEPT !.at = "transfer", !.next = "mark", !.from = k.from, !.hand = k.by]
      <3>2. proc' = [proc EXCEPT ![p] = n] BY <3>1
      <3> HIDE DEF h
      <3>3. n.at = "transfer" /\ n.next = "mark" BY <1>2 DEF Handler
      <3> HIDE DEF n
      <3> QED BY <1>8, <3>2, <3>3
    <2> QED BY <1>7, <2>1
  <1>16. CASE \/ Ledger(p) \/ Requeue(p) \/ Reoffer(p) \/ Settle(p) \/ SeatHolder(p)
              \/ Check(p) \/ Insert(p) \/ Mark(p) \/ Report(p)
    BY <1>7, <1>10, <1>16
    DEF Ledger, Requeue, Reoffer, Settle, SeatHolder, Check, Insert, Mark, Report
  <1> QED BY <1>11, <1>12, <1>13, <1>14, <1>15, <1>16

\* The steps that move the turn or the lease.
LEMMA FollowMoves ==
  ASSUME TypeInv, FollowInv, OneHandler, NEW p \in Procs, Join(p) \/ Transfer(p) \/ Sync(p)
  PROVE  FollowInv'
  <1> DEFINE h == proc[p]
  <1>1. PICK t \in Tasks : t = On(p)
    BY OnType DEF Join, Transfer, Sync
  <1>2. h \in Handler /\ RosterOK /\ t = h.task
    BY <1>1, Parts DEF TypeInv, TypeOK, On
  <1>3. Newcomer(p, t) BY <1>1 DEF FollowInv
  <1>4. h.next \notin {"join", "worker", "sync"}
    BY <1>3 DEF Newcomer
  <1>5. ASSUME \A u \in Tasks : lease'[u].agent = Holder(u)', Return(p)
        PROVE  FollowInv'
    <2>1. Idle.at = "idle" /\ Idle.next = "idle" BY DEF Idle
    <2> QED BY <1>5, <2>1, FollowBy DEF Return
  <1>6. ASSUME \A u \in Tasks : lease'[u].agent = Holder(u)', Continue(p)
        PROVE  FollowInv'
    <2>1. CASE h.next = "idle" BY <1>5, <1>6, <2>1 DEF Continue
    <2>2. CASE h.next # "idle"
      <3> DEFINE n == [h EXCEPT !.at = h.next, !.next = "idle"]
      <3>1. proc' = [proc EXCEPT ![p] = n] BY <1>6, <2>2 DEF Continue
      <3> HIDE DEF h
      <3>2. n.at = h.next /\ n.next = "idle" BY <1>2 DEF Handler
      <3> HIDE DEF n
      <3> QED BY <1>4, <1>6, <3>1, <3>2, FollowBy
    <2> QED BY <2>1, <2>2
  <1>7. ASSUME ~At(p, "sync"), UNCHANGED lease, NEW r, SetRoster(t, r), Goto(p, "sync")
        PROVE  FollowInv'
    <2> DEFINE n == [h EXCEPT !.at = "sync"]
    <2>1. \A u \in Tasks : u # t => lease'[u].agent = Holder(u)'
      BY <1>2, <1>7, RosterElsewhere, FollowStays
    <2>2. proc' = [proc EXCEPT ![p] = n] BY <1>7 DEF Goto
    <2> HIDE DEF h
    <2>3. n.at = "sync" /\ n.next = h.next /\ n.task = t BY <1>2 DEF Handler
    <2> HIDE DEF n
    <2> QED BY <1>4, <2>1, <2>2, <2>3, FollowBy
  <1>8. CASE Join(p)
    <2>1. ~At(p, "sync") /\ UNCHANGED lease
          /\ SetRoster(t, Joined(roster[t], h.agent, h.as, h.seat))
      BY <1>1, <1>8 DEF Join, At, leaseVars
    <2>2. CASE h.as = "active"
      BY <1>7, <1>8, <2>1, <2>2 DEF Join
    <2>3. CASE h.as # "active"
      <3>1. ~roster[t][h.agent].on BY <1>3, <1>8, <2>3 DEF Newcomer, Join
      <3>2. /\ Active(t)' = Active(t) \ {h.agent}
            /\ \A b \in Agents : b # h.agent => roster'[t][b] = roster[t][b]
        <4>1. PICK a, k, s : a = h.agent /\ k = h.as /\ s = h.seat
          OBVIOUS
        <4>2. RosterOK /\ k # "active" /\ SetRoster(t, Joined(roster[t], a, k, s))
          BY <1>2, <2>1, <2>3, <4>1
        <4>3. Active(t)' = Active(t) \ {a}
          BY <4>2, JoinsBeside
        <4>4. \A b \in Agents : b # a => roster'[t][b] = roster[t][b]
          BY <4>2, JoinsBeside, ZenonT(60)
        <4> QED BY <4>1, <4>3, <4>4
      <3>3. h.agent \notin Active(t) BY <3>1 DEF Active
      <3>4. Active(t)' = Active(t) BY <3>2, <3>3
      <3>5. \A a \in Active(t) : a \in Agents /\ a # h.agent BY <3>3 DEF Active
      <3>6. TurnStays(t) BY <3>2, <3>4, <3>5 DEF TurnStays
      <3>7. \A u \in Tasks : TurnStays(u) BY <1>2, <2>1, <3>6, RosterElsewhere
      <3>8. \A u \in Tasks : lease'[u].agent = Holder(u)' BY <2>1, <3>7, FollowStays
      <3> QED BY <1>6, <1>8, <2>3, <3>8 DEF Join
    <2> QED BY <2>2, <2>3
  <1>9. CASE Transfer(p)
    <2>1. ~At(p, "sync") /\ UNCHANGED lease
      BY <1>9 DEF Transfer, At, leaseVars
    <2>2. CASE roster[t][h.agent].on
      BY <1>1, <1>7, <1>9, <2>1, <2>2 DEF Transfer
    <2>3. CASE ~roster[t][h.agent].on
      <3>1. Return(p) /\ UNCHANGED roster BY <1>1, <1>9, <2>3 DEF Transfer
      <3>2. \A u \in Tasks : lease'[u].agent = Holder(u)'
        BY <2>1, <3>1, TurnsKept, FollowStays
      <3> QED BY <1>5, <3>1, <3>2
    <2> QED BY <2>2, <2>3
  <1>10. CASE Sync(p)
    <2>1. SyncLease(t) /\ Continue(p) /\ UNCHANGED roster
      BY <1>1, <1>10 DEF Sync
    <2>2. \A u \in Tasks : Holder(u)' = Holder(u)
      BY <2>1, TurnsKept, HolderStays
    <2>3. \A u \in Tasks : u # t => ~Syncing(u)
      BY <1>1 DEF Syncing, OneHandler
    <2>4. \A u \in Tasks : lease'[u].agent = Holder(u)'
      BY <2>1, <2>2, <2>3, SyncFollows DEF FollowInv
    <2> QED BY <1>6, <2>1, <2>4
  <1> QED BY <1>8, <1>9, <1>10

LEMMA FollowKeeping ==
  ASSUME OneHandler, SyncedOps PROVE Spec => []FollowInv
  <1>1. Init => FollowInv
    <2> SUFFICES ASSUME Init PROVE FollowInv
      OBVIOUS
    <2>1. \A t \in Tasks : Active(t) = {} /\ lease[t].agent = NoAgent
      BY DEF Init, Active, Absent, NoLease
    <2>2. \A t \in Tasks : Holder(t) = NoAgent
      BY <2>1 DEF Holder, First
    <2>3. \A p \in Procs : On(p) = NoTask
      BY DEF Init, On, Idle
    <2> QED BY <2>1, <2>2, <2>3, LeaseNoTask DEF FollowInv
  <1>2. TypeInv /\ FollowInv /\ [Next]_vars => FollowInv'
    <2> SUFFICES ASSUME TypeInv, FollowInv, [Next]_vars PROVE FollowInv'
      OBVIOUS
    <2>1. ASSUME NEW p \in Procs, Step(p) PROVE FollowInv'
      <3>1. ~Stop(p) BY DEF Stop, SyncedOps
      <3> QED BY <2>1, <3>1, FollowAside, FollowMoves DEF Step
    <2>2. CASE \E p \in Procs, t \in Tasks : Operation(p, t)
      BY <2>2, FollowBegins
    <2>3. ASSUME UNCHANGED proc, UNCHANGED roster,
                 \A u \in Tasks : lease'[u].agent = lease[u].agent \/ lease'[u].agent = Holder(u)
          PROVE  FollowInv'
      <3>1. \A u \in Tasks : Holder(u)' = Holder(u)
        BY <2>3, TurnsKept, HolderStays
      <3> QED BY <2>3, <3>1 DEF FollowInv, Syncing, Newcomer, At, On
    <2>4. ASSUME NEW t \in Tasks, ReadLease(t) PROVE FollowInv'
      BY <2>3, <2>4, SyncFollows DEF ReadLease
    <2>5. \A t \in Tasks, a \in Agents : ~Leave(t, a)
      BY DEF Leave, SyncedOps
    <2>6. ASSUME NEW l \in Lanes, Land(l) \/ \E t \in Tasks : Launch(l, t) PROVE FollowInv'
      BY <2>3, <2>6 DEF Land, Launch
    <2>7. CASE UNCHANGED vars
      BY <2>3, <2>7 DEF vars, leaseVars
    <2> QED BY <2>1, <2>2, <2>4, <2>5, <2>6, <2>7 DEF Next
  <1> QED BY <1>1, <1>2, LeaseTyping, PTL DEF Spec

(***************************************************************************)
(* Between operations the recorded lease is the active member's: each way  *)
(* of moving the turn that is in use ends by synchronising the lease.      *)
(* Not so an assignment that demotes the holder, leaving the roster, or a  *)
(* handler that stops between the two: with any of them the lease waits    *)
(* for its next reader.                                                    *)
(***************************************************************************)
THEOREM LeaseFollowsHolder ==
  ASSUME OneHandler, SyncedOps
  PROVE  Spec => []LeaseIsHolders
  <1>1. TypeInv /\ FollowInv => LeaseIsHolders
    BY DEF FollowInv, LeaseIsHolders, Settled, Syncing
  <1> QED BY <1>1, LeaseTyping, FollowKeeping, PTL

-----------------------------------------------------------------------------
(* The task reports from the holder's conversation.  What a handler read of *)
(* its task at the start still holds when it uses it, the seat it found or *)
(* made is the receiver's, and work that has not started seats nobody.     *)

ReportingOps == Ops \cap {"assign", "leave", "stop", "rest", "transfer", "requeue"} = {}

Working(t) == WorkingSession(t, task[t].session)
Reports(t) == task[t].reporting \in {NoSession, Working(t)}

\* On the way through a claim; giving the task to a session; with the turn
\* given and the task still to follow.
Claiming(h) == h.at = "requeue" \/ (h.at \in {"join", "sync"} /\ h.next = "requeue")
Giving(h) == h.at = "worker" \/ (h.at = "join" /\ h.next = "ledger")
Given(h) == h.at \in {"mark", "report"} \/ (h.at = "sync" /\ h.next = "mark")
Moving(h) == Giving(h) \/ Given(h) \/ h.at = "back"
\* Steps that may fill a seat, or lead to one that does.
Seats(h) == \/ h.at \in {"holder", "seat", "chair", "ledger", "worker"}
            \/ h.at = "join" /\ h.next \in Inviting \cup {"ledger"}
            \/ h.at = "sync" /\ h.next = "ledger"

Path(h) ==
  /\ h.at = "join" => h.next \in Inviting \cup {"requeue", "ledger"} /\ h.agent \in Agents
  /\ h.at = "sync" => h.next \in {"requeue", "ledger", "mark"}
  /\ h.at = "worker" => h.next = "ledger"
  /\ h.at = "transfer" => h.next = "mark"
  /\ OnPass(h) => h.agent \in Agents

PlaceOf(h, t) ==
  /\ h.at # "idle" => h.home = task[t].session
  /\ Path(h)
  /\ Claiming(h) => task[t].state = "todo" /\ h.seat = NoSession
  /\ Seats(h) => task[t].state # "todo"
  /\ h.at = "seat" => \A a \in Active(t) : roster[t][a].seat # NoSession
  /\ h.at = "chair" => roster[t][h.agent].on /\ h.agent \notin Active(t)
  /\ h.at \in {"check", "insert", "ack", "transfer"} =>
       h.seat # NoSession /\ roster[t][h.agent].seat = h.seat
  /\ Given(h) => h.seat = Working(t)
  /\ Giving(h) => h.as = "active" /\ h.seat = h.home /\ task[t].reporting = h.home

\* Work that has not started seats nobody.
Bare(t) == task[t].state = "todo" => \A a \in Agents : roster[t][a].seat = NoSession

ReportInv == \A t \in Tasks :
  /\ Bare(t)
  /\ task[t].state = "in_progress" =>
       Reports(t) \/ \E p \in Procs : On(p) = t /\ Moving(proc[p])
  /\ \A p \in Procs : On(p) = t => PlaceOf(proc[p], t)

SeatsStay(t) == \A a \in Agents : roster'[t][a].seat = roster[t][a].seat

\* The holder's conversation: a seat filled with the one it has stood for
\* makes no difference.
LEMMA WorkingStays ==
  ASSUME NEW t, TurnStays(t), task'[t].session = task[t].session,
         \A a \in Active(t) : \/ roster'[t][a].seat = roster[t][a].seat
                              \/ /\ roster[t][a].seat = NoSession
                                 /\ roster'[t][a].seat = task[t].session
  PROVE  Working(t)' = Working(t)
  <1>1. Holder(t)' = Holder(t) BY HolderStays
  <1>2. Holder(t) # NoAgent => Holder(t) \in Active(t) BY HolderIsActive
  <1>3. CASE Holder(t) = NoAgent
    BY <1>1, <1>3 DEF Working, WorkingSession
  <1>4. CASE Holder(t) # NoAgent
    <2> DEFINE a == Holder(t)
    <2>1. \/ roster'[t][a].seat = roster[t][a].seat
          \/ /\ roster[t][a].seat = NoSession
             /\ roster'[t][a].seat = task[t].session
      BY <1>2, <1>4
    <2>2. Working(t) = IF roster[t][a].seat # NoSession THEN roster[t][a].seat
                       ELSE task[t].session
      BY <1>4 DEF Working, WorkingSession
    <2>3. Working(t)' = IF roster'[t][a].seat # NoSession THEN roster'[t][a].seat
                        ELSE task'[t].session
      BY <1>1, <1>4 DEF Working, WorkingSession
    <2> HIDE DEF a
    <2> QED BY <2>1, <2>2, <2>3
  <1> QED BY <1>3, <1>4

LEMMA WorkingAlone ==
  ASSUME RosterOK', NEW t \in Tasks, NEW a \in Agents, Active(t)' = {a},
         roster'[t][a].seat # NoSession
  PROVE  Working(t)' = roster'[t][a].seat
  <1>1. (roster'[t][a].since <= roster'[t][a].since)
    BY DEF RosterOK, Member
  <1>2. First(t)' = {a}
    BY <1>1 DEF First
  <1>3. Holder(t)' = a
    BY <1>2 DEF Holder
  <1>4. a # NoAgent BY LeaseNoAgent
  <1> QED BY <1>3, <1>4 DEF Working, WorkingSession

\* What a handler's next record has to satisfy.
LEMMA ReportBy ==
  ASSUME TypeInv, OneHandler, NEW p \in Procs, NEW n, proc' = [proc EXCEPT ![p] = n],
         \A t \in Tasks : Bare(t)',
         \A t \in Tasks : task'[t].state = "in_progress" =>
                            Reports(t)' \/ (n.task = t /\ Moving(n)),
         \A t \in Tasks : n.task = t => PlaceOf(n, t)'
  PROVE  ReportInv'
  <1>1. proc'[p] = n /\ \A q \in Procs : q = p
    BY DEF TypeInv, TypeOK, OneHandler
  <1>2. SUFFICES ASSUME NEW t \in Tasks
                 PROVE  /\ task'[t].state = "in_progress" =>
                             Reports(t)' \/ \E q \in Procs : On(q)' = t /\ Moving(proc'[q])
                        /\ \A q \in Procs : On(q)' = t => PlaceOf(proc[q], t)'
    BY DEF ReportInv
  <1>3. ASSUME NEW q \in Procs, On(q)' = t PROVE PlaceOf(proc[q], t)'
    <2>1. proc'[q] = n /\ n.task = t BY <1>1, <1>3 DEF On
    <2>2. PlaceOf(n, t)' BY <2>1
    <2> QED BY <2>1, <2>2 DEF PlaceOf
  <1> QED BY <1>1, <1>3 DEF On

RowStays(t) == /\ task'[t].state = task[t].state
               /\ task'[t].session = task[t].session
               /\ task'[t].reporting = task[t].reporting
SeatsFill(t) == \A a \in Active(t) : \/ roster'[t][a].seat = roster[t][a].seat
                                     \/ /\ roster[t][a].seat = NoSession
                                        /\ roster'[t][a].seat = task[t].session

LEMMA RowElsewhere ==
  ASSUME TypeInv, NEW t, NEW row, SetTask(t, row), NEW u \in Tasks, u # t
  PROVE  task'[u] = task[u]
  BY DEF SetTask, TypeInv, TypeOK

LEMMA RowThere ==
  ASSUME TypeInv, NEW t \in Tasks, NEW row, SetTask(t, row)
  PROVE  task'[t] = row
  BY DEF SetTask, TypeInv, TypeOK

LEMMA TaskStays ==
  ASSUME ReportInv, NEW t \in Tasks, RowStays(t), TurnStays(t), SeatsFill(t),
         SeatsStay(t) \/ task[t].state # "todo"
  PROVE  /\ Bare(t)' /\ Working(t)' = Working(t)
         /\ Reports(t) => Reports(t)'
  <1>1. Working(t)' = Working(t)
    BY WorkingStays DEF RowStays, SeatsFill
  <1> QED BY <1>1 DEF ReportInv, Bare, RowStays, SeatsStay, Reports

\* Where nothing is on the move, what is in progress reports as it should.
LEMMA ReportsNow ==
  ASSUME ReportInv, OneHandler, NEW p \in Procs, ~Moving(proc[p]),
         NEW t \in Tasks, task[t].state = "in_progress"
  PROVE  Reports(t)
  BY DEF ReportInv, OneHandler

LEMMA TaskUntouched ==
  ASSUME ReportInv, OneHandler, NEW p \in Procs, ~Moving(proc[p]),
         NEW t \in Tasks, task'[t] = task[t], roster'[t] = roster[t]
  PROVE  /\ Bare(t)' /\ Working(t)' = Working(t)
         /\ task'[t].state = "in_progress" => Reports(t)'
  <1>1. RowStays(t) /\ TurnStays(t) /\ SeatsFill(t) /\ SeatsStay(t)
    BY DEF RowStays, TurnStays, Active, SeatsFill, SeatsStay
  <1> QED BY <1>1, TaskStays, ReportsNow DEF RowStays

LEMMA TaskElsewhere ==
  ASSUME TypeInv, ReportInv, OneHandler, NEW p \in Procs, NEW t \in Tasks, On(p) = t,
         NEW u \in Tasks, u # t, task'[u] = task[u], roster'[u] = roster[u]
  PROVE  /\ Bare(u)'
         /\ task'[u].state = "in_progress" => Reports(u)'
  <1>1. RowStays(u) /\ TurnStays(u) /\ SeatsFill(u) /\ SeatsStay(u)
    BY DEF RowStays, TurnStays, Active, SeatsFill, SeatsStay
  <1>2. task[u].state = "in_progress" => Reports(u)
    BY DEF ReportInv, OneHandler
  <1> QED BY <1>1, <1>2, TaskStays DEF RowStays

\* Beginning an operation.
LEMMA ReportBegins ==
  ASSUME TypeInv, ReportInv, OneHandler, ReportingOps,
         NEW p \in Procs, NEW t \in Tasks, Operation(p, t)
  PROVE  ReportInv'
  <1>1. proc[p].at = "idle" /\ UNCHANGED roster
    BY DEF Operation, Dispatch, BeginRequeue, Finish, Revise, Deliver, Edit, BeginAssign,
           BeginClaim, BeginPass, BeginRest, Free
  <1>2. ~Moving(proc[p])
    BY <1>1 DEF Moving, Giving, Given
  <1>3. \A u \in Tasks : task'[u] = task[u] =>
          Bare(u)' /\ Working(u)' = Working(u) /\ (task'[u].state = "in_progress" => Reports(u)')
    BY <1>1, <1>2, TaskUntouched
  <1>4. /\ task[t] \in Task
        /\ \A step \in Steps :
             /\ Call(t, step) \in Handler /\ Call(t, step).at = step
             /\ Call(t, step).next = "idle" /\ Call(t, step).task = t
             /\ Call(t, step).home = task[t].session /\ Call(t, step).seat = NoSession
    <2>1. Idle \in Handler /\ Idle.seat = NoSession BY IdleType DEF Idle
    <2>2. \A step : Call(t, step).home = task[t].session /\ Call(t, step).seat = NoSession
      BY <2>1 DEF Call, Handler
    <2> QED BY <2>2, CallType DEF TypeInv, TypeOK
  <1>5. task[t].session \in Sessions /\ task[t].session # NoSession
    BY <1>4, LeaseNoSession DEF Task
  <1>14. ASSUME NEW row, SetTask(t, row), NEW n, Start(p, n), n.task = t,
                Bare(t)', task'[t].state = "in_progress" => Reports(t)' \/ Moving(n),
                PlaceOf(n, t)'
         PROVE  ReportInv'
    <2>1. \A u \in Tasks : u # t => Bare(u)' /\ (task'[u].state = "in_progress" => Reports(u)')
      BY <1>3, <1>14, RowElsewhere
    <2> QED BY <1>14, <2>1, ReportBy DEF Start
  <1>15. ASSUME UNCHANGED task, NEW n, Start(p, n), n.task = t, PlaceOf(n, t)'
         PROVE  ReportInv'
    BY <1>3, <1>15, ReportBy DEF Start
  <1>6. CASE Dispatch(p, t)
    <2>1. PICK row : row = [task[t] EXCEPT !.state = "in_progress", !.reporting = task[t].session]
      OBVIOUS
    <2>2. PICK n : n = Call(t, "ledger")
      OBVIOUS
    <2>3. SetTask(t, row) /\ Start(p, n) /\ task[t].state = "todo" BY <1>6, <2>1, <2>2 DEF Dispatch
    <2>4. task'[t] = row BY <2>3, RowThere
    <2>5. row.state = "in_progress" /\ row.session = task[t].session /\ row.reporting = row.session
      BY <1>4, <2>1 DEF Task
    <2>6. Reports(t)'
      <3>1. \A a \in Agents : roster'[t][a].seat = NoSession
        BY <1>1, <2>3 DEF ReportInv, Bare
      <3>2. Holder(t)' = Holder(t) /\ Holder(t) \in AnyAgent
        BY <1>1, TurnsKept, HolderStays, HolderType
      <3>3. Working(t)' = task'[t].session
        BY <3>1, <3>2 DEF Working, WorkingSession, AnyAgent
      <3> QED BY <2>4, <2>5, <3>3 DEF Reports
    <2>7. n.at = "ledger" /\ n.next = "idle" /\ n.task = t /\ n.home = task[t].session
      BY <1>4, <2>2 DEF Steps
    <2>8. PlaceOf(n, t)'
      BY <2>4, <2>5, <2>7 DEF PlaceOf, Path, OnPass, Passing, Claiming, Seats, Given, Giving
    <2>9. Bare(t)' BY <2>4, <2>5 DEF Bare
    <2> QED BY <1>14, <2>3, <2>6, <2>7, <2>8, <2>9
  <1>7. CASE Finish(p, t)
    <2>1. PICK row : row = [task[t] EXCEPT !.state = "over", !.reporting = NoSession]
      OBVIOUS
    <2>2. PICK n : n = Call(t, "settle")
      OBVIOUS
    <2>3. SetTask(t, row) /\ Start(p, n) BY <1>7, <2>1, <2>2 DEF Finish
    <2>4. task'[t] = row BY <2>3, RowThere
    <2>5. row.state = "over" /\ row.session = task[t].session
      BY <1>4, <2>1 DEF Task
    <2>6. n.at = "settle" /\ n.next = "idle" /\ n.task = t /\ n.home = task[t].session
      BY <1>4, <2>2 DEF Steps
    <2>7. PlaceOf(n, t)'
      BY <2>4, <2>5, <2>6 DEF PlaceOf, Path, OnPass, Passing, Claiming, Seats, Given, Giving
    <2>8. Bare(t)' BY <2>4, <2>5 DEF Bare
    <2> QED BY <1>14, <2>3, <2>4, <2>5, <2>6, <2>7, <2>8
  <1>8. CASE Revise(p, t)
    <2>1. PICK row : row = [task[t] EXCEPT !.state = "in_progress", !.reporting = task[t].session]
      OBVIOUS
    <2>2. PICK n : n = Call(t, "back")
      OBVIOUS
    <2>3. SetTask(t, row) /\ Start(p, n) BY <1>8, <2>1, <2>2 DEF Revise
    <2>4. task'[t] = row BY <2>3, RowThere
    <2>5. row.state = "in_progress" /\ row.session = task[t].session
      BY <1>4, <2>1 DEF Task
    <2>6. n.at = "back" /\ n.next = "idle" /\ n.task = t /\ n.home = task[t].session
      BY <1>4, <2>2 DEF Steps
    <2>7. PlaceOf(n, t)'
      BY <2>4, <2>5, <2>6 DEF PlaceOf, Path, OnPass, Passing, Claiming, Seats, Given, Giving
    <2>8. Bare(t)' BY <2>4, <2>5 DEF Bare
    <2>9. Moving(n) BY <2>6 DEF Moving
    <2> QED BY <1>14, <2>3, <2>6, <2>7, <2>8, <2>9
  <1>9. ASSUME NEW s \in Sessions, Deliver(p, t, s) PROVE ReportInv'
    <2>1. PICK row : row = [task[t] EXCEPT !.state = "in_progress", !.session = s, !.reporting = s]
      OBVIOUS
    <2>2. PICK c : c = Call(t, "worker")
      OBVIOUS
    <2>3. PICK n : n = [c EXCEPT !.seat = s, !.as = "active", !.home = s, !.next = "ledger"]
      OBVIOUS
    <2>4. SetTask(t, row) /\ Start(p, n) BY <1>9, <2>1, <2>2, <2>3 DEF Deliver
    <2>5. task'[t] = row BY <2>4, RowThere
    <2>6. row.state = "in_progress" /\ row.session = s /\ row.reporting = s
      BY <1>4, <2>1 DEF Task
    <2>7. c \in Handler /\ c.at = "worker" /\ c.task = t
      BY <1>4, <2>2 DEF Steps
    <2>8. n.at = "worker" /\ n.next = "ledger" /\ n.task = t /\ n.home = s /\ n.seat = s
          /\ n.as = "active"
      BY <2>3, <2>7 DEF Handler
    <2>9. PlaceOf(n, t)'
      BY <2>5, <2>6, <2>8 DEF PlaceOf, Path, OnPass, Passing, Claiming, Seats, Given, Giving
    <2>10. Bare(t)' BY <2>5, <2>6 DEF Bare
    <2>11. Moving(n) BY <2>8 DEF Moving, Giving
    <2> QED BY <1>14, <2>4, <2>8, <2>9, <2>10, <2>11
  <1>10. ASSUME NEW s \in Sessions, Edit(p, t, s) PROVE ReportInv'
    <2>1. PICK row : row = [task[t] EXCEPT !.session = s, !.reporting = NoSession]
      OBVIOUS
    <2>2. SetTask(t, row) /\ UNCHANGED proc BY <1>10, <2>1 DEF Edit
    <2>3. task'[t] = row BY <2>2, RowThere
    <2>4. row.state = task[t].state /\ row.reporting = NoSession
      BY <1>4, <2>1 DEF Task
    <2>5. Bare(t)' /\ Reports(t)'
      BY <1>1, <2>3, <2>4 DEF Bare, Reports, ReportInv
    <2>6. \A u \in Tasks : Bare(u)' /\ (task'[u].state = "in_progress" => Reports(u)')
      BY <1>3, <2>2, <2>5, RowElsewhere
    <2>7. ASSUME NEW q \in Procs, NEW u \in Tasks, On(q)' = u PROVE PlaceOf(proc[q], u)'
      <3>1. proc'[q].at = "idle" BY <1>1, <2>2 DEF OneHandler
      <3>2. Path(proc[q])' BY <2>2, <2>7 DEF ReportInv, PlaceOf, On, Path, OnPass
      <3> QED BY <3>1, <3>2 DEF PlaceOf, Claiming, Seats, Given, Giving
    <2> QED BY <2>6, <2>7 DEF ReportInv
  <1>11. ASSUME NEW a \in Agents, BeginClaim(p, t, a) PROVE ReportInv'
    <2>1. PICK c : c = Call(t, "join")
      OBVIOUS
    <2>2. PICK n : n = [c EXCEPT !.agent = a, !.as = "active", !.next = "requeue"]
      OBVIOUS
    <2>3. Start(p, n) /\ UNCHANGED task /\ task[t].state = "todo"
      BY <1>11, <2>1, <2>2 DEF BeginClaim
    <2>4. c \in Handler /\ c.at = "join" /\ c.task = t /\ c.home = task[t].session
          /\ c.seat = NoSession
      BY <1>4, <2>1 DEF Steps
    <2>5. n.at = "join" /\ n.next = "requeue" /\ n.task = t /\ n.home = task[t].session
          /\ n.seat = NoSession /\ n.agent = a
      BY <2>2, <2>4 DEF Handler
    <2>6. PlaceOf(n, t)'
      BY <2>3, <2>5 DEF PlaceOf, Path, OnPass, Passing, Inviting, Claiming, Seats, Given, Giving
    <2> QED BY <1>15, <2>3, <2>5, <2>6
  <1>12. ASSUME NEW a \in Agents, BeginPass(p, t, a) PROVE ReportInv'
    <2>1. PICK c : c = Call(t, "holder")
      OBVIOUS
    <2>2. PICK call : call = [c EXCEPT !.agent = a, !.from = Holder(t)]
      OBVIOUS
    <2>3. PICK invite : invite = [call EXCEPT !.at = "join", !.next = "holder"]
      OBVIOUS
    <2>4. /\ Start(p, call) \/ Start(p, invite)
          /\ UNCHANGED task /\ task[t].state = "in_progress"
      BY <1>12, <2>1, <2>2, <2>3 DEF BeginPass
    <2>5. c \in Handler /\ c.at = "holder" /\ c.next = "idle" /\ c.task = t
          /\ c.home = task[t].session
      BY <1>4, <2>1 DEF Steps
    <2>6. call \in Handler /\ call.at = "holder" /\ call.next = "idle" /\ call.task = t
          /\ call.home = task[t].session /\ call.agent = a
      BY <2>2, <2>5, HolderType DEF Handler, AnyAgent
    <2>7. invite.at = "join" /\ invite.next = "holder" /\ invite.task = t
          /\ invite.home = task[t].session /\ invite.agent = a
      BY <2>3, <2>6 DEF Handler
    <2>8. PlaceOf(call, t)'
      BY <2>4, <2>6 DEF PlaceOf, Path, Claiming, Seats, Given, Giving
    <2>9. PlaceOf(invite, t)'
      BY <2>4, <2>7 DEF PlaceOf, Path, Inviting, Claiming, Seats, Given, Giving
    <2> QED BY <1>15, <2>4, <2>6, <2>7, <2>8, <2>9
  <1>13. /\ ~BeginRequeue(p, t)
         /\ \A a \in Agents : ~BeginAssign(p, t, a) /\ \A from \in Agents : ~BeginRest(p, t, from, a)
    BY DEF BeginRequeue, BeginAssign, BeginRest, Free, ReportingOps
  <1> QED BY <1>6, <1>7, <1>8, <1>9, <1>10, <1>11, <1>12, <1>13 DEF Operation

\* A handler's step touches its own task only.
LEMMA StepElsewhere ==
  ASSUME TypeInv, NEW p \in Procs, Step(p), NEW u \in Tasks, u # On(p)
  PROVE  task'[u] = task[u] /\ roster'[u] = roster[u]
  <1> DEFINE h == proc[p]
             t == On(p)
  <1>1. RosterOK BY Parts
  <1>2. ASSUME NEW a, NEW s, roster' = [roster EXCEPT ![t][a].seat = s]
        PROVE  roster'[u] = roster[u]
    BY <1>1, <1>2 DEF RosterOK
  <1>3. ASSUME NEW from, NEW to, Restatus(t, from, to) PROVE roster'[u] = roster[u]
    BY <1>1, <1>3, RosterElsewhere DEF Restatus
  <1>4. UNCHANGED task \/ \E row : SetTask(t, row)
    BY DEF Step, Join, Sync, Ledger, Requeue, Reoffer, Settle, Back, Worker, SeatHolder, Seat,
           Chair, Check, Insert, Ack, Transfer, Mark, Report, Stop
  <1>5. task'[u] = task[u] BY <1>4, RowElsewhere
  <1>6. CASE Join(p) BY <1>1, <1>5, <1>6, RosterElsewhere DEF Join
  <1>7. CASE Transfer(p) BY <1>1, <1>5, <1>7, RosterElsewhere DEF Transfer
  <1>8. CASE Reoffer(p) BY <1>3, <1>5, <1>8 DEF Reoffer
  <1>9. CASE Settle(p) BY <1>3, <1>5, <1>9 DEF Settle
  <1>10. CASE Ledger(p)
    <2>1. UNCHANGED roster \/ \E a, s : roster' = [roster EXCEPT ![t][a].seat = s]
      BY <1>10 DEF Ledger
    <2> QED BY <1>2, <1>5, <2>1
  <1>11. CASE SeatHolder(p)
    <2>1. UNCHANGED roster \/ \E a, s : roster' = [roster EXCEPT ![t][a].seat = s]
      BY <1>11 DEF SeatHolder
    <2> QED BY <1>2, <1>5, <2>1
  <1>12. CASE Chair(p)
    <2>1. \E a, s : roster' = [roster EXCEPT ![t][a].seat = s]
      BY <1>12 DEF Chair
    <2> QED BY <1>2, <1>5, <2>1
  <1> QED BY <1>5, <1>6, <1>7, <1>8, <1>9, <1>10, <1>11, <1>12
       DEF Step, Sync, Requeue, Back, Worker, Seat, Check, Insert, Ack, Mark, Report, Stop

\* What a step has to do for its task, and for the handler's next record.
LEMMA ReportStep ==
  ASSUME TypeInv, ReportInv, OneHandler, NEW p \in Procs, NEW t \in Tasks, On(p) = t,
         Step(p), NEW n, proc' = [proc EXCEPT ![p] = n], n.task \in {t, NoTask},
         Bare(t)', task'[t].state = "in_progress" => Reports(t)' \/ (n.task = t /\ Moving(n)),
         n.task = t => PlaceOf(n, t)'
  PROVE  ReportInv'
  <1>1. \A u \in Tasks : u # t => Bare(u)' /\ (task'[u].state = "in_progress" => Reports(u)')
    BY StepElsewhere, TaskElsewhere
  <1> QED BY <1>1, LeaseNoTask, ReportBy

LEMMA ReportReturn ==
  ASSUME TypeInv, ReportInv, OneHandler, NEW p \in Procs, NEW t \in Tasks, On(p) = t,
         Step(p), Return(p), Bare(t)', task'[t].state = "in_progress" => Reports(t)'
  PROVE  ReportInv'
  <1>1. PICK n : n = Idle
    OBVIOUS
  <1>2. n.task = NoTask BY <1>1 DEF Idle
  <1> QED BY <1>1, <1>2, LeaseNoTask, ReportStep DEF Return

\* Steps that write nothing of the task.
LEMMA ReportLooks ==
  ASSUME TypeInv, ReportInv, OneHandler, ReportingOps, NEW p \in Procs,
         \/ Sync(p) \/ Back(p) \/ Worker(p) \/ Seat(p) \/ Check(p) \/ Insert(p) \/ Ack(p)
         \/ Mark(p)
  PROVE  ReportInv'
  <1> DEFINE h == proc[p]
  <1>1. PICK t \in Tasks : t = On(p)
    BY OnType DEF Sync, Back, Worker, Seat, Check, Insert, Ack, Mark
  <1>2. h \in Handler /\ RosterOK /\ t = h.task
    BY <1>1, Parts DEF TypeInv, TypeOK, On
  <1>3. PlaceOf(h, t) BY <1>1 DEF ReportInv
  <1>4. Step(p) /\ UNCHANGED task /\ UNCHANGED roster /\ h.at # "idle"
    BY DEF Step, Sync, Back, Worker, Seat, Check, Insert, Ack, Mark, At
  <1>5. RowStays(t) /\ TurnStays(t) /\ SeatsFill(t) /\ SeatsStay(t)
    BY <1>4 DEF RowStays, TurnStays, Active, SeatsFill, SeatsStay
  <1>6. Bare(t)' /\ Working(t)' = Working(t) /\ (Reports(t) => Reports(t)')
    BY <1>5, TaskStays
  <1>7. ~Moving(h) => (task'[t].state = "in_progress" => Reports(t)')
    BY <1>5, <1>6, ReportsNow DEF RowStays
  <1>8. CASE Return(p) /\ ~Moving(h)
    BY <1>1, <1>4, <1>6, <1>7, <1>8, ReportReturn
  <1>9. ASSUME NEW n, proc' = [proc EXCEPT ![p] = n], n.task = t, Moving(h) => Moving(n),
               PlaceOf(n, t)'
        PROVE  ReportInv'
    BY <1>1, <1>4, <1>6, <1>7, <1>9, ReportStep
  <1>10. task[t].session = task'[t].session /\ h.home = task[t].session
         /\ task[t].session # NoSession
    <2>1. task[t] \in Task BY DEF TypeInv, TypeOK
    <2> QED BY <1>3, <1>4, <2>1, LeaseNoSession DEF PlaceOf, Task
  <1>11. CASE Sync(p)
    <2>1. h.at = "sync" /\ h.next \in {"requeue", "ledger", "mark"}
      BY <1>3, <1>11 DEF PlaceOf, Path, Sync, At
    <2>2. PICK n : n = [h EXCEPT !.at = h.next, !.next = "idle"]
      OBVIOUS
    <2>3. proc' = [proc EXCEPT ![p] = n]
      BY <1>11, <2>1, <2>2 DEF Sync, Continue
    <2>4. /\ n.at = h.next /\ n.next = "idle" /\ n.task = t /\ n.home = h.home
          /\ n.seat = h.seat
      BY <1>2, <2>2 DEF Handler
    <2>5. Moving(h) => Moving(n)
      BY <2>1, <2>4 DEF Moving, Giving, Given
    <2>6. PlaceOf(n, t)'
      BY <1>3, <1>4, <1>6, <1>10, <2>1, <2>4
      DEF PlaceOf, Path, OnPass, Passing, Inviting, Claiming, Seats, Given, Giving
    <2> QED BY <1>9, <2>3, <2>4, <2>5, <2>6
  <1>12. CASE Back(p)
    <2>1. PICK n : n = [h EXCEPT !.at = "report", !.agent = Holder(t),
                                 !.seat = WorkingSession(t, h.home)]
      OBVIOUS
    <2>2. proc' = [proc EXCEPT ![p] = n] BY <1>1, <1>12, <2>1 DEF Back
    <2>3. n.at = "report" /\ n.next = h.next /\ n.task = t /\ n.home = h.home
          /\ n.seat = Working(t)
      BY <1>2, <1>10, <2>1 DEF Handler, Working
    <2>4. Moving(n) BY <2>3 DEF Moving, Given
    <2>5. PlaceOf(n, t)'
      BY <1>4, <1>6, <1>10, <2>3
      DEF PlaceOf, Path, OnPass, Passing, Inviting, Claiming, Seats, Given, Giving
    <2> QED BY <1>9, <2>2, <2>3, <2>4, <2>5
  <1>13. CASE Worker(p)
    <2>1. PICK a \in Agents : proc' = [proc EXCEPT ![p] = [h EXCEPT !.at = "join", !.agent = a]]
      BY <1>13 DEF Worker
    <2>2. PICK n : n = [h EXCEPT !.at = "join", !.agent = a]
      OBVIOUS
    <2>3. h.at = "worker" BY <1>13 DEF Worker, At
    <2>4. /\ n.at = "join" /\ n.next = h.next /\ n.task = t /\ n.home = h.home
          /\ n.agent = a /\ n.seat = h.seat /\ n.as = h.as
      BY <1>2, <2>2 DEF Handler
    <2>5. /\ h.next = "ledger" /\ h.as = "active" /\ h.seat = h.home
          /\ task[t].reporting = h.home /\ task[t].state # "todo"
      BY <1>3, <2>3 DEF PlaceOf, Path, Seats, Giving
    <2>6. Moving(n) BY <2>4, <2>5 DEF Moving, Giving
    <2>7. PlaceOf(n, t)'
      BY <1>4, <1>10, <2>4, <2>5
      DEF PlaceOf, Path, OnPass, Passing, Inviting, Claiming, Seats, Given, Giving
    <2> QED BY <1>9, <2>1, <2>2, <2>4, <2>6, <2>7
  <1>14. CASE Seat(p) \/ Check(p) \/ Insert(p) \/ Ack(p)
    <2>1. h.at \in {"seat", "check", "insert", "ack"} /\ h.agent \in Agents
      BY <1>3, <1>14 DEF PlaceOf, Path, OnPass, Passing, Seat, Check, Insert, Ack, At
    <2>2. ~Moving(h) BY <2>1 DEF Moving, Giving, Given
    <2>3. CASE Seat(p)
      <3> DEFINE m == roster[t][h.agent]
      <3>1. PICK n : n = IF ~m.on THEN [h EXCEPT !.at = "join", !.next = "chair"]
                         ELSE IF m.seat = NoSession THEN [h EXCEPT !.at = "chair"]
                         ELSE [h EXCEPT !.at = "check", !.seat = m.seat]
        OBVIOUS
      <3>2. proc' = [proc EXCEPT ![p] = n] BY <1>1, <2>3, <3>1 DEF Seat
      <3>3. h.at = "seat" BY <2>3 DEF Seat, At
      <3>4. task[t].state # "todo" /\ \A a \in Active(t) : roster[t][a].seat # NoSession
        BY <1>3, <3>3 DEF PlaceOf, Seats
      <3>5. Active(t)' = Active(t) BY <1>5 DEF TurnStays
      <3>6. CASE ~m.on
        <4>1. /\ n.at = "join" /\ n.next = "chair" /\ n.task = t /\ n.home = h.home
              /\ n.agent = h.agent
          BY <1>2, <3>1, <3>6 DEF Handler
        <4>2. PlaceOf(n, t)'
          BY <1>4, <1>10, <2>1, <3>4, <4>1
          DEF PlaceOf, Path, OnPass, Passing, Inviting, Claiming, Seats, Given, Giving
        <4> QED BY <1>9, <2>2, <3>2, <4>1, <4>2
      <3>7. CASE m.on /\ m.seat = NoSession
        <4>1. /\ n.at = "chair" /\ n.next = h.next /\ n.task = t /\ n.home = h.home
              /\ n.agent = h.agent
          BY <1>2, <3>1, <3>7 DEF Handler
        <4>2. h.agent \notin Active(t) BY <3>4, <3>7
        <4>3. PlaceOf(n, t)'
          BY <1>4, <1>10, <2>1, <3>4, <3>5, <3>7, <4>1, <4>2
          DEF PlaceOf, Path, OnPass, Passing, Inviting, Claiming, Seats, Given, Giving
        <4> QED BY <1>9, <2>2, <3>2, <4>1, <4>3
      <3>8. CASE m.on /\ m.seat # NoSession
        <4>1. /\ n.at = "check" /\ n.next = h.next /\ n.task = t /\ n.home = h.home
              /\ n.agent = h.agent /\ n.seat = m.seat
          BY <1>2, <3>1, <3>8 DEF Handler
        <4>2. PlaceOf(n, t)'
          BY <1>4, <1>10, <2>1, <3>8, <4>1
          DEF PlaceOf, Path, OnPass, Passing, Inviting, Claiming, Seats, Given, Giving
        <4> QED BY <1>9, <2>2, <3>2, <4>1, <4>2
      <3> QED BY <3>6, <3>7, <3>8
    <2>4. ASSUME ~Seat(p) PROVE h.seat # NoSession /\ roster[t][h.agent].seat = h.seat
      <3>1. h.at \in {"check", "insert", "ack"} BY <1>14, <2>4 DEF Check, Insert, Ack, At
      <3> QED BY <1>3, <3>1 DEF PlaceOf
    <2>5. ASSUME ~Seat(p), NEW step \in {"insert", "ack"}, Goto(p, step) PROVE ReportInv'
      <3>1. PICK n : n = [h EXCEPT !.at = step]
        OBVIOUS
      <3>2. /\ n.at = step /\ n.next = h.next /\ n.task = t /\ n.home = h.home
            /\ n.agent = h.agent /\ n.seat = h.seat
        BY <1>2, <3>1 DEF Handler
      <3>3. PlaceOf(n, t)'
        BY <1>4, <1>10, <2>1, <2>4, <2>5, <3>2
        DEF PlaceOf, Path, OnPass, Passing, Inviting, Claiming, Seats, Given, Giving
      <3> QED BY <1>9, <2>2, <2>5, <3>1, <3>2, <3>3 DEF Goto
    <2>6. CASE Check(p)
      <3>1. ~Seat(p) BY <2>6 DEF Check, Seat, At
      <3> QED BY <1>8, <2>2, <2>5, <2>6, <3>1 DEF Check
    <2>7. CASE Insert(p)
      <3>1. ~Seat(p) BY <2>7 DEF Insert, Seat, At
      <3> QED BY <2>5, <2>7, <3>1 DEF Insert
    <2>8. CASE Ack(p)
      <3>1. ~Seat(p) BY <2>8 DEF Ack, Seat, At
      <3>2. CASE ~Return(p)
        <4>1. PICK k \in handoffs[On(p)] :
                proc' = [proc EXCEPT ![p] = [h EXCEPT !.at = "transfer", !.next = "mark",
                                                      !.from = k.from, !.hand = k.by]]
          BY <2>8, <3>2 DEF Ack
        <4>2. PICK n : n = [h EXCEPT !.at = "transfer", !.next = "mark",
                                     !.from = k.from, !.hand = k.by]
          OBVIOUS
        <4>3. /\ n.at = "transfer" /\ n.next = "mark" /\ n.task = t /\ n.home = h.home
              /\ n.agent = h.agent /\ n.seat = h.seat
          BY <1>2, <4>2 DEF Handler
        <4>4. PlaceOf(n, t)'
          BY <1>4, <1>10, <2>1, <2>4, <3>1, <4>3
          DEF PlaceOf, Path, OnPass, Passing, Inviting, Claiming, Seats, Given, Giving
        <4> QED BY <1>9, <2>2, <4>1, <4>2, <4>3, <4>4
      <3> QED BY <1>8, <2>2, <3>2
    <2> QED BY <1>14, <2>3, <2>6, <2>7, <2>8
  <1>15. CASE Mark(p)
    <2>1. PICK n : n = [h EXCEPT !.at = "report"]
      OBVIOUS
    <2>2. proc' = [proc EXCEPT ![p] = n] BY <1>15, <2>1 DEF Mark, Goto
    <2>3. n.at = "report" /\ n.next = h.next /\ n.task = t /\ n.home = h.home /\ n.seat = h.seat
      BY <1>2, <2>1 DEF Handler
    <2>4. h.seat = Working(t) BY <1>3, <1>15 DEF PlaceOf, Given, Mark, At
    <2>5. Moving(n) BY <2>3 DEF Moving, Given
    <2>6. PlaceOf(n, t)'
      BY <1>6, <1>10, <2>3, <2>4
      DEF PlaceOf, Path, OnPass, Passing, Inviting, Claiming, Seats, Given, Giving
    <2> QED BY <1>9, <2>2, <2>3, <2>5, <2>6
  <1> QED BY <1>11, <1>12, <1>13, <1>14, <1>15

\* A seat filled when it is empty, and kept when it is not.
SeatAt(t, a, s) == roster' = [roster EXCEPT ![t][a].seat = IF @ = NoSession THEN s ELSE @]

LEMMA SeatAtFills ==
  ASSUME RosterOK, NEW t \in Tasks, NEW a \in Agents, NEW s, s = task[t].session, SeatAt(t, a, s)
  PROVE  /\ TurnStays(t) /\ SeatsFill(t)
         /\ roster'[t][a].seat = IF roster[t][a].seat = NoSession THEN s ELSE roster[t][a].seat
  <1>1. PICK k : k = IF roster[t][a].seat = NoSession THEN s ELSE roster[t][a].seat
    OBVIOUS
  <1>2. roster' = [roster EXCEPT ![t][a].seat = k]
    BY <1>1 DEF SeatAt
  <1>3. TurnStays(t)
    BY <1>2, SeatsBeside
  <1>4. roster[t] \in [Agents -> Member] /\ roster \in [Tasks -> [Agents -> Member]]
    BY DEF RosterOK
  <1>5. ASSUME NEW b \in Agents
        PROVE  roster'[t][b].seat = IF b = a THEN k ELSE roster[t][b].seat
    <2>1. roster[t][b] \in Member BY <1>4
    <2>2. roster'[t][b] = IF b = a THEN [roster[t][b] EXCEPT !.seat = k] ELSE roster[t][b]
      BY <1>2, <1>4
    <2> QED BY <2>1, <2>2 DEF Member
  <1>6. SeatsFill(t)
    BY <1>1, <1>5 DEF SeatsFill, Active
  <1> QED BY <1>1, <1>3, <1>5, <1>6

\* Steps that write a row, a seat or an offer.
LEMMA ReportWrites ==
  ASSUME TypeInv, TurnInv, ReportInv, OneHandler, ReportingOps, NEW p \in Procs,
         Ledger(p) \/ Requeue(p) \/ Reoffer(p) \/ Settle(p) \/ SeatHolder(p) \/ Report(p)
  PROVE  ReportInv'
  <1> DEFINE h == proc[p]
  <1>1. PICK t \in Tasks : t = On(p)
    BY OnType DEF Ledger, Requeue, Reoffer, Settle, SeatHolder, Report
  <1>2. h \in Handler /\ RosterOK /\ t = h.task
    BY <1>1, Parts DEF TypeInv, TypeOK, On
  <1>3. PlaceOf(h, t) BY <1>1 DEF ReportInv
  <1>4. Step(p) /\ h.at # "idle"
    BY DEF Step, Ledger, Requeue, Reoffer, Settle, SeatHolder, Report, At
  <1>5. h.home = task[t].session /\ task[t].session # NoSession /\ task[t] \in Task
    <2>1. task[t] \in Task BY DEF TypeInv, TypeOK
    <2> QED BY <1>3, <1>4, <2>1, LeaseNoSession DEF PlaceOf, Task
  <1>6. ~Report(p) => ~Moving(h)
    BY DEF Moving, Giving, Given, Ledger, Requeue, Reoffer, Settle, SeatHolder, Report, At
  <1>7. ASSUME ~Report(p), Return(p), RowStays(t), TurnStays(t), SeatsFill(t),
               SeatsStay(t) \/ task[t].state # "todo"
        PROVE  ReportInv'
    <2>1. Bare(t)' /\ (Reports(t) => Reports(t)') BY <1>7, TaskStays
    <2>2. task'[t].state = "in_progress" => Reports(t)'
      BY <1>6, <1>7, <2>1, ReportsNow DEF RowStays
    <2> QED BY <1>1, <1>4, <1>7, <2>1, <2>2, ReportReturn
  <1>8. UNCHANGED task => RowStays(t) BY DEF RowStays
  <1>9. UNCHANGED roster => TurnStays(t) /\ SeatsFill(t) /\ SeatsStay(t)
    BY DEF TurnStays, Active, SeatsFill, SeatsStay
  <1>10. Holder(t) # NoAgent => Holder(t) \in Agents
    BY HolderIsActive DEF Active
  <1>11. CASE Ledger(p)
    <2>1. ~Report(p) /\ Return(p) BY <1>11 DEF Ledger, Report, At
    <2>2. CASE UNCHANGED <<task, roster>>
      BY <1>7, <1>8, <1>9, <2>1, <2>2
    <2>3. CASE ~UNCHANGED <<task, roster>>
      <3>1. /\ Holder(t) # NoAgent
            /\ SetTask(t, [task[t] EXCEPT !.turned = TRUE])
            /\ SeatAt(t, Holder(t), h.home)
        BY <1>1, <1>11, <2>3 DEF Ledger, SeatAt
      <3>2. task'[t] = [task[t] EXCEPT !.turned = TRUE] BY <3>1, RowThere
      <3>3. RowStays(t) BY <1>5, <3>2 DEF RowStays, Task
      <3>4. TurnStays(t) /\ SeatsFill(t)
        BY <1>2, <1>5, <1>10, <3>1, SeatAtFills
      <3>5. task[t].state # "todo" BY <1>3, <1>11 DEF PlaceOf, Seats, Ledger, At
      <3> QED BY <1>7, <2>1, <3>3, <3>4, <3>5
    <2> QED BY <2>2, <2>3
  <1>12. CASE Requeue(p)
    <2>1. ~Report(p) /\ UNCHANGED roster BY <1>12 DEF Requeue, Report, At
    <2>2. task[t].state = "todo" BY <1>3, <1>12 DEF PlaceOf, Claiming, Requeue, At
    <2>3. /\ SetTask(t, [task[t] EXCEPT !.state = "todo", !.reporting = NoSession])
          /\ Goto(p, "reoffer")
      BY <1>1, <1>12, <2>2 DEF Requeue
    <2>4. task'[t] = [task[t] EXCEPT !.state = "todo", !.reporting = NoSession]
      BY <2>3, RowThere
    <2>5. task'[t].state = "todo" /\ task'[t].session = task[t].session
      BY <1>5, <2>4 DEF Task
    <2>6. Bare(t)' BY <2>1, <2>2, <2>5 DEF ReportInv, Bare
    <2>7. PICK n : n = [h EXCEPT !.at = "reoffer"]
      OBVIOUS
    <2>8. n.at = "reoffer" /\ n.next = h.next /\ n.task = t /\ n.home = h.home
      BY <1>2, <2>7 DEF Handler
    <2>9. PlaceOf(n, t)'
      BY <1>5, <2>5, <2>8
      DEF PlaceOf, Path, OnPass, Passing, Inviting, Claiming, Seats, Given, Giving
    <2> QED BY <1>1, <1>4, <2>3, <2>5, <2>6, <2>7, <2>8, <2>9, ReportStep DEF Goto
  <1>13. ASSUME NEW from, NEW to, from # "active", to # "active", Restatus(t, from, to),
                Return(p), UNCHANGED task, ~Report(p)
         PROVE  ReportInv'
    <2>1. TurnStays(t) BY <1>2, <1>13, OffersBeside
    <2>2. SeatsStay(t) BY <1>2, <1>13, OffersBeside DEF SeatsStay
    <2>3. SeatsFill(t) BY <2>2 DEF SeatsFill, SeatsStay, Active
    <2> QED BY <1>7, <1>8, <1>13, <2>1, <2>2, <2>3
  <1>14. CASE Reoffer(p)
    BY <1>1, <1>13, <1>14 DEF Reoffer, Report, At
  <1>15. CASE Settle(p)
    BY <1>1, <1>13, <1>15 DEF Settle, Report, At
  <1>16. CASE SeatHolder(p)
    <2>1. h.at = "holder" /\ UNCHANGED task BY <1>16 DEF SeatHolder, At
    <2>2. task[t].state # "todo" /\ h.agent \in Agents
      BY <1>3, <2>1 DEF PlaceOf, Seats, Path, OnPass, Passing
    <2>3. /\ TurnStays(t) /\ SeatsFill(t)
          /\ \A a \in Active(t)' : roster'[t][a].seat # NoSession
      <3>1. CASE Holder(t) = NoAgent
        <4>1. UNCHANGED roster BY <1>1, <1>16, <3>1 DEF SeatHolder
        <4>2. Active(t) = {}
          <5> SUFFICES ASSUME NEW a \in Active(t) PROVE FALSE
            OBVIOUS
          <5>1. Holder(t) = a BY <1>2, AloneHolds DEF TurnInv
          <5>2. a \in Agents BY DEF Active
          <5> QED BY <3>1, <5>1, <5>2, LeaseNoAgent
        <4> QED BY <1>9, <4>1, <4>2 DEF TurnStays
      <3>2. CASE Holder(t) # NoAgent
        <4>1. PICK a \in Agents : a = Holder(t) BY <1>10, <3>2
        <4>2. SeatAt(t, a, h.home) BY <1>1, <1>16, <3>2, <4>1 DEF SeatHolder, SeatAt
        <4>3. TurnStays(t) /\ SeatsFill(t)
          BY <1>2, <1>5, <4>2, SeatAtFills
        <4>4. roster'[t][a].seat = IF roster[t][a].seat = NoSession THEN h.home
                                   ELSE roster[t][a].seat
          BY <1>2, <1>5, <4>2, SeatAtFills
        <4>5. roster'[t][a].seat # NoSession BY <1>5, <4>4
        <4>6. \A b \in Active(t) : b = a BY <1>2, <4>1, AloneHolds DEF TurnInv
        <4> QED BY <4>3, <4>5, <4>6 DEF TurnStays
      <3> QED BY <3>1, <3>2
    <2>4. RowStays(t) BY <1>8, <2>1
    <2>5. Bare(t)' /\ (Reports(t) => Reports(t)') BY <2>2, <2>3, <2>4, TaskStays
    <2>6. ~Report(p) BY <2>1 DEF Report, At
    <2>7. task'[t].state = "in_progress" => Reports(t)'
      BY <1>6, <2>4, <2>5, <2>6, ReportsNow DEF RowStays
    <2>8. PICK n : n = [h EXCEPT !.at = "seat"]
      OBVIOUS
    <2>9. /\ n.at = "seat" /\ n.next = h.next /\ n.task = t /\ n.home = h.home
          /\ n.agent = h.agent
      BY <1>2, <2>8 DEF Handler
    <2>10. PlaceOf(n, t)'
      BY <1>5, <2>1, <2>2, <2>3, <2>9
      DEF PlaceOf, Path, OnPass, Passing, Inviting, Claiming, Seats, Given, Giving
    <2>11. proc' = [proc EXCEPT ![p] = n] BY <1>16, <2>8 DEF SeatHolder, Goto
    <2> QED BY <1>1, <1>4, <2>5, <2>7, <2>9, <2>10, <2>11, ReportStep
  <1>17. CASE Report(p)
    <2>1. h.at = "report" /\ UNCHANGED roster /\ Return(p)
          /\ SetTask(t, [task[t] EXCEPT !.reporting = h.seat,
                                      !.turned = @ \/ h.agent # NoAgent])
      BY <1>1, <1>17 DEF Report, At
    <2>2. h.seat = Working(t) BY <1>3, <2>1 DEF PlaceOf, Given
    <2>3. task'[t] = [task[t] EXCEPT !.reporting = h.seat,
                                     !.turned = @ \/ h.agent # NoAgent]
      BY <2>1, RowThere
    <2>4. /\ task'[t].state = task[t].state /\ task'[t].session = task[t].session
          /\ task'[t].reporting = h.seat
      BY <1>5, <2>3 DEF Task
    <2>5. Working(t)' = Working(t) BY <1>9, <2>1, <2>4, WorkingStays
    <2>6. Reports(t)' BY <2>2, <2>4, <2>5 DEF Reports
    <2>7. Bare(t)' BY <2>1, <2>4 DEF ReportInv, Bare
    <2> QED BY <1>1, <1>4, <2>1, <2>6, <2>7, ReportReturn
  <1> QED BY <1>11, <1>12, <1>14, <1>15, <1>16, <1>17

\* Whose seat joining and passing change.
LEMMA JoinsSeat ==
  ASSUME RosterOK, NEW t \in Tasks, NEW a \in Agents, NEW status, NEW s,
         SetRoster(t, Joined(roster[t], a, status, s)), NEW b \in Agents
  PROVE  /\ roster'[t][b].seat = IF b = a /\ s # NoSession THEN s ELSE roster[t][b].seat
         /\ b = a => roster'[t][b].on
  <1>1. roster'[t] = Joined(roster[t], a, status, s)
    BY RosterThere
  <1>2. roster[t] \in [Agents -> Member] /\ roster[t][b] \in Member
    BY DEF RosterOK
  <1>3. CASE b = a
    BY <1>1, <1>3 DEF Joined
  <1>4. CASE b # a
    <2> DEFINE m == roster[t][b]
    <2>1. roster'[t][b] = IF status = "active" /\ m.status \in {"active", "offered"}
                            THEN [m EXCEPT !.status = "waiting"] ELSE m
      BY <1>1, <1>4 DEF Joined
    <2>2. m \in Member BY <1>2
    <2> HIDE DEF m
    <2>3. roster'[t][b].seat = m.seat BY <2>1, <2>2 DEF Member
    <2> QED BY <1>4, <2>3 DEF m
  <1> QED BY <1>3, <1>4

LEMMA PassesSeats ==
  ASSUME RosterOK, NEW t \in Tasks, NEW from, NEW to,
         SetRoster(t, Passed(roster[t], from, to))
  PROVE  SeatsStay(t)
  <1>1. roster'[t] = Passed(roster[t], from, to)
    BY RosterThere
  <1> SUFFICES ASSUME NEW b \in Agents PROVE roster'[t][b].seat = roster[t][b].seat
    BY DEF SeatsStay
  <1> DEFINE m == roster[t][b]
  <1>2. m \in Member BY DEF RosterOK
  <1>3. roster'[t][b] = IF b = to THEN [m EXCEPT !.status = "active"]
                        ELSE IF m.on /\ (b = from \/ m.status = "offered")
                          THEN [m EXCEPT !.status = "waiting"] ELSE m
    BY <1>1 DEF Passed
  <1> HIDE DEF m
  <1>4. roster'[t][b].seat = m.seat BY <1>2, <1>3 DEF Member
  <1> QED BY <1>4 DEF m

LEMMA RosterTyped == TypeInv' => RosterOK'
  BY DEF TypeInv, TypeOK, RosterOK

\* Joining: on the way to a claim, to be given the task, or to be handed the turn.
LEMMA ReportJoins ==
  ASSUME TypeInv, TurnInv, FollowInv, ReportInv, OneHandler, ReportingOps, NEW p \in Procs,
         Join(p)
  PROVE  ReportInv'
  <1> DEFINE h == proc[p]
  <1>1. PICK t \in Tasks : t = On(p)
    BY OnType DEF Join
  <1>2. h \in Handler /\ RosterOK /\ t = h.task /\ h.at = "join"
    BY <1>1, Parts DEF TypeInv, TypeOK, On, Join, At
  <1>3. PlaceOf(h, t) BY <1>1 DEF ReportInv
  <1>4. Step(p) /\ UNCHANGED task
    BY DEF Step, Join
  <1>5. h.home = task[t].session /\ task[t].session # NoSession
    <2>1. task[t] \in Task BY DEF TypeInv, TypeOK
    <2> QED BY <1>2, <1>3, <2>1, LeaseNoSession DEF PlaceOf, Task
  <1>6. PICK a \in Agents : a = h.agent BY <1>2, <1>3 DEF PlaceOf, Path
  <1>7. PICK s : s = h.seat OBVIOUS
  <1>8. PICK k : k = h.as OBVIOUS
  <1>9. SetRoster(t, Joined(roster[t], a, k, s))
    BY <1>1, <1>6, <1>7, <1>8 DEF Join
  <1>10. \A b \in Agents :
           roster'[t][b].seat = IF b = a /\ s # NoSession THEN s ELSE roster[t][b].seat
    <2> SUFFICES ASSUME NEW b \in Agents
                 PROVE  roster'[t][b].seat = IF b = a /\ s # NoSession THEN s
                                             ELSE roster[t][b].seat
      OBVIOUS
    <2>1. RosterOK BY <1>2
    <2> HIDE DEF h
    <2> QED BY <2>1, <1>9, JoinsSeat
  <1>11. roster'[t][a].on BY <1>2, <1>9, JoinsSeat
  <1>12. RowStays(t) BY <1>4 DEF RowStays
  <1>13. CASE h.next = "requeue"
    <2>1. Claiming(h) /\ task[t].state = "todo" /\ s = NoSession
      BY <1>2, <1>3, <1>7, <1>13 DEF PlaceOf, Claiming
    <2>2. Bare(t)' BY <1>4, <1>10, <2>1 DEF ReportInv, Bare
    <2>3. PICK n : n = IF k = "active" THEN [h EXCEPT !.at = "sync"]
                       ELSE [h EXCEPT !.at = h.next, !.next = "idle"]
      OBVIOUS
    <2>4. proc' = [proc EXCEPT ![p] = n]
      BY <1>8, <1>13, <2>3 DEF Join, Goto, Continue
    <2>5. /\ (n.at = "sync" /\ n.next = "requeue") \/ n.at = "requeue"
          /\ n.task = t /\ n.home = h.home /\ n.seat = h.seat
      BY <1>2, <1>13, <2>3 DEF Handler
    <2>6. PlaceOf(n, t)'
      BY <1>4, <1>5, <1>7, <2>1, <2>5
      DEF PlaceOf, Path, OnPass, Passing, Inviting, Claiming, Seats, Given, Giving
    <2>7. task'[t].state # "in_progress" BY <1>4, <2>1
    <2> QED BY <1>1, <1>4, <2>2, <2>4, <2>5, <2>6, <2>7, ReportStep
  <1>14. CASE h.next = "ledger"
    <2>1. /\ task[t].state # "todo" /\ k = "active" /\ s = h.home
          /\ task[t].reporting = h.home
      BY <1>2, <1>3, <1>7, <1>8, <1>14 DEF PlaceOf, Seats, Giving
    <2>2. Active(t)' = {a}
      <3>1. SetRoster(t, Joined(roster[t], a, "active", s)) BY <1>9, <2>1
      <3>2. Active(t)' = {a} \cap Agents BY <1>2, <3>1, JoinsActive
      <3> QED BY <3>2
    <2>3. roster'[t][a].seat = h.home /\ h.home # NoSession
      BY <1>5, <1>10, <2>1
    <2>4. RosterOK' BY RosterStepType, RosterTyped
    <2>5. Working(t)' = h.home BY <2>2, <2>3, <2>4, WorkingAlone
    <2>6. Reports(t)' BY <1>4, <2>1, <2>5 DEF Reports
    <2>7. Bare(t)' BY <1>4, <2>1 DEF Bare
    <2>8. PICK n : n = [h EXCEPT !.at = "sync"]
      OBVIOUS
    <2>9. proc' = [proc EXCEPT ![p] = n]
      BY <1>8, <2>1, <2>8 DEF Join, Goto
    <2>10. n.at = "sync" /\ n.next = "ledger" /\ n.task = t /\ n.home = h.home
      BY <1>2, <1>14, <2>8 DEF Handler
    <2>11. PlaceOf(n, t)'
      BY <1>4, <1>5, <2>1, <2>10
      DEF PlaceOf, Path, OnPass, Passing, Inviting, Claiming, Seats, Given, Giving
    <2> QED BY <1>1, <1>4, <2>6, <2>7, <2>9, <2>10, <2>11, ReportStep
  <1>15. CASE h.next \in Inviting
    <2>1. task[t].state # "todo" BY <1>2, <1>3, <1>15 DEF PlaceOf, Seats
    <2>2. k # "active"
      BY <1>1, <1>2, <1>8, <1>15 DEF TurnInv, PassesFrom, OnPass
    <2>3. ~roster[t][a].on
      BY <1>1, <1>2, <1>6, <1>8, <2>2 DEF FollowInv, Newcomer, At
    <2>4. a \notin Active(t) BY <2>3 DEF Active
    <2>5. Active(t)' = Active(t) \ {a} BY <1>2, <1>9, <2>2, JoinsBeside
    <2>6. \A b \in Agents : b # a => roster'[t][b] = roster[t][b]
      <3>1. RosterOK BY <1>2
      <3>2. roster'[t] = Joined(roster[t], a, k, s) BY <1>9, <3>1, RosterThere
      <3> QED BY <2>2, <3>2 DEF Joined
    <2>7. \A b \in Active(t) : b \in Agents /\ b # a BY <2>4 DEF Active
    <2>8. TurnStays(t) /\ SeatsFill(t)
      BY <2>4, <2>5, <2>6, <2>7 DEF TurnStays, SeatsFill
    <2>9. Bare(t)' /\ (Reports(t) => Reports(t)')
      BY <1>12, <2>1, <2>8, TaskStays
    <2>10. ~Moving(h) BY <1>2, <1>15 DEF Moving, Giving, Given, Inviting
    <2>11. task'[t].state = "in_progress" => Reports(t)'
      BY <1>12, <2>9, <2>10, ReportsNow DEF RowStays
    <2>12. PICK n : n = [h EXCEPT !.at = h.next, !.next = "idle"]
      OBVIOUS
    <2>13. proc' = [proc EXCEPT ![p] = n]
      BY <1>8, <1>15, <2>2, <2>12 DEF Join, Continue, Inviting
    <2>14. /\ n.at = h.next /\ n.next = "idle" /\ n.task = t /\ n.home = h.home
           /\ n.agent = a
      BY <1>2, <1>6, <2>12 DEF Handler
    <2>15. a \notin Active(t)' BY <2>5
    <2>16. PlaceOf(n, t)'
      BY <1>4, <1>5, <1>11, <1>15, <2>1, <2>14, <2>15
      DEF PlaceOf, Path, OnPass, Passing, Inviting, Claiming, Seats, Given, Giving
    <2> QED BY <1>1, <1>4, <2>9, <2>11, <2>13, <2>14, <2>16, ReportStep
  <1> QED BY <1>2, <1>3, <1>13, <1>14, <1>15 DEF PlaceOf, Path

\* The receiver takes a chair of its own, and the turn.
LEMMA ReportMoves ==
  ASSUME TypeInv, TurnInv, ReportInv, OneHandler, ReportingOps, NEW p \in Procs,
         Chair(p) \/ Transfer(p)
  PROVE  ReportInv'
  <1> DEFINE h == proc[p]
  <1>1. PICK t \in Tasks : t = On(p)
    BY OnType DEF Chair, Transfer
  <1>2. h \in Handler /\ RosterOK /\ t = h.task /\ h.at \in {"chair", "transfer"}
    BY <1>1, Parts DEF TypeInv, TypeOK, On, Chair, Transfer, At
  <1>3. PlaceOf(h, t) BY <1>1 DEF ReportInv
  <1>4. Step(p) /\ UNCHANGED task
    BY DEF Step, Chair, Transfer
  <1>5. h.home = task[t].session /\ task[t].session # NoSession
    <2>1. task[t] \in Task BY DEF TypeInv, TypeOK
    <2> QED BY <1>2, <1>3, <2>1, LeaseNoSession DEF PlaceOf, Task
  <1>6. PICK a \in Agents : a = h.agent
    BY <1>2, <1>3 DEF PlaceOf, Path, OnPass, Passing
  <1>7. RowStays(t) BY <1>4 DEF RowStays
  <1>8. ~Moving(h) BY <1>2 DEF Moving, Giving, Given
  <1>9. CASE Chair(p)
    <2>1. h.at = "chair" BY <1>9 DEF Chair, At
    <2>2. task[t].state # "todo" /\ roster[t][a].on /\ a \notin Active(t)
      BY <1>3, <1>6, <2>1 DEF PlaceOf, Seats
    <2>3. PICK s \in Fresh :
            /\ roster' = [roster EXCEPT ![t][a].seat = IF roster[t][a].on THEN s ELSE @]
            /\ proc' = [proc EXCEPT ![p] = [h EXCEPT !.at = "check", !.seat = s]]
      BY <1>1, <1>6, <1>9 DEF Chair
    <2>4. s # NoSession BY LeaseNoSession DEF Fresh
    <2>5. roster' = [roster EXCEPT ![t][a].seat = s]
      BY <2>2, <2>3
    <2>6. TurnStays(t) BY <1>2, <2>5, SeatsBeside
    <2>7. roster \in [Tasks -> [Agents -> Member]] /\ roster[t] \in [Agents -> Member]
      BY <1>2 DEF RosterOK
    <2>8. \A b \in Agents : b # a => roster'[t][b] = roster[t][b]
      BY <2>5, <2>7
    <2>9. roster'[t][a].seat = s
      <3>1. roster[t][a] \in Member BY <2>7
      <3>2. roster'[t][a] = [roster[t][a] EXCEPT !.seat = s] BY <2>5, <2>7
      <3> QED BY <3>1, <3>2 DEF Member
    <2>10. \A b \in Active(t) : b \in Agents /\ b # a BY <2>2 DEF Active
    <2>11. SeatsFill(t) BY <2>8, <2>10 DEF SeatsFill
    <2>12. Bare(t)' /\ (Reports(t) => Reports(t)')
      BY <1>7, <2>2, <2>6, <2>11, TaskStays
    <2>13. task'[t].state = "in_progress" => Reports(t)'
      BY <1>7, <1>8, <2>12, ReportsNow DEF RowStays
    <2>14. PICK n : n = [h EXCEPT !.at = "check", !.seat = s]
      OBVIOUS
    <2>15. /\ n.at = "check" /\ n.next = h.next /\ n.task = t /\ n.home = h.home
           /\ n.agent = a /\ n.seat = s
      BY <1>2, <1>6, <2>14 DEF Handler
    <2>16. PlaceOf(n, t)'
      BY <1>4, <1>5, <2>4, <2>9, <2>15
      DEF PlaceOf, Path, OnPass, Passing, Inviting, Claiming, Seats, Given, Giving
    <2> QED BY <1>1, <1>4, <2>3, <2>12, <2>13, <2>14, <2>15, <2>16, ReportStep
  <1>10. CASE Transfer(p)
    <2>1. h.at = "transfer" BY <1>10 DEF Transfer, At
    <2>2. h.seat # NoSession /\ roster[t][a].seat = h.seat /\ h.next = "mark"
      BY <1>3, <1>6, <2>1 DEF PlaceOf, Path
    <2>3. CASE roster[t][a].on
      <3>1. PICK from : from = h.from OBVIOUS
      <3>2. SetRoster(t, Passed(roster[t], from, a)) /\ Goto(p, "sync")
        BY <1>1, <1>6, <1>10, <2>3, <3>1 DEF Transfer
      <3>3. Active(t) \subseteq {from}
        BY <1>1, <2>1, <3>1 DEF TurnInv, PassesFrom, OnPass, Passing
      <3>4. Active(t)' = (Active(t) \ {from}) \cup ({a} \cap Agents)
        BY <1>2, <2>3, <3>2, PassesTo, SMTT(60)
      <3>5. Active(t)' = {a} BY <3>3, <3>4
      <3>6. SeatsStay(t) BY <1>2, <3>2, PassesSeats
      <3>7. roster'[t][a].seat = h.seat BY <2>2, <3>6 DEF SeatsStay
      <3>8. RosterOK' BY <1>10, RosterStepType, RosterTyped
      <3>9. Working(t)' = h.seat BY <2>2, <3>5, <3>7, <3>8, WorkingAlone
      <3>10. Bare(t)' BY <1>4, <3>6 DEF ReportInv, Bare, SeatsStay
      <3>11. PICK n : n = [h EXCEPT !.at = "sync"]
        OBVIOUS
      <3>12. /\ n.at = "sync" /\ n.next = "mark" /\ n.task = t /\ n.home = h.home
             /\ n.seat = h.seat
        BY <1>2, <2>2, <3>11 DEF Handler
      <3>13. Moving(n) BY <3>12 DEF Moving, Given
      <3>14. PlaceOf(n, t)'
        BY <1>4, <1>5, <3>9, <3>12
        DEF PlaceOf, Path, OnPass, Passing, Inviting, Claiming, Seats, Given, Giving
      <3> QED BY <1>1, <1>4, <3>2, <3>10, <3>11, <3>12, <3>13, <3>14, ReportStep DEF Goto
    <2>4. CASE ~roster[t][a].on
      <3>1. Return(p) /\ UNCHANGED roster
        BY <1>1, <1>6, <1>10, <2>4 DEF Transfer
      <3>2. Bare(t)' /\ (task'[t].state = "in_progress" => Reports(t)')
        BY <1>4, <1>8, <3>1, TaskUntouched
      <3> QED BY <1>1, <1>4, <3>1, <3>2, ReportReturn
    <2> QED BY <2>3, <2>4
  <1> QED BY <1>9, <1>10

LEMMA ReportKeeping ==
  ASSUME OneHandler, ReportingOps PROVE Spec => []ReportInv
  <1>1. Init => ReportInv
    <2> SUFFICES ASSUME Init PROVE ReportInv
      OBVIOUS
    <2>1. \A t \in Tasks : task[t].state = "todo"
      BY DEF Init
    <2>2. \A t \in Tasks, a \in Agents : roster[t][a].seat = NoSession
      BY DEF Init, Absent
    <2>3. \A p \in Procs : On(p) = NoTask
      BY DEF Init, On, Idle
    <2> QED BY <2>1, <2>2, <2>3, LeaseNoTask DEF ReportInv, Bare
  <1>2. TypeInv /\ TurnInv /\ FollowInv /\ ReportInv /\ [Next]_vars => ReportInv'
    <2> SUFFICES ASSUME TypeInv, TurnInv, FollowInv, ReportInv, [Next]_vars PROVE ReportInv'
      OBVIOUS
    <2>1. ASSUME NEW p \in Procs, Step(p) PROVE ReportInv'
      <3>1. ~Stop(p) BY DEF Stop, ReportingOps
      <3> QED BY <2>1, <3>1, ReportLooks, ReportWrites, ReportJoins, ReportMoves DEF Step
    <2>2. CASE \E p \in Procs, t \in Tasks : Operation(p, t)
      BY <2>2, ReportBegins
    <2>3. ASSUME UNCHANGED <<task, roster, proc>> PROVE ReportInv'
      <3>1. \A t \in Tasks : Holder(t)' = Holder(t) /\ Active(t)' = Active(t)
        BY <2>3 DEF Holder, First, Active
      <3>2. \A t \in Tasks : Working(t)' = Working(t)
        BY <2>3, <3>1 DEF Working, WorkingSession
      <3>3. \A t \in Tasks : (Bare(t) => Bare(t)') /\ (Reports(t) => Reports(t)')
        BY <2>3, <3>2 DEF Bare, Reports
      <3>4. \A t \in Tasks, p \in Procs : PlaceOf(proc[p], t) => PlaceOf(proc[p], t)'
        BY <2>3, <3>1, <3>2 DEF PlaceOf
      <3> QED BY <2>3, <3>3, <3>4 DEF ReportInv, On
    <2>4. ASSUME NEW t \in Tasks, ReadLease(t) PROVE ReportInv'
      BY <2>3, <2>4 DEF ReadLease
    <2>5. \A t \in Tasks, a \in Agents : ~Leave(t, a)
      BY DEF Leave, ReportingOps
    <2>6. ASSUME NEW l \in Lanes, Land(l) \/ \E t \in Tasks : Launch(l, t) PROVE ReportInv'
      BY <2>3, <2>6 DEF Land, Launch
    <2>7. CASE UNCHANGED vars
      BY <2>3, <2>7 DEF vars
    <2> QED BY <2>1, <2>2, <2>4, <2>5, <2>6, <2>7 DEF Next
  <1>3. (Ops \cap {"rest", "transfer"} = {}) /\ SyncedOps
    BY DEF ReportingOps, SyncedOps
  <1>4. Spec => []TurnInv BY <1>3, TurnKeeping
  <1>5. Spec => []FollowInv BY <1>3, FollowKeeping
  <1> QED BY <1>1, <1>2, <1>4, <1>5, LeaseTyping, PTL DEF Spec

(***************************************************************************)
(* Between operations a task in progress reports from the conversation its *)
(* holder works in, or from none: the turn and the report move together    *)
(* through a claim, a dispatch, a handover, a delivery, a revision and an  *)
(* edit.  Each operation left out breaks it in the model: assigning and    *)
(* leaving change the holder and not the report, a handler that stops does *)
(* the first and not the second, the REST routes give the turn without the *)
(* report, and a retried task keeps the seats of its first run.            *)
(***************************************************************************)
THEOREM ReportsFromHolder ==
  ASSUME OneHandler, ReportingOps
  PROVE  Spec => []ReportsFromTurn
  <1>1. ReportInv => ReportsFromTurn
    BY DEF ReportInv, ReportsFromTurn, Settled, Reports, Working
  <1> QED BY <1>1, ReportKeeping, PTL
=============================================================================

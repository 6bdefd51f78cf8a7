----------------------------- MODULE TaskLease ------------------------------
(***************************************************************************)
(* The roster of a task, the lease its active member holds, the handover   *)
(* that moves it and the lanes (sub-agents) started under it.              *)
(*                                                                         *)
(* As in TaskBoard a store call is one step and an operation that makes    *)
(* several is a handler; proc[p] holds what handler p read and has still   *)
(* to use.  A handler whose next call fails returns and leaves what it     *)
(* wrote: that, the dropped request and the daemon's exit are Stop.        *)
(*                                                                         *)
(* Abstractions.  Of a task: whether it is queued or blocked ("todo"), in  *)
(* progress (in review, too) or over; the races of claim and completion    *)
(* are TaskBoard's.                                                        *)
(* The record of what a turn changed (task_turns) is reduced to whether    *)
(* the task has one.  A member's role is not kept.                         *)
(***************************************************************************)
EXTENDS Naturals, FiniteSets

CONSTANTS Tasks, NoTask,
          Agents, NoAgent,
          Sessions, NoSession,
          Procs,      \* handlers that may be in flight at once
          Lanes,
          Ops,        \* the operations in use
          MaxToken    \* bound: tokens minted on one session

AllOps == {"assign", "seat", "claim", "leave", "transfer", "pass", "rest",
           "dispatch", "requeue", "finish", "revise", "deliver", "edit",
           "lane", "stop"}

ASSUME LeaseAgents == IsFiniteSet(Agents)
ASSUME LeaseNoAgent == NoAgent \notin Agents
ASSUME LeaseNoTask == NoTask \notin Tasks
ASSUME LeaseNoSession == NoSession \notin Sessions
ASSUME LeaseOps == Ops \subseteq AllOps
ASSUME LeaseTokens == MaxToken \in Nat

VARIABLES task,      \* the rows of the tasks table
          roster,    \* the rows of task_agents
          lease,     \* the lease not yet released, per task
          last,      \* the token of the task's newest lease
          issued,    \* the largest token among the leases of a session
          handoffs,  \* the handovers not yet acknowledged
          lanes,     \* the running lanes
          proc       \* the handlers

vars == <<task, roster, lease, last, issued, handoffs, lanes, proc>>
leaseVars == <<lease, last, issued, lanes>>

AnyAgent == Agents \cup {NoAgent}
AnySession == Sessions \cup {NoSession}

Task == [state : {"todo", "in_progress", "over"}, session : Sessions,
         reporting : AnySession,    \* the conversation allowed to report
         turned : BOOLEAN]          \* it has a turn on record

\* since orders the members by when they first joined; 0 is never.
Member == [status : {"none", "offered", "waiting", "active", "withdrawn", "done"},
           on : BOOLEAN, seat : AnySession, since : Nat]
Absent == [status |-> "none", on |-> FALSE, seat |-> NoSession, since |-> 0]

Lease == [agent : AnyAgent, token : Nat]
NoLease == [agent |-> NoAgent, token |-> 0]

Handover == [by : Procs, from : AnyAgent, to : AnyAgent]

\* moved: the lease changed hands since the lane was started.
Lane == [task : Tasks \cup {NoTask}, token : Nat, moved : BOOLEAN]
NoLane == [task |-> NoTask, token |-> 0, moved |-> FALSE]

Steps == {"idle", "join", "sync", "requeue", "reoffer", "settle", "holder",
          "seat", "chair", "check", "insert", "ack", "transfer", "mark",
          "report", "ledger", "back", "worker"}

Handler == [at : Steps, next : Steps,       \* next: where join or sync leads
            task : Tasks \cup {NoTask},
            agent : AnyAgent,               \* who joins or receives the turn
            as : {"offered", "waiting", "active"},
            from : AnyAgent,                \* who held the turn when read
            home : AnySession,              \* the task's session when read
            seat : AnySession,              \* a seat read or made
            hand : Procs \cup {"none"}]     \* the handover acknowledged

Idle == [at |-> "idle", next |-> "idle", task |-> NoTask, agent |-> NoAgent,
         as |-> "waiting", from |-> NoAgent, home |-> NoSession,
         seat |-> NoSession, hand |-> "none"]

Init ==
  /\ task \in [Tasks -> {[state |-> "todo", session |-> s,
                          reporting |-> NoSession, turned |-> FALSE] : s \in Sessions}]
  /\ roster = [t \in Tasks |-> [a \in Agents |-> Absent]]
  /\ lease = [t \in Tasks |-> NoLease]
  /\ last = [t \in Tasks |-> 0]
  /\ issued = [s \in Sessions |-> 0]
  /\ handoffs = [t \in Tasks |-> {}]
  /\ lanes = [l \in Lanes |-> NoLane]
  /\ proc = [p \in Procs |-> Idle]

-----------------------------------------------------------------------------
(* Handlers.                                                               *)

Free(p, op) == op \in Ops /\ proc[p].at = "idle"
At(p, step) == proc[p].at = step
On(p) == proc[p].task
Return(p) == proc' = [proc EXCEPT ![p] = Idle]
Goto(p, step) == proc' = [proc EXCEPT ![p].at = step]
\* After joining or synchronising: on to where that leads.
Continue(p) == IF proc[p].next = "idle" THEN Return(p)
               ELSE proc' = [proc EXCEPT ![p] = [@ EXCEPT !.at = proc[p].next, !.next = "idle"]]
\* A handler's start at a step, and what it reads of its task at once.
Call(t, step) == [Idle EXCEPT !.at = step, !.task = t, !.home = task[t].session]
Start(p, call) == proc' = [proc EXCEPT ![p] = call]

-----------------------------------------------------------------------------
(* The roster.                                                             *)

Active(t) == {a \in Agents : roster[t][a].on /\ roster[t][a].status = "active"}
\* The active member; of several the one that joined first.
First(t) == {a \in Active(t) : \A b \in Active(t) : roster[t][a].since <= roster[t][b].since}
Holder(t) == IF First(t) = {} THEN NoAgent ELSE CHOOSE a \in First(t) : TRUE

\* working_session: the conversation holding the turn.
WorkingSession(t, home) ==
  IF Holder(t) # NoAgent /\ roster[t][Holder(t)].seat # NoSession
    THEN roster[t][Holder(t)].seat ELSE home

\* add_task_agent_full: an active member demotes the others.  A member who was
\* on the roster before keeps the time of joining and the seat.
Joined(r, a, status, seat) ==
  [b \in Agents |->
     IF b = a THEN [status |-> status, on |-> TRUE,
                    seat |-> IF seat # NoSession THEN seat ELSE r[a].seat,
                    since |-> IF r[a].since > 0 THEN r[a].since
                              ELSE 1 + Cardinality({c \in Agents : r[c].since > 0})]
     ELSE IF status = "active" /\ r[b].status \in {"active", "offered"}
       THEN [r[b] EXCEPT !.status = "waiting"]
     ELSE r[b]]

\* transfer_task_session_lease: from and every other offer step back, to holds.
Passed(r, from, to) ==
  [b \in Agents |->
     IF b = to THEN [r[b] EXCEPT !.status = "active"]
     ELSE IF r[b].on /\ (b = from \/ r[b].status = "offered")
       THEN [r[b] EXCEPT !.status = "waiting"]
     ELSE r[b]]

SetRoster(t, r) == roster' = [roster EXCEPT ![t] = r]
SetTask(t, row) == task' = [task EXCEPT ![t] = row]

-----------------------------------------------------------------------------
(* sync_task_lease: the lease follows the roster's active member.          *)

\* The lanes of a task, once its lease has changed hands.
Overtaken(t) ==
  [l \in Lanes |-> IF lanes[l].task = t THEN [lanes[l] EXCEPT !.moved = TRUE]
                   ELSE lanes[l]]

\* Mutant: tokens are counted over the leases still open.
GrantFromOpenLeases(t, a) ==
  LET s == task[t].session
      n == lease[t].token + 1
  IN /\ a # NoAgent /\ a # lease[t].agent /\ n <= MaxToken
     /\ lease' = [lease EXCEPT ![t] = [agent |-> a, token |-> n]]
     /\ last' = [last EXCEPT ![t] = n]
     /\ issued' = [issued EXCEPT ![s] = n]
     /\ lanes' = Overtaken(t)

\* Mutant: a new holder takes over the lease with the token it has.
GrantKeepingToken(t, a) ==
  /\ a # NoAgent /\ a # lease[t].agent /\ last[t] < MaxToken
  /\ LET n == IF lease[t].agent = NoAgent THEN issued[task[t].session] + 1
              ELSE lease[t].token
     IN /\ lease' = [lease EXCEPT ![t] = [agent |-> a, token |-> n]]
        /\ last' = [last EXCEPT ![t] = n]
        /\ issued' = [issued EXCEPT ![task[t].session] = n]
  /\ lanes' = Overtaken(t)

Grant(t, a) ==
  LET s == task[t].session
      n == issued[s] + 1
  IN /\ a # NoAgent /\ a # lease[t].agent /\ n <= MaxToken
     /\ lease' = [lease EXCEPT ![t] = [agent |-> a, token |-> n]]
     /\ last' = [last EXCEPT ![t] = n]
     /\ issued' = [issued EXCEPT ![s] = n]
     /\ lanes' = Overtaken(t)

Vacate(t) ==
  /\ Holder(t) = NoAgent /\ lease[t].agent # NoAgent
  /\ lease' = [lease EXCEPT ![t] = NoLease]
  /\ lanes' = Overtaken(t)
  /\ UNCHANGED <<last, issued>>

SyncLease(t) ==
  \/ Grant(t, Holder(t))
  \/ Vacate(t)
  \/ Holder(t) = lease[t].agent /\ UNCHANGED leaseVars

-----------------------------------------------------------------------------
(* Joining and leaving the roster.                                         *)

\* assign_task_agent makes active whoever joins work in progress and offers the
\* rest; the REST route writes the status it is given ("seat").
BeginAssign(p, t, a) ==
  /\ Free(p, "assign")
  /\ \E status \in {"active", "waiting", "offered"} :
       /\ \/ "seat" \in Ops
          \/ status # (IF task[t].state = "in_progress" THEN "offered" ELSE "active")
       /\ Start(p, [Call(t, "join") EXCEPT !.agent = a, !.as = status])
  /\ UNCHANGED <<task, roster, leaseVars, handoffs>>

\* claim_task: take the lease, then queue the task.
BeginClaim(p, t, a) ==
  /\ Free(p, "claim") /\ task[t].state = "todo"
  /\ Start(p, [Call(t, "join") EXCEPT !.agent = a, !.as = "active", !.next = "requeue"])
  /\ UNCHANGED <<task, roster, leaseVars, handoffs>>

Join(p) ==
  /\ At(p, "join")
  /\ LET h == proc[p] IN
     /\ SetRoster(On(p), Joined(roster[On(p)], h.agent, h.as, h.seat))
     /\ IF h.as = "active" THEN Goto(p, "sync") ELSE Continue(p)
  /\ UNCHANGED <<task, leaseVars, handoffs>>

\* Mutant: the roster moves and the lease is left to whoever reads it next.
SkipSync(p) ==
  /\ At(p, "sync")
  /\ Continue(p)
  /\ UNCHANGED <<task, roster, leaseVars, handoffs>>

Sync(p) ==
  /\ At(p, "sync")
  /\ SyncLease(On(p))
  /\ Continue(p)
  /\ UNCHANGED <<task, roster, handoffs>>

\* decline_task and the REST removal: the lease is left alone.
Leave(t, a) ==
  /\ "leave" \in Ops /\ roster[t][a].on
  /\ roster' = [roster EXCEPT ![t][a].on = FALSE]
  /\ UNCHANGED <<task, leaseVars, handoffs, proc>>

\* Anything that reads the current lease brings it up to date: the write gate,
\* a lane's launch, the task views.
ReadLease(t) ==
  /\ SyncLease(t)
  /\ UNCHANGED <<task, roster, handoffs, proc>>

-----------------------------------------------------------------------------
(* The task's life, as far as it moves the bound conversation.             *)

\* A task starts once its agent has claimed it, or needs nobody's claim.
Dispatch(p, t) ==
  /\ Free(p, "dispatch") /\ task[t].state = "todo"
  /\ Active(t) # {} \/ \A a \in Agents : ~roster[t][a].on
  /\ SetTask(t, [task[t] EXCEPT !.state = "in_progress",
                             !.reporting = task[t].session])
  /\ Start(p, Call(t, "ledger"))
  /\ UNCHANGED <<roster, leaseVars, handoffs>>

\* open_first_turn: the dispatched conversation becomes the holder's seat.
Ledger(p) ==
  /\ At(p, "ledger")
  /\ LET t == On(p)  h == Holder(t) IN
     IF task[t].turned \/ h = NoAgent
       THEN UNCHANGED <<task, roster>>
       ELSE /\ SetTask(t, [task[t] EXCEPT !.turned = TRUE])
            /\ roster' = [roster EXCEPT ![t][h].seat =
                            IF @ = NoSession THEN proc[p].home ELSE @]
  /\ Return(p)
  /\ UNCHANGED <<leaseVars, handoffs>>

\* retry_task and a move to todo.
BeginRequeue(p, t) ==
  /\ Free(p, "requeue")
  /\ Start(p, Call(t, "requeue"))
  /\ UNCHANGED <<task, roster, leaseVars, handoffs>>

\* Done and cancelled work is refused, failed work is not.
Requeue(p) ==
  /\ At(p, "requeue")
  /\ \/ /\ SetTask(On(p), [task[On(p)] EXCEPT !.state = "todo", !.reporting = NoSession])
        /\ Goto(p, "reoffer")
     \/ task[On(p)].state = "over" /\ Return(p) /\ UNCHANGED task
  /\ UNCHANGED <<roster, leaseVars, handoffs>>

\* The rows of members on the roster with one status are given another.
Restatus(t, from, to) ==
  SetRoster(t, [a \in Agents |->
                  IF roster[t][a].on /\ roster[t][a].status = from
                    THEN [roster[t][a] EXCEPT !.status = to] ELSE roster[t][a]])

Reoffer(p) ==
  /\ At(p, "reoffer")
  /\ Restatus(On(p), "withdrawn", "offered")
  /\ Return(p)
  /\ UNCHANGED <<task, leaseVars, handoffs>>

\* complete_task.
Finish(p, t) ==
  /\ Free(p, "finish") /\ task[t].state # "over"
  /\ SetTask(t, [task[t] EXCEPT !.state = "over", !.reporting = NoSession])
  /\ Start(p, Call(t, "settle"))
  /\ UNCHANGED <<roster, leaseVars, handoffs>>

Settle(p) ==
  /\ At(p, "settle")
  /\ \E status \in {"done", "withdrawn"} : Restatus(On(p), "offered", status)
  /\ Return(p)
  /\ UNCHANGED <<task, leaseVars, handoffs>>

\* revise_task: reopened, the task reports from the holder's conversation.
Revise(p, t) ==
  /\ Free(p, "revise") /\ task[t].state = "over"
  /\ SetTask(t, [task[t] EXCEPT !.state = "in_progress",
                             !.reporting = task[t].session])
  /\ Start(p, Call(t, "back"))
  /\ UNCHANGED <<roster, leaseVars, handoffs>>

Back(p) ==
  /\ At(p, "back")
  /\ LET t == On(p) IN
     proc' = [proc EXCEPT ![p] =
                [@ EXCEPT !.at = "report", !.agent = Holder(t),
                          !.seat = WorkingSession(t, proc[p].home)]]
  /\ UNCHANGED <<task, roster, leaseVars, handoffs>>

\* bind_direct_delivery: the task moves to the session that was given it, and
\* that session seats the worker the roster names, or its own agent.  Then the
\* ledger, as for a dispatch.
Deliver(p, t, s) ==
  /\ Free(p, "deliver") /\ task[t].state # "over"
  /\ SetTask(t, [task[t] EXCEPT !.state = "in_progress", !.session = s, !.reporting = s])
  /\ Start(p, [Call(t, "worker") EXCEPT !.seat = s, !.as = "active",
                                       !.home = s, !.next = "ledger"])
  /\ UNCHANGED <<roster, leaseVars, handoffs>>

Worker(p) ==
  /\ At(p, "worker")
  /\ \E a \in Agents :
       /\ \/ a = Holder(On(p))
          \/ roster[On(p)][a].on /\ roster[On(p)][a].status \in {"offered", "withdrawn"}
          \/ Active(On(p)) = {}
       /\ proc' = [proc EXCEPT ![p] = [@ EXCEPT !.at = "join", !.agent = a]]
  /\ UNCHANGED <<task, roster, leaseVars, handoffs>>

\* update_task: the task is given another session, and nobody reports on it.
Edit(p, t, s) ==
  /\ Free(p, "edit") /\ s # task[t].session
  /\ SetTask(t, [task[t] EXCEPT !.session = s, !.reporting = NoSession])
  /\ UNCHANGED <<roster, leaseVars, handoffs, proc>>

-----------------------------------------------------------------------------
(* Handing over: pass_turn, create_handoff, ack_handoff.                   *)

\* The tool reads who holds the turn; transfer_mission_task_lease also puts the
\* receiver on the roster first.
BeginPass(p, t, to) ==
  /\ Free(p, "pass") /\ task[t].state = "in_progress" /\ Holder(t) # NoAgent
  /\ LET call == [Call(t, "holder") EXCEPT !.agent = to, !.from = Holder(t)] IN
     \/ to # Holder(t) /\ Start(p, call)
     \/ Start(p, IF roster[t][to].on THEN call
                 ELSE [call EXCEPT !.at = "join", !.next = "holder"])
  /\ UNCHANGED <<task, roster, leaseVars, handoffs>>

\* The REST route takes the agent in its path for the holder; on a task that is
\* not in progress it moves the lease without a handover.
BeginRest(p, t, from, to) ==
  /\ Free(p, IF task[t].state = "in_progress" THEN "rest" ELSE "transfer")
  /\ Start(p, [Call(t, IF task[t].state = "in_progress" THEN "holder" ELSE "transfer")
                 EXCEPT !.agent = to, !.from = from])
  /\ UNCHANGED <<task, roster, leaseVars, handoffs>>

\* seat_holder: from now on it matters whose conversation the dispatched one is.
SeatHolder(p) ==
  /\ At(p, "holder")
  /\ LET t == On(p)  h == Holder(t) IN
     IF h = NoAgent THEN UNCHANGED roster
     ELSE roster' = [roster EXCEPT ![t][h].seat =
                       IF @ = NoSession THEN proc[p].home ELSE @]
  /\ Goto(p, "seat")
  /\ UNCHANGED <<task, leaseVars, handoffs>>

\* seat: the receiver's own conversation, made when there is none.
Seat(p) ==
  /\ At(p, "seat")
  /\ LET m == roster[On(p)][proc[p].agent] IN
     proc' = [proc EXCEPT ![p] =
       IF ~m.on THEN [@ EXCEPT !.at = "join", !.next = "chair"]
       ELSE IF m.seat = NoSession THEN [@ EXCEPT !.at = "chair"]
       ELSE [@ EXCEPT !.at = "check", !.seat = m.seat]]
  /\ UNCHANGED <<task, roster, leaseVars, handoffs>>

\* Bound: a new session is one of Sessions that nothing has used.
Fresh ==
  {s \in Sessions :
     /\ issued[s] = 0
     /\ \A t \in Tasks : /\ s \notin {task[t].session, task[t].reporting}
                         /\ \A a \in Agents : roster[t][a].seat # s
     /\ \A q \in Procs : s \notin {proc[q].home, proc[q].seat}}

Chair(p) ==
  /\ At(p, "chair")
  /\ \E s \in Fresh :
       /\ roster' = [roster EXCEPT ![On(p)][proc[p].agent].seat =
                       IF roster[On(p)][proc[p].agent].on THEN s ELSE @]
       /\ proc' = [proc EXCEPT ![p] = [@ EXCEPT !.at = "check", !.seat = s]]
  /\ UNCHANGED <<task, leaseVars, handoffs>>

\* create_handoff: one handover at a time, checked before it is written.
Check(p) ==
  /\ At(p, "check")
  /\ IF handoffs[On(p)] = {} THEN Goto(p, "insert") ELSE Return(p)
  /\ UNCHANGED <<task, roster, leaseVars, handoffs>>

\* Mutant: the row's columns are written in the wrong order.
InsertShifted(p) ==
  /\ At(p, "insert")
  /\ handoffs' = [handoffs EXCEPT ![On(p)] =
                    @ \cup {[by |-> proc[p].from, from |-> proc[p].agent, to |-> p]}]
  /\ Goto(p, "ack")
  /\ UNCHANGED <<task, roster, leaseVars>>

Insert(p) ==
  /\ At(p, "insert")
  /\ handoffs' = [handoffs EXCEPT ![On(p)] =
                    @ \cup {[by |-> p, from |-> proc[p].from, to |-> proc[p].agent]}]
  /\ Goto(p, "ack")
  /\ UNCHANGED <<task, roster, leaseVars>>

\* The newest pending handover, of which two may have any order: a handover is
\* dated when its handler started.
Ack(p) ==
  /\ At(p, "ack")
  /\ \/ /\ handoffs[On(p)] = {} \/ \E h \in handoffs[On(p)] : h.to # proc[p].agent
        /\ Return(p)
     \/ \E h \in handoffs[On(p)] :
          /\ h.to = proc[p].agent
          /\ proc' = [proc EXCEPT ![p] =
                        [@ EXCEPT !.at = "transfer", !.next = "mark",
                                  !.from = h.from, !.hand = h.by]]
  /\ UNCHANGED <<task, roster, leaseVars, handoffs>>

\* Mutant: the holder who passes the turn on is not asked to step back.
TransferBeside(p) ==
  /\ At(p, "transfer")
  /\ LET t == On(p)  to == proc[p].agent IN
     IF roster[t][to].on
       THEN SetRoster(t, Passed(roster[t], NoAgent, to)) /\ Goto(p, "sync")
       ELSE Return(p) /\ UNCHANGED roster
  /\ UNCHANGED <<task, leaseVars, handoffs>>

\* Nobody can be given the lease who has left the roster.
Transfer(p) ==
  /\ At(p, "transfer")
  /\ LET t == On(p)  to == proc[p].agent IN
     IF roster[t][to].on
       THEN SetRoster(t, Passed(roster[t], proc[p].from, to)) /\ Goto(p, "sync")
       ELSE Return(p) /\ UNCHANGED roster
  /\ UNCHANGED <<task, leaseVars, handoffs>>

Mark(p) ==
  /\ At(p, "mark")
  /\ handoffs' = [handoffs EXCEPT ![On(p)] = {h \in @ : h.by # proc[p].hand}]
  /\ Goto(p, "report")
  /\ UNCHANGED <<task, roster, leaseVars>>

\* Mutant: the task goes on reporting from the old holder's conversation.
ReportFromOldSeat(p) ==
  /\ At(p, "report")
  /\ SetTask(On(p), [task[On(p)] EXCEPT !.turned = TRUE])
  /\ Return(p)
  /\ UNCHANGED <<roster, leaseVars, handoffs>>

\* The turn is opened and the task reports from the new holder's conversation.
Report(p) ==
  /\ At(p, "report")
  /\ SetTask(On(p), [task[On(p)] EXCEPT !.reporting = proc[p].seat,
                       !.turned = @ \/ proc[p].agent # NoAgent])
  /\ Return(p)
  /\ UNCHANGED <<roster, leaseVars, handoffs>>

-----------------------------------------------------------------------------
(* Lanes.                                                                  *)

\* A lane keeps the token of the lease it was started under; one started while
\* nobody holds the lease has no token, and is not kept.  Reading the lease
\* synchronises it: a ReadLease right before is that part of the launch.
Launch(l, t) ==
  /\ "lane" \in Ops /\ lanes[l] = NoLane
  /\ task[t].state = "in_progress" /\ task[t].reporting # NoSession
  /\ lease[t].agent # NoAgent /\ Holder(t) = lease[t].agent
  /\ lanes' = [lanes EXCEPT ![l] = [task |-> t, token |-> lease[t].token, moved |-> FALSE]]
  /\ UNCHANGED <<task, roster, lease, last, issued, handoffs, proc>>

Land(l) ==
  /\ lanes[l] # NoLane
  /\ lanes' = [lanes EXCEPT ![l] = NoLane]
  /\ UNCHANGED <<task, roster, lease, last, issued, handoffs, proc>>

Stop(p) ==
  /\ "stop" \in Ops /\ proc[p] # Idle
  /\ Return(p)
  /\ UNCHANGED <<task, roster, leaseVars, handoffs>>

-----------------------------------------------------------------------------
Step(p) ==
  \/ Join(p) \/ Sync(p) \/ Ledger(p) \/ Requeue(p) \/ Reoffer(p) \/ Settle(p)
  \/ Back(p) \/ Worker(p) \/ SeatHolder(p) \/ Seat(p) \/ Chair(p) \/ Check(p)
  \/ Insert(p) \/ Ack(p) \/ Transfer(p) \/ Mark(p) \/ Report(p) \/ Stop(p)

Operation(p, t) ==
  \/ Dispatch(p, t) \/ BeginRequeue(p, t) \/ Finish(p, t) \/ Revise(p, t)
  \/ \E s \in Sessions : Deliver(p, t, s) \/ Edit(p, t, s)
  \/ \E a \in Agents : \/ BeginAssign(p, t, a) \/ BeginClaim(p, t, a)
                       \/ BeginPass(p, t, a)
                       \/ \E from \in Agents : BeginRest(p, t, from, a)

Next ==
  \/ \E p \in Procs : Step(p) \/ \E t \in Tasks : Operation(p, t)
  \/ \E t \in Tasks : \/ ReadLease(t)
                      \/ \E a \in Agents : Leave(t, a)
  \/ \E l \in Lanes : Land(l) \/ \E t \in Tasks : Launch(l, t)

Spec == Init /\ [][Next]_vars

-----------------------------------------------------------------------------
(* Properties.                                                             *)

\* Every row, lease, lane and handler has the shape the code gives it.
TypeOK ==
  /\ task \in [Tasks -> Task]
  /\ roster \in [Tasks -> [Agents -> Member]]
  /\ lease \in [Tasks -> Lease]
  /\ last \in [Tasks -> Nat]
  /\ issued \in [Sessions -> Nat]
  /\ handoffs \in [Tasks -> SUBSET Handover]
  /\ lanes \in [Lanes -> Lane]
  /\ proc \in [Procs -> Handler]

Promise == INSTANCE Fencing WITH holder <- [t \in Tasks |-> lease[t].agent],
                                 token <- last

\* The leases keep what they promise: each new holder has a token greater than
\* any the task has had (leases.rs:1-3), though tokens are counted per session
\* and sessions are shared by tasks.
Fenced == Promise!Spec

\* A lane started before the lease changed hands cannot pass for one of the
\* current holder's: the token it writes under is not the current one
\* (leases.rs:85-88, ownership.rs:102-104).
OldTokensAreStale ==
  \A l \in Lanes :
    /\ lanes[l].moved
    /\ lease[lanes[l].task].agent # NoAgent
    => lanes[l].token # lease[lanes[l].task].token

\* At most one member of a task is active (tasks.rs:1447-1448).
OneHolder == \A t \in Tasks : Cardinality(Active(t)) <= 1

Settled(t) == \A p \in Procs : On(p) # t

\* Between operations the recorded lease is the active member's.
LeaseIsHolders == \A t \in Tasks : Settled(t) => lease[t].agent = Holder(t)

\* Between operations the conversation allowed to report on work in progress
\* is the one the holder of the turn works in: a task that reports from another
\* is refused every write (members.rs:225-226, ownership.rs:82-89).
ReportsFromTurn ==
  \A t \in Tasks : task[t].state = "in_progress" /\ Settled(t)
    => task[t].reporting \in {NoSession, WorkingSession(t, task[t].session)}
=============================================================================

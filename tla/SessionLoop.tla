---------------------------- MODULE SessionLoop ----------------------------
(***************************************************************************)
(* One session: the channel the daemon writes its inputs to, the loop that *)
(* reads them (run_interactive), the conversation it holds in memory and   *)
(* what of it the store has.                                               *)
(*                                                                         *)
(* The loop is one task, so its steps follow one another; the daemon's     *)
(* handlers write to the channel at any time, and the task may be aborted  *)
(* or the process stop between any two steps.  A save is three store calls *)
(* (scalar state, messages, events), and a stop may come between them.     *)
(*                                                                         *)
(* Abstractions.  A reply asks for at most one tool.  Compaction, rewind,  *)
(* titles, modes, checkpoints and the event log are left out: of the save  *)
(* of the events only that it comes last and may fail.  Lane reports and   *)
(* watch events are one kind of input of the loop's own ("report").        *)
(***************************************************************************)
EXTENDS Naturals, Sequences, SequencesExt

CONSTANTS Msgs, NoMsg,
          Held,        \* the messages that are the daemon's envelopes
          Notices,     \* those that are recorded without starting a turn
          Ops,         \* the operations in use
          MaxSteps,    \* bound: tool calls asked for
          MaxReports,  \* bound: lane reports and watch events
          MaxInputs,   \* bound: inputs handed over
          MaxRecovery  \* failures of the model in a row before giving up

AllOps == {"say", "queue", "unqueue", "steer", "drop", "notice", "interrupt",
           "goal", "resume", "cancel", "approval", "ask", "limit", "fatal",
           "retry", "report", "stop", "abort", "fail"}

ASSUME LoopOps == Ops \subseteq AllOps
ASSUME LoopHeld == Held \cup Notices \subseteq Msgs
ASSUME LoopNoMsg == NoMsg \notin Msgs
ASSUME LoopBounds == {MaxSteps, MaxReports, MaxInputs, MaxRecovery} \subseteq Nat

VARIABLES chan,      \* the channel, oldest input first
          pend,      \* inputs taken from it during a step (pending_inputs)
          side,      \* reports of lanes and watches not yet taken
          loop,      \* where the task is
          mem,       \* the state it holds
          disk,      \* what the store holds
          note,      \* a notice whose writer found no live loop
          spent,     \* how much of each bound is used
          sent,      \* history: messages handed over
          gone       \* history: messages a stop took, or the user removed

vars == <<chan, pend, side, loop, mem, disk, note, spent, sent, gone>>

SomeMsg == Msgs \cup {NoMsg}
Kinds == {"say", "queue", "unqueue", "steer", "drop", "notice", "interrupt",
          "goal", "resume", "cancel", "approve"}
Input == [k : Kinds, m : SomeMsg]
In(k, m) == [k |-> k, m |-> m]

Marks == {"user", "answer", "notice", "report", "call", "result", "goal", "drive"}
Entry == [k : Marks, m : SomeMsg]
Put(log, k, m) == Append(log, [k |-> k, m |-> m])

Statuses == {"idle", "running", "waiting", "interrupted", "failed"}
Goals == {"none", "active", "paused", "cancelled", "complete"}

Points == {"off", "load", "boot", "top", "apply", "flush", "drain", "save",
           "step", "ask", "tool", "end", "cancel", "recover", "park", "broken"}

\* then, phase, quiet: where a save leads, how far it is, whether its failure is
\* ignored; was, moved, keep: the flags of the loop over the pending inputs.
Task == [at : Points, then : Points, phase : 0 .. 1, quiet : BOOLEAN,
         first : SomeMsg, was : BOOLEAN, moved : BOOLEAN, keep : BOOLEAN,
         cut : BOOLEAN, errors : Nat]
Off == [at |-> "off", then |-> "off", phase |-> 0, quiet |-> FALSE,
        first |-> NoMsg, was |-> FALSE, moved |-> FALSE, keep |-> FALSE,
        cut |-> FALSE, errors |-> 0]

Scalar == [status : Statuses, asked : BOOLEAN, queue : Seq(Msgs), goal : Goals,
           log : Seq(Entry)]
Blank == [status |-> "idle", asked |-> FALSE, queue |-> <<>>, goal |-> "none",
          log |-> <<>>]

\* written: how much of the log is stored; dirty: its middle was rewritten.
Memory == [s : Scalar, written : Nat, dirty : BOOLEAN]

TypeOK == /\ chan \in Seq(Input) /\ pend \in Seq(Input)
          /\ side \in 0 .. MaxReports
          /\ loop \in Task /\ mem \in Memory /\ disk \in Scalar
          /\ note \in SomeMsg
          /\ spent \in [steps : 0 .. MaxSteps, reports : 0 .. MaxReports,
                      inputs : 0 .. MaxInputs]
          /\ sent \subseteq Msgs /\ gone \subseteq sent

Init == /\ chan = <<>> /\ pend = <<>> /\ side = 0
        /\ loop = Off /\ disk = Blank
        /\ mem = [s |-> Blank, written |-> 0, dirty |-> FALSE]
        /\ note = NoMsg /\ spent = [steps |-> 0, reports |-> 0, inputs |-> 0]
        /\ sent = {} /\ gone = {}

-----------------------------------------------------------------------------
(* What an input does to the state. *)

Without(q, m) == RemoveFirst(q, m)
Holds(s, m) == \E i \in DOMAIN s.queue : s.queue[i] = m

\* accept_user_message: a new request, or the answer to the question asked.
Accepted(s, m) ==
  [s EXCEPT !.status = "running", !.asked = FALSE,
            !.log = Put(@, IF s.status = "waiting" /\ s.asked THEN "answer"
                           ELSE "user", m)]

\* A message folded into the run that goes on, and several of them.
Steered(s, m) == [s EXCEPT !.log = Put(@, "user", m)]
AllSteered(s, q) ==
  [s EXCEPT !.log = @ \o [i \in DOMAIN q |-> [k |-> "user", m |-> q[i]]]]

\* Mutant: an envelope is taken for the answer like any message.
HoldNothing(s, m) == FALSE

\* An envelope that would answer the user's question waits in the queue instead.
Hold(s, m) == s.status = "waiting" /\ s.asked /\ m \in Held

Paused(s) == IF s.goal = "active" THEN [s EXCEPT !.goal = "paused"] ELSE s
\* Mutant: an interrupt leaves the goal active.
HaltedGoalOn(s) == [s EXCEPT !.asked = FALSE, !.status = "interrupted"]

Halted(s) == [Paused(s) EXCEPT !.asked = FALSE, !.status = "interrupted"]

\* apply_input: an input taken while a run is active.
Applied(s, i) ==
  CASE i.k = "say" -> Steered(s, i.m)
    [] i.k = "notice" -> [s EXCEPT !.log = Put(@, "notice", i.m)]
    [] i.k = "queue" -> [s EXCEPT !.queue = Append(@, i.m)]
    [] i.k = "unqueue" -> [s EXCEPT !.queue = Without(@, i.m)]
    [] i.k = "steer" -> IF Holds(s, i.m)
                        THEN [Steered(s, i.m) EXCEPT !.queue = Without(@, i.m)]
                        ELSE s
    [] i.k = "drop" -> [s EXCEPT !.queue = <<>>]
    [] i.k = "goal" -> [s EXCEPT !.goal = "active", !.status = "running",
                                 !.log = Put(@, "goal", NoMsg)]
    [] i.k = "resume" -> IF s.goal = "paused"
                         THEN [s EXCEPT !.goal = "active", !.status = "running",
                                        !.log = Put(@, "drive", NoMsg)]
                         ELSE s
    [] i.k = "cancel" -> IF s.goal = "none" THEN s
                         ELSE [s EXCEPT !.goal = "cancelled", !.status = "running",
                                        !.log = Put(@, "drive", NoMsg)]
    [] OTHER -> s

\* Messages an input removes at the user's request.
Removed(s, i) ==
  {m \in Msgs : Holds(s, m) /\ (i.k = "drop" \/ (i.k = "unqueue" /\ i.m = m))}

\* Goal turns in a row in which no tool was called.
IdleTurns(log) ==
  LET marks == {"goal", "drive"}
      from == {i \in DOMAIN log : log[i].k \in {"call", "goal"}}
      start == IF from = {} THEN 1 ELSE CHOOSE i \in from : \A j \in from : j <= i
  IN  Len(SelectSeq(SubSeq(log, start, Len(log)), LAMBDA e : e.k \in marks))

Unanswered(log, i) == log[i].k = "call" /\ (i = Len(log) \/ log[i + 1].k # "result")

\* Mutant: calls cut off stay without a result.
Unrepaired(log) == log

\* repair_unanswered_tool_calls: a call without its result gets one, and what is
\* behind it moves back by as many places as results come before it.
Open(log) == {i \in DOMAIN log : Unanswered(log, i)}
Moved(log, i) == i + Cardinality({j \in Open(log) : j < i})
Repaired(log) ==
  [p \in 1 .. Len(log) + Cardinality(Open(log)) |->
    IF \E i \in DOMAIN log : Moved(log, i) = p
    THEN log[CHOOSE i \in DOMAIN log : Moved(log, i) = p]
    ELSE [k |-> "result", m |-> NoMsg]]

-----------------------------------------------------------------------------
(* The daemon's side. *)

Alive == loop.at # "off"        \* join.is_finished() is false
Carried(q) == {q[i].m : i \in {j \in DOMAIN q : q[j].k \in {"say", "queue", "notice"}}}
Logged(log) == {log[i].m : i \in DOMAIN log} \ {NoMsg}
Stored == Logged(disk.log) \cup ToSet(disk.queue)

Start(first) == [Off EXCEPT !.at = "load", !.first = first]

\* Daemon::deliver: to the live loop, or by starting one.  A message begins the
\* new loop's first turn, anything else is sent on to it.
Deliver(i) ==
  /\ IF Alive THEN chan' = Append(chan, i) /\ UNCHANGED loop
     ELSE /\ chan' = IF i.k = "say" THEN <<>> ELSE <<i>>
          /\ loop' = Start(IF i.k = "say" THEN i.m ELSE NoMsg)
  /\ UNCHANGED <<pend, side, mem, disk, note, gone>>

Spend == /\ spent.inputs < MaxInputs
         /\ spent' = [spent EXCEPT !.inputs = @ + 1]

Send(k, m) ==
  /\ Spend
  /\ k \in Ops \cap {"say", "queue"} /\ m \in Msgs \ (sent \cup Notices)
  /\ sent' = sent \cup {m}
  /\ Deliver(In(k, m))

Control(k, m) ==
  /\ Spend
  /\ \/ k \in Ops \cap {"unqueue", "steer"} /\ m \in sent \ Notices
     \/ k \in Ops \cap {"drop", "interrupt", "goal", "resume", "cancel"} /\ m = NoMsg
     \/ k = "approve" /\ "approval" \in Ops /\ m = NoMsg
  /\ UNCHANGED sent
  /\ Deliver(In(k, m))

\* record_notice: to the live loop, else straight into the store; that the
\* session was dormant is not looked at again before the write.
Notice(m) ==
  /\ Spend
  /\ "notice" \in Ops /\ m \in Notices \ sent
  /\ sent' = sent \cup {m}
  /\ IF Alive THEN chan' = Append(chan, In("notice", m)) /\ UNCHANGED note
     ELSE note = NoMsg /\ note' = m /\ UNCHANGED chan
  /\ UNCHANGED <<pend, side, loop, mem, disk, gone>>

WriteNotice ==
  /\ note # NoMsg
  /\ disk' = [disk EXCEPT !.log = Put(@, "notice", note)]
  /\ note' = NoMsg
  /\ UNCHANGED <<chan, pend, side, loop, mem, spent, sent, gone>>

\* A lane of this session finishes, or a file it watches grows.
Report ==
  /\ "report" \in Ops /\ loop.at \notin {"off", "load", "boot", "broken"}
  /\ spent.reports < MaxReports
  /\ spent' = [spent EXCEPT !.reports = @ + 1]
  /\ side' = side + 1
  /\ UNCHANGED <<chan, pend, loop, mem, disk, note, sent, gone>>

\* The task ends; what only it had in hand is lost.
Forget(next, writer) ==
  /\ loop' = next
  /\ chan' = <<>> /\ pend' = <<>> /\ side' = 0
  /\ mem' = [s |-> Blank, written |-> 0, dirty |-> FALSE]
  /\ note' = writer
  /\ gone' = gone \cup (sent \ (Stored \cup {writer}))
  /\ UNCHANGED <<disk, spent, sent>>

\* The process stops; a model switch replaces the task; a task that returned is
\* seen to be finished.
Stop == "stop" \in Ops /\ (Alive \/ note # NoMsg) /\ Forget(Off, NoMsg)
Abort == "abort" \in Ops /\ Alive /\ Forget(Start(NoMsg), note)
Finished == loop.at = "broken" /\ Forget(Off, note)

-----------------------------------------------------------------------------
(* The loop. *)

Goto(at) == loop' = [loop EXCEPT !.at = at]
Saving(l, then) == [l EXCEPT !.at = "save", !.then = then, !.phase = 0, !.quiet = FALSE]
Quietly(l, then) == [Saving(l, then) EXCEPT !.quiet = TRUE]
State(s) == mem' = [mem EXCEPT !.s = s]
Fresh(l) == [l EXCEPT !.errors = 0]

inputs == <<chan, pend, side>>
rest == <<note, spent, sent>>

\* Mutant: what is loaded is not counted as stored.
LoadUncounted ==
  /\ loop.at = "load"
  /\ LET log == Repaired(disk.log)
         s == [disk EXCEPT !.log = log]
         first == [s EXCEPT !.status = "running", !.log = Put(log, "user", loop.first)]
     IN  /\ mem' = [s |-> IF loop.first = NoMsg THEN s ELSE first,
                    written |-> 0, dirty |-> FALSE]
         /\ loop' = IF loop.first = NoMsg THEN [loop EXCEPT !.at = "boot"]
                    ELSE Saving(loop, "boot")
  /\ UNCHANGED <<inputs, disk, rest, gone>>

\* load_or_initialize_state and resume_loaded_state.
Load ==
  /\ loop.at = "load"
  /\ LET log == Repaired(disk.log)
         s == [disk EXCEPT !.log = log]
         first == [s EXCEPT !.status = "running", !.asked = FALSE,
                            !.log = Put(log, "user", loop.first)]
     IN  /\ mem' = [s |-> IF loop.first = NoMsg THEN s ELSE first,
                    written |-> Len(disk.log), dirty |-> log # disk.log]
         /\ loop' = IF loop.first = NoMsg THEN [loop EXCEPT !.at = "boot"]
                    ELSE Saving(loop, "boot")
  /\ UNCHANGED <<inputs, disk, rest, gone>>

\* A session found in a terminal state starts idle.
Boot ==
  /\ loop.at = "boot"
  /\ LET over == mem.s.status \in {"failed", "interrupted"}
         l == [loop EXCEPT !.first = NoMsg]
     IN  /\ State([mem.s EXCEPT !.status = IF over THEN "idle" ELSE @])
         /\ loop' = IF over \/ loop.first # NoMsg \/ mem.dirty THEN Saving(l, "top")
                    ELSE [l EXCEPT !.at = "top"]
  /\ UNCHANGED <<inputs, disk, rest, gone>>

\* Mutant: only while the turn goes on.
TopWhileRunning ==
  /\ loop.at = "top" /\ pend # <<>> /\ mem.s.status = "running"
  /\ loop' = [loop EXCEPT !.at = "apply", !.was = TRUE, !.moved = FALSE, !.keep = FALSE]
  /\ UNCHANGED <<inputs, mem, disk, rest, gone>>

\* What came during a step is applied first; was: the step did not end the turn.
Top ==
  /\ loop.at = "top" /\ pend # <<>>
  /\ loop' = [loop EXCEPT !.at = "apply", !.was = mem.s.status = "running",
                          !.moved = FALSE, !.keep = FALSE]
  /\ UNCHANGED <<inputs, mem, disk, rest, gone>>

\* The next input kept back during a step: by now the step may have ended.
ApplyPending ==
  /\ loop.at = "apply" /\ pend # <<>>
  /\ pend' = Tail(pend)
  /\ LET i == Head(pend)
         s == mem.s
         taken == [s EXCEPT !.queue = Without(@, i.m)]
         talks == \/ i.k = "say" /\ (loop.was \/ ~Hold(s, i.m))
                  \/ i.k = "steer" /\ Holds(s, i.m)
         after == IF i.k = "say" /\ ~talks THEN [s EXCEPT !.queue = Append(@, i.m)]
                  ELSE IF talks /\ ~loop.was THEN Accepted(taken, i.m)
                  ELSE Applied(s, i)
     IN  /\ State(after)
         /\ loop' = [loop EXCEPT
              !.moved = @ \/ talks \/ (i.k # "say" /\ ~loop.was /\ after.status = "running"),
              !.keep = @ \/ (~talks /\ i.k # "approve"),
              !.errors = IF talks /\ ~loop.was THEN 0 ELSE @]
         /\ gone' = gone \cup Removed(s, i)
  /\ UNCHANGED <<chan, side, disk, rest>>

Applying ==
  /\ loop.at = "apply" /\ pend = <<>>
  /\ LET wakes == loop.was \/ loop.moved
         l == [loop EXCEPT !.was = FALSE, !.moved = FALSE, !.keep = FALSE]
     IN  /\ State([mem.s EXCEPT !.status = IF wakes THEN "running" ELSE @])
         /\ loop' = IF loop.keep THEN Saving(l, "flush") ELSE [l EXCEPT !.at = "flush"]
  /\ UNCHANGED <<inputs, disk, rest, gone>>

\* Once idle, everything held becomes the next turn.
Ready == loop.at = "flush" \/ (loop.at = "top" /\ pend = <<>>)

Flush ==
  /\ Ready /\ mem.s.status = "idle" /\ mem.s.queue # <<>>
  /\ LET q == mem.s.queue
         first == Accepted([mem.s EXCEPT !.queue = <<>>], Head(q))
     IN  State(AllSteered(first, Tail(q)))
  /\ loop' = Saving(Fresh(loop), "drain")
  /\ UNCHANGED <<inputs, disk, rest, gone>>

Branch ==
  /\ Ready /\ ~(mem.s.status = "idle" /\ mem.s.queue # <<>>)
  /\ Goto(IF mem.s.status = "running" THEN "drain" ELSE "park")
  /\ UNCHANGED <<inputs, mem, disk, rest, gone>>

\* Mutant: the inputs behind an interrupt are read off with it.
DrainPastInterrupt ==
  /\ loop.at = "drain" /\ chan # <<>>
  /\ chan' = Tail(chan)
  /\ LET i == Head(chan)
     IN  /\ loop' = [loop EXCEPT !.cut = @ \/ i.k = "interrupt"]
         /\ State(IF loop.cut THEN mem.s ELSE Applied(mem.s, i))
         /\ gone' = IF loop.cut THEN gone ELSE gone \cup Removed(mem.s, i)
  /\ UNCHANGED <<pend, side, disk, rest>>

\* drain_pending: inputs up to an interrupt; those behind it wait.
DrainInput ==
  /\ loop.at = "drain" /\ chan # <<>>
  /\ chan' = Tail(chan)
  /\ LET i == Head(chan)
     IN  /\ pend' = IF loop.cut /\ i.k # "interrupt" THEN Append(pend, i) ELSE pend
         /\ loop' = [loop EXCEPT !.cut = @ \/ i.k = "interrupt"]
         /\ State(IF loop.cut THEN mem.s ELSE Applied(mem.s, i))
         /\ gone' = IF loop.cut THEN gone ELSE gone \cup Removed(mem.s, i)
  /\ UNCHANGED <<side, disk, rest>>

Reported(s, n) ==
  [s EXCEPT !.log = @ \o [i \in 1 .. n |-> [k |-> "report", m |-> NoMsg]]]

Drained ==
  /\ loop.at = "drain" /\ chan = <<>>
  /\ side' = 0
  /\ LET s == Reported(mem.s, side)
     IN  State(IF loop.cut THEN Halted(s) ELSE s)
  /\ loop' = Saving([loop EXCEPT !.cut = FALSE], IF loop.cut THEN "end" ELSE "step")
  /\ UNCHANGED <<chan, pend, disk, rest, gone>>

\* The model asks for a tool; the call is on record before it runs.
Call ==
  /\ loop.at = "step" /\ spent.steps < MaxSteps
  /\ spent' = [spent EXCEPT !.steps = @ + 1]
  /\ \E ask \in BOOLEAN :
       /\ ask => "approval" \in Ops
       /\ State([mem.s EXCEPT !.log = Put(@, "call", NoMsg),
                              !.status = IF ask THEN "waiting" ELSE @])
       /\ loop' = Quietly(loop, IF ask THEN "ask" ELSE "tool")
  /\ UNCHANGED <<inputs, disk, note, sent, gone>>

\* Its result; complete_goal is such a tool.
Result ==
  /\ loop.at = "tool"
  /\ \E done \in {FALSE, mem.s.goal = "active"} :
       State([mem.s EXCEPT !.log = Put(@, "result", NoMsg),
                           !.goal = IF done THEN "complete" ELSE @])
  /\ loop' = Saving(Fresh(loop), "top")
  /\ UNCHANGED <<inputs, disk, rest, gone>>

\* The reply ends the turn, or asks the user.
EndTurn ==
  /\ loop.at = "step"
  /\ \/ State([mem.s EXCEPT !.status = "idle"])
     \/ "ask" \in Ops /\ State([mem.s EXCEPT !.status = "waiting", !.asked = TRUE])
  /\ loop' = Saving(Fresh(loop), "top")
  /\ UNCHANGED <<inputs, disk, rest, gone>>

\* The model fails: a limit parks the session (a rate limit its goal, too),
\* a final error ends the loop, any other is tried again after a while.
ModelError ==
  /\ loop.at = "step"
  /\ \/ /\ "limit" \in Ops
        /\ \E s \in {mem.s, Paused(mem.s)} : State([s EXCEPT !.status = "idle"])
        /\ loop' = Saving(loop, "top")
     \/ /\ "fatal" \in Ops
        /\ State([mem.s EXCEPT !.status = "failed"])
        /\ loop' = Saving(loop, "broken")
     \/ /\ "retry" \in Ops /\ loop.errors < MaxRecovery
        /\ loop' = [loop EXCEPT !.at = "recover", !.errors = @ + 1]
        /\ UNCHANGED mem
     \/ /\ "retry" \in Ops /\ loop.errors >= MaxRecovery
        /\ State([mem.s EXCEPT !.status = "failed"])
        /\ loop' = Saving(loop, "broken")
  /\ UNCHANGED <<inputs, disk, rest, gone>>

Retry ==
  /\ loop.at = "recover"
  /\ loop' = Saving(loop, "top")
  /\ UNCHANGED <<inputs, mem, disk, rest, gone>>

InStep == \/ loop.at \in {"step", "ask", "tool"}
          \/ loop.at = "save" /\ loop.quiet

\* The step (or the wait) is raced against the channel: an interrupt cancels it,
\* a decision goes to the tool that waits for one, the rest is kept for later.
StepInput ==
  /\ (InStep \/ loop.at = "recover") /\ chan # <<>>
  /\ LET i == Head(chan)
         decides == i.k = "approve" /\ InStep
     IN  /\ ~(decides /\ loop.at = "save" /\ loop.then = "ask")
         /\ loop' = IF i.k = "interrupt"
                    THEN [loop EXCEPT !.at = "cancel", !.cut = InStep, !.then = "off",
                                      !.quiet = FALSE, !.phase = 0]
                    ELSE IF decides /\ loop.at = "ask" THEN [loop EXCEPT !.at = "tool"]
                    ELSE loop
         /\ State([mem.s EXCEPT !.status =
                     IF decides /\ loop.at = "ask" THEN "running" ELSE @])
         /\ pend' = IF i.k = "interrupt" \/ decides THEN pend ELSE Append(pend, i)
  /\ chan' = Tail(chan)
  /\ UNCHANGED <<side, disk, rest, gone>>

CancelInput ==
  /\ loop.at = "cancel" /\ chan # <<>>
  /\ chan' = Tail(chan)
  /\ pend' = IF Head(chan).k = "interrupt" THEN pend ELSE Append(pend, Head(chan))
  /\ UNCHANGED <<side, loop, mem, disk, rest, gone>>

\* Calls cut off get a result, and the session is saved as interrupted.
Cancelled ==
  /\ loop.at = "cancel" /\ chan = <<>>
  /\ LET log == IF loop.cut THEN Repaired(mem.s.log) ELSE mem.s.log
     IN  mem' = [mem EXCEPT !.s = Halted([mem.s EXCEPT !.log = log]),
                            !.dirty = @ \/ loop.cut]
  /\ loop' = Saving([loop EXCEPT !.cut = FALSE], "end")
  /\ UNCHANGED <<inputs, disk, rest, gone>>

Rested ==
  /\ loop.at = "end"
  /\ State([mem.s EXCEPT !.status = "idle"])
  /\ Goto("top")
  /\ UNCHANGED <<inputs, disk, rest, gone>>

\* Parked, idle or with a question open: the channel comes first.
ParkInput ==
  /\ loop.at = "park" /\ chan # <<>>
  /\ chan' = Tail(chan)
  /\ LET i == Head(chan)
         s == mem.s
         taken == [s EXCEPT !.queue = Without(@, i.m)]
     IN  /\ State(CASE i.k = "say" /\ Hold(s, i.m) -> [s EXCEPT !.queue = Append(@, i.m)]
                    [] i.k = "say" /\ ~Hold(s, i.m) -> Accepted(s, i.m)
                    [] i.k = "steer" /\ Holds(s, i.m) -> Accepted(taken, i.m)
                    [] i.k = "interrupt" -> Halted(s)
                    [] OTHER -> Applied(s, i))
         /\ loop' = IF i.k = "approve" \/ (i.k = "drop" /\ s.queue = <<>>)
                    THEN [loop EXCEPT !.at = "top"]
                    ELSE IF i.k = "interrupt" THEN Saving(loop, "end")
                    ELSE IF mem'.s.status = "running" THEN Saving(Fresh(loop), "top")
                    ELSE Saving(loop, "top")
         /\ gone' = gone \cup Removed(s, i)
  /\ UNCHANGED <<pend, side, disk, rest>>

\* Mutant: the parked loop wakes for a report that is not there.
ParkForNoReport ==
  /\ loop.at = "park" /\ chan = <<>>
  /\ side' = side - 1
  /\ State([Reported(mem.s, 1) EXCEPT !.status = IF @ = "idle" THEN "running" ELSE @])
  /\ loop' = Saving(loop, "top")
  /\ UNCHANGED <<chan, pend, disk, rest, gone>>

ParkReport ==
  /\ loop.at = "park" /\ chan = <<>> /\ side > 0
  /\ side' = side - 1
  /\ State([Reported(mem.s, 1) EXCEPT !.status = IF @ = "idle" THEN "running" ELSE @])
  /\ loop' = Saving(loop, "top")
  /\ UNCHANGED <<chan, pend, disk, rest, gone>>

\* Mutant: a turn driven leaves no mark to count it by.
DriveUncounted ==
  /\ loop.at = "park" /\ chan = <<>> /\ side = 0
  /\ mem.s.status = "idle" /\ mem.s.goal = "active"
  /\ State(IF IdleTurns(mem.s.log) >= 2 THEN Paused(mem.s)
           ELSE [mem.s EXCEPT !.status = "running"])
  /\ loop' = Saving(Fresh(loop), "top")
  /\ UNCHANGED <<inputs, disk, rest, gone>>

\* drive_goal_turn: two goal turns that did nothing pause the goal.
Drive ==
  /\ loop.at = "park" /\ chan = <<>> /\ side = 0
  /\ mem.s.status = "idle" /\ mem.s.goal = "active"
  /\ State(IF IdleTurns(mem.s.log) >= 2 THEN Paused(mem.s)
           ELSE [mem.s EXCEPT !.status = "running", !.log = Put(@, "drive", NoMsg)])
  /\ loop' = Saving(Fresh(loop), "top")
  /\ UNCHANGED <<inputs, disk, rest, gone>>

-----------------------------------------------------------------------------
(* persist_to_store: the scalar state, then the messages, then the events;   *)
(* what is written is noted once all of it is.                               *)

\* Mutant: a rewrite replaces the messages by the new ones.
WrittenTailOnly ==
  LET tail == SubSeq(mem.s.log, mem.written + 1, Len(mem.s.log))
  IN  IF mem.dirty THEN tail ELSE disk.log \o tail

Written == IF mem.dirty THEN mem.s.log
           ELSE disk.log \o SubSeq(mem.s.log, mem.written + 1, Len(mem.s.log))
Saved(then) == [loop EXCEPT !.at = then, !.then = "off", !.phase = 0, !.quiet = FALSE]

SaveScalar ==
  /\ loop.at = "save" /\ loop.phase = 0
  /\ disk' = [mem.s EXCEPT !.log = disk.log]
  /\ loop' = [loop EXCEPT !.phase = 1]
  /\ UNCHANGED <<inputs, mem, rest, gone>>

\* Mutant: how much is stored is not noted.
SaveUncounted ==
  /\ loop.at = "save" /\ loop.phase = 1
  /\ disk' = [disk EXCEPT !.log = Written]
  /\ mem' = [mem EXCEPT !.dirty = FALSE]
  /\ loop' = Saved(loop.then)
  /\ UNCHANGED <<inputs, rest, gone>>

SaveMessages ==
  /\ loop.at = "save" /\ loop.phase = 1
  /\ disk' = [disk EXCEPT !.log = Written]
  /\ mem' = [mem EXCEPT !.written = Len(mem.s.log), !.dirty = FALSE]
  /\ loop' = Saved(loop.then)
  /\ UNCHANGED <<inputs, rest, gone>>

\* A store call fails: inside a step that is ignored, elsewhere it ends the loop.
\* When it is that of the events, the messages have been written.
SaveFails ==
  /\ "fail" \in Ops /\ loop.at = "save"
  /\ loop' = Saved(IF loop.quiet THEN loop.then ELSE "broken")
  /\ \/ UNCHANGED disk
     \/ loop.phase = 1 /\ disk' = [disk EXCEPT !.log = Written]
  /\ UNCHANGED <<inputs, mem, rest, gone>>

-----------------------------------------------------------------------------
LoopStep ==
  \/ Load \/ Boot \/ Top \/ ApplyPending \/ Applying \/ Flush \/ Branch
  \/ DrainInput \/ Drained \/ Call \/ Result \/ EndTurn \/ ModelError \/ Retry
  \/ StepInput \/ CancelInput \/ Cancelled \/ Rested
  \/ ParkInput \/ ParkReport \/ Drive
  \/ SaveScalar \/ SaveMessages \/ Finished

Daemon ==
  \/ \E k \in Kinds, m \in Msgs : Send(k, m)
  \/ \E k \in Kinds, m \in SomeMsg : Control(k, m)
  \/ \E m \in Notices : Notice(m)
  \/ WriteNotice \/ Report

Faults == Stop \/ Abort \/ SaveFails

Next == LoopStep \/ Daemon \/ Faults

Spec == Init /\ [][Next]_vars

\* The runtime goes on with the task; the daemon and the faults owe nothing.
LiveSpec == Spec /\ WF_vars(LoopStep)

-----------------------------------------------------------------------------
(* Properties. *)

\* The model is never called with a tool call left unanswered, whatever was cut
\* off before: providers refuse such a history from then on.
PairedCalls ==
  loop.at = "step" =>
    \A i \in DOMAIN mem.s.log : ~Unanswered(mem.s.log, i)

\* The loop knows how much of the transcript is stored, at every point of a save
\* too, and the stored one is the beginning of the one in memory, unless the
\* memory's middle was rewritten and waits for the save that replaces it.
StoreFollows ==
  loop.at \notin {"off", "load", "broken"} =>
    /\ Len(disk.log) = mem.written
    /\ mem.dirty \/ IsPrefix(disk.log, mem.s.log)

\* Nothing is recorded twice.
RecordedOnce ==
  \A i, j \in DOMAIN disk.log :
    i # j /\ disk.log[i].m # NoMsg => disk.log[i].m # disk.log[j].m

InHand == Carried(chan) \cup Carried(pend) \cup {loop.first, note}
          \cup ToSet(mem.s.queue) \cup Logged(mem.s.log)

\* Whatever was handed over is somewhere: in the loop's hands or in the store,
\* unless a stop took it or the user removed it.
NothingDropped == sent \subseteq InHand \cup Stored \cup gone

\* While the loop lives, an envelope does not take the place of the answer to
\* the question the user was asked, unless the user says so.
QuestionStands ==
  [][mem.s.asked /\ loop.at \in {"park", "apply"} /\ Len(mem'.s.log) > Len(mem.s.log)
       /\ Last(mem'.s.log).k = "answer"
     => \/ Last(mem'.s.log).m \notin Held
        \/ Holds(mem.s, Last(mem'.s.log).m)]_vars

\* An interrupt leaves no goal that would drive the session on.
InterruptStopsGoal == loop.at = "end" => mem.s.goal # "active"

\* A message handed over is recorded in the end, unless a stop or the user took it,
\* the user is being waited for, or the loop has gone down.
AwaitsUser == mem.s.status = "waiting"
Taken == \A m \in Msgs \ Notices :
  m \in sent ~> (m \in Logged(disk.log) \/ m \in gone \/ AwaitsUser \/ ~Alive)

\* A goal whose turns do nothing does not drive the session for ever: the loop
\* comes to rest.
ComesToRest == <>[](loop.at \in {"off", "park"} \/ AwaitsUser)

\* What the session promises: the messages people and agents send it are recorded
\* once or lost, and once recorded they stay.
Where(m) == CASE m \in Notices \/ m \notin sent -> "out"
              [] m \in sent \ Notices /\ m \in Logged(disk.log) -> "recorded"
              [] m \in (sent \ Notices) \ (InHand \cup Stored) -> "lost"
              [] OTHER -> "inside"
Promise == INSTANCE Inbox WITH place <- [m \in Msgs |-> Where(m)]
Promised == Promise!Spec
============================================================================

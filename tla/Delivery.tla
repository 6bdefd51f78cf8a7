------------------------------ MODULE Delivery ------------------------------
(***************************************************************************)
(* Direct messages, from the call that sends one to the recipient's        *)
(* session.  The event is the message, its row in message_deliveries says  *)
(* whether it was handed over, and a loop of the daemon hands over what is *)
(* due.  A send is several store calls, a hand-over is followed by a mark  *)
(* in another, and the daemon may stop between any two; a sender repeats a *)
(* call under the same key.                                                *)
(*                                                                         *)
(* Each hand-over makes a copy of the message in the recipient's session,  *)
(* which keeps what Inbox promises; SessionLoop is shown to keep it.       *)
(*                                                                         *)
(* Abstractions.  A mail is its idempotency key, and all mail is of one    *)
(* thread; urgency, which decides how a copy enters the session, is left   *)
(* to SessionLoop.  Room wakes, which share the table, are left out.       *)
(***************************************************************************)
EXTENDS Naturals, FiniteSets

CONSTANTS Mails, NoMail,
          Agents,       \* those to an agent's inbox; the others go to a session or a person
          Batch,        \* how many mails the loop lists at once
          MaxAttempts,  \* MAX_DELIVERY_ATTEMPTS
          MaxFaults,    \* bound: stops and refused marks
          MaxSends,     \* bound: calls of the senders
          MaxPauses     \* bound: pauses of an agent

ASSUME DeliveryAgents == Agents \subseteq Mails
ASSUME DeliveryMails == IsFiniteSet(Mails) /\ NoMail \notin Mails
ASSUME DeliveryBounds ==
  {Batch, MaxAttempts, MaxFaults, MaxSends, MaxPauses} \subseteq Nat

VARIABLES send,    \* where the sender's call is, and the time it was given
          event,   \* the event appended: its sequence (0: none) and its time
          row,     \* the recipient's delivery row
          loop,    \* what the loop listed and how far it is
          paused,  \* mails whose agent is paused
          place,   \* the copies in the recipients' sessions
          nobody,  \* history: mails nobody was there to take
          used     \* how much of each bound is used

vars == <<send, event, row, loop, paused, place, nobody, used>>

Copies == Mails \X (1 .. MaxFaults + 2)
Session == INSTANCE Inbox WITH Msgs <- Copies

Calls == [at : {"idle", "append", "rows", "ok"}, time : Nat]
Events == [seq : Nat, time : Nat]
Rows == [st : {"none", "open", "done"}, attempts : Nat, wait : BOOLEAN]
Turn == [at : {"list", "hand", "mark", "fail"}, on : Mails \cup {NoMail},
         batch : SUBSET Mails]

TypeOK == /\ send \in [Mails -> Calls]
          /\ event \in [Mails -> Events]
          /\ row \in [Mails -> Rows]
          /\ loop \in Turn /\ (loop.at = "list" <=> loop.on = NoMail)
          /\ paused \subseteq Agents /\ nobody \subseteq Mails \ Agents
          /\ Session!TypeOK
          /\ used \in [faults : Nat, sends : Nat, pauses : Nat]

Rest == [at |-> "list", on |-> NoMail, batch |-> {}]
Quiet == [at |-> "idle", time |-> 0]

Init == /\ send = [m \in Mails |-> Quiet]
        /\ event = [m \in Mails |-> [seq |-> 0, time |-> 0]]
        /\ row = [m \in Mails |-> [st |-> "none", attempts |-> 0, wait |-> FALSE]]
        /\ loop = Rest /\ paused = {} /\ nobody = {}
        /\ Session!Init
        /\ used = [faults |-> 0, sends |-> 0, pauses |-> 0]

-----------------------------------------------------------------------------
(* Sending. *)

Sent(m) == event[m].seq > 0
Thread == {m \in Mails : Sent(m)}
sessions == <<loop, paused, place, nobody>>

\* The time is taken, then the body is transcribed before anything is stored.
Prepare(m) ==
  /\ send[m].at \in {"idle", "ok"} /\ used.sends < MaxSends
  /\ used' = [used EXCEPT !.sends = @ + 1]
  /\ send' = [send EXCEPT ![m] = [at |-> "append", time |-> used'.sends]]
  /\ UNCHANGED <<event, row, sessions>>

Number(m) == event' = [event EXCEPT ![m] =
                         [seq |-> Cardinality(Thread) + 1, time |-> send[m].time]]

\* Mutant: a repeated key is a message of its own.
AppendAgain(m) ==
  /\ send[m].at = "append"
  /\ Number(m)
  /\ send' = [send EXCEPT ![m].at = "rows"]
  /\ UNCHANGED <<row, sessions, used>>

\* append_event: a key seen before returns the event it made.
AppendEvent(m) ==
  /\ send[m].at = "append"
  /\ IF Sent(m) THEN UNCHANGED event ELSE Number(m)
  /\ send' = [send EXCEPT ![m].at = "rows"]
  /\ UNCHANGED <<row, sessions, used>>

\* The recipient's row, unless there is one.
AddRow(m) ==
  /\ send[m].at = "rows"
  /\ row' = [row EXCEPT ![m].st = IF @ = "none" THEN "open" ELSE @]
  /\ send' = [send EXCEPT ![m] = [Quiet EXCEPT !.at = "ok"]]
  /\ UNCHANGED <<event, sessions, used>>

-----------------------------------------------------------------------------
(* Handing over. *)

Tries(m) == row[m].st = "open" /\ row[m].attempts < MaxAttempts /\ ~row[m].wait

\* Mutant: mail without a row is taken for not yet sent.
DueWithRow(m) == Sent(m) /\ Tries(m) /\ m \notin paused

\* Mutant: that a mail was delivered is not looked at.
DueAgain(m) == Sent(m) /\ row[m].attempts < MaxAttempts /\ ~row[m].wait

\* An event without a row is pending too.
Due(m) == Sent(m) /\ (row[m].st = "none" \/ Tries(m)) /\ m \notin paused

Before(m, n) == \/ event[m].time < event[n].time
                \/ event[m].time = event[n].time /\ event[m].seq < event[n].seq

\* The listed mails are handed over oldest first.
Oldest(S) == {m \in S : Cardinality({n \in S : Before(n, m)}) < Batch}
Take(S) ==
  \/ S = {} /\ loop' = Rest
  \/ \E m \in S : /\ \A n \in S : ~Before(n, m)
                  /\ loop' = [at |-> "hand", on |-> m, batch |-> S \ {m}]

List ==
  /\ loop.at = "list"
  /\ LET due == {m \in Mails : Due(m)} IN due # {} /\ Take(Oldest(due))
  /\ UNCHANGED <<send, event, row, paused, place, nobody, used>>

\* The copies made of a mail; a hand-over makes the next one.
Made(m) == {n \in 1 .. MaxFaults + 2 : place[<<m, n>>] # "out"}
Enter(m) == LET n == Cardinality(Made(m)) + 1
            IN  n <= MaxFaults + 2 /\ place' = [place EXCEPT ![<<m, n>>] = "inside"]

Go(at) == loop' = [loop EXCEPT !.at = at]

\* deliver_direct: a person reads the thread, and a session that cannot be found
\* is given up; one that cannot be started is an error.
HandOver ==
  /\ loop.at = "hand"
  /\ LET m == loop.on
     IN  \/ Enter(m) /\ Go("mark") /\ UNCHANGED nobody
         \/ m \notin Agents /\ nobody' = nobody \cup {m} /\ Go("mark") /\ UNCHANGED place
         \/ Go("fail") /\ UNCHANGED <<place, nobody>>
  /\ UNCHANGED <<send, event, row, paused, used>>

SetRow(r) == row' = [row EXCEPT ![loop.on] = r]
Noted == row[loop.on]

\* Mutant: the loop lets go of the mail and does not go back to its list.
MarkAndStay ==
  /\ loop.at = "mark"
  /\ SetRow([Noted EXCEPT !.st = "done"])
  /\ loop' = [loop EXCEPT !.on = NoMail]
  /\ UNCHANGED <<send, event, paused, place, nobody, used>>

\* mark_direct_delivered; that the store refused it is not looked at.
Mark ==
  /\ loop.at = "mark"
  /\ \/ SetRow([Noted EXCEPT !.st = "done"]) /\ UNCHANGED used
     \/ /\ used.faults < MaxFaults /\ used' = [used EXCEPT !.faults = @ + 1]
        /\ UNCHANGED row
  /\ Take(loop.batch)
  /\ UNCHANGED <<send, event, paused, place, nobody>>

\* Mutant: the failure is noted like a delivery.
FailClosed ==
  /\ loop.at = "fail"
  /\ SetRow([st |-> "done", attempts |-> Noted.attempts + 1, wait |-> TRUE])
  /\ Take(loop.batch)
  /\ UNCHANGED <<send, event, paused, place, nobody, used>>

\* record_direct_delivery_failure: one attempt more, and a time to wait.
Fail ==
  /\ loop.at = "fail"
  /\ SetRow([st |-> IF Noted.st = "none" THEN "open" ELSE Noted.st,
             attempts |-> Noted.attempts + 1, wait |-> TRUE])
  /\ Take(loop.batch)
  /\ UNCHANGED <<send, event, paused, place, nobody, used>>

Elapse(m) ==
  /\ row[m].wait
  /\ row' = [row EXCEPT ![m].wait = FALSE]
  /\ UNCHANGED <<send, event, loop, paused, place, nobody, used>>

-----------------------------------------------------------------------------
(* The recipients and the daemon. *)

Record(c) ==
  /\ place[c] = "inside"
  /\ place' = [place EXCEPT ![c] = "recorded"]
  /\ UNCHANGED <<send, event, row, loop, paused, nobody, used>>

Pause(m) ==
  /\ m \in Agents
  /\ \/ m \in paused /\ paused' = paused \ {m} /\ UNCHANGED used
     \/ /\ m \notin paused /\ used.pauses < MaxPauses
        /\ paused' = paused \cup {m} /\ used' = [used EXCEPT !.pauses = @ + 1]
  /\ UNCHANGED <<send, event, row, loop, place, nobody>>

\* Calls in progress, the loop's turn and what the sessions have not recorded go
\* with the process.
Stop ==
  /\ used.faults < MaxFaults /\ used' = [used EXCEPT !.faults = @ + 1]
  /\ send' = [m \in Mails |-> IF send[m].at = "ok" THEN send[m] ELSE Quiet]
  /\ loop' = Rest
  /\ place' = [c \in Copies |-> IF place[c] = "inside" THEN "lost" ELSE place[c]]
  /\ UNCHANGED <<event, row, paused, nobody>>

LoopStep == List \/ HandOver \/ Mark \/ Fail

Next ==
  \/ LoopStep \/ Stop
  \/ \E m \in Mails : Prepare(m) \/ AppendEvent(m) \/ AddRow(m) \/ Elapse(m) \/ Pause(m)
  \/ \E c \in Copies : Record(c)

Spec == Init /\ [][Next]_vars

\* The loop runs for as long as the daemon does, time passes, and a session
\* records what it was handed (SessionLoop, Taken).  Senders and people owe nothing.
LiveSpec ==
  /\ Spec /\ WF_vars(LoopStep)
  /\ \A m \in Mails : WF_vars(Elapse(m))
  /\ \A c \in Copies : WF_vars(Record(c))

-----------------------------------------------------------------------------
(* Properties. *)

\* Mail marked delivered has been handed to its session, or there was nobody to
\* hand it to: no stop leaves a mark without a hand-over.
MarkedWasHanded ==
  \A m \in Mails : row[m].st = "done" => Made(m) # {} \/ m \in nobody

\* A recipient gets a message again only where a stop, or a mark the store
\* refused, came between the hand-over and the mark.
AgainOnlyAfterFault ==
  \A m \in Mails : Cardinality(Made(m)) <= 1 + used.faults

\* One event per key, numbered without a gap, however often the call is repeated
\* and whatever senders overlap.
OneEventPerKey == {event[m].seq : m \in Thread} = 1 .. Cardinality(Thread)

\* Mail on record reaches its session, also when the call that sent it never
\* finished, unless every attempt failed or its agent is paused.
Arrived(m) == \/ \E n \in Made(m) : place[<<m, n>>] \in {"recorded", "lost"}
              \/ row[m].attempts >= MaxAttempts
              \/ m \in nobody
Arrives == \A m \in Mails : Sent(m) ~> (Arrived(m) \/ m \in paused)
=============================================================================

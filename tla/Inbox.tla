------------------------------- MODULE Inbox -------------------------------
(***************************************************************************)
(* What a session promises of the messages handed to it: each is recorded  *)
(* in the transcript at most once and never leaves it again.  A message    *)
(* not yet recorded may be lost, and that is all that can happen to it:    *)
(* the session module says on which steps.                                 *)
(***************************************************************************)
CONSTANT Msgs

VARIABLE place       \* where each message is

Places == {"out", "inside", "recorded", "lost"}

TypeOK == place \in [Msgs -> Places]

\* Some messages move on together: a save records several, a stop loses several.
Onward(from, to) == \/ from = to
                    \/ from = "out" /\ to = "inside"
                    \/ from = "inside" /\ to \in {"recorded", "lost"}

Init == place = [m \in Msgs |-> "out"]

Next == /\ place' \in [Msgs -> Places]
        /\ \A m \in Msgs : Onward(place[m], place'[m])

Spec == Init /\ [][Next]_place
============================================================================

------------------------------ MODULE Fencing -------------------------------
(***************************************************************************)
(* What the session leases promise (leases.rs:1-3): a task has at most one *)
(* holder, and every change to a new holder comes with a token greater     *)
(* than any the task had before, so that whoever kept an old token can be  *)
(* told from the holder.                                                   *)
(***************************************************************************)
EXTENDS Naturals

CONSTANTS Tasks, Agents, NoAgent

VARIABLES holder,   \* who holds the lease of each task
          token     \* the last token granted on each task

Init == /\ holder = [t \in Tasks |-> NoAgent]
        /\ token = [t \in Tasks |-> 0]

\* The number itself is the implementation's choice.
Grant(t, a) ==
  /\ a # holder[t]
  /\ token'[t] \in Nat /\ token'[t] > token[t]
  /\ holder' = [holder EXCEPT ![t] = a]
  /\ token' = [token EXCEPT ![t] = token'[t]]

Vacate(t) ==
  /\ holder[t] # NoAgent
  /\ holder' = [holder EXCEPT ![t] = NoAgent]
  /\ UNCHANGED token

Next == \E t \in Tasks : Vacate(t) \/ \E a \in Agents : Grant(t, a)

Spec == Init /\ [][Next]_<<holder, token>>
=============================================================================

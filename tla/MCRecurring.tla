----------------------------- MODULE MCRecurring -----------------------------
(* A one-off job and a wake that repeats, on one session. *)
EXTENDS Recurring, TLC
=============================================================================

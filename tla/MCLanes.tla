------------------------------- MODULE MCLanes -------------------------------
(* The lanes of one conversation. *)
EXTENDS Lanes, TLC
=============================================================================

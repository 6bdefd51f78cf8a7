----------------------------- MODULE MCDelivery -----------------------------
(* One mail to an agent and one to a session or a person.                    *)
EXTENDS Delivery, TLC
=============================================================================

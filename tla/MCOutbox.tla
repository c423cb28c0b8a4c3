------------------------------ MODULE MCOutbox ------------------------------
(***************************************************************************)
(* Instances of Outbox for TLC.                                            *)
(***************************************************************************)
EXTENDS Outbox, TLC

CONSTANTS m1, m2

(* One event type with two consumers, one with a single consumer.          *)
TwoTypes == m1 :> {1, 2} @@ m2 :> {2}
=============================================================================

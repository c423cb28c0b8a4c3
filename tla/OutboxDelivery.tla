--------------------------- MODULE OutboxDelivery ---------------------------
(***************************************************************************)
(* What the transactional outbox promises to the rest of Asterloom, with   *)
(* workers, leases, attempts and the database left out: an integration     *)
(* event that was committed is delivered to its consumers at least once,   *)
(* in the order of the consumer names, and is settled exactly once, either *)
(* as processed (every consumer has had it) or as dead-lettered.           *)
(***************************************************************************)
EXTENDS Naturals

CONSTANTS
  Messages,     \* event ids
  Subscribed    \* event id -> set of consumer ranks (rank = place of the name)

VARIABLES
  status,       \* event id -> where the event stands
  delivered     \* <<event, consumer>> pairs handled at least once

deliveryVars == <<status, delivered>>

(* The life of an event as its publisher and its operator see it.          *)
DeliveryStatus == {"absent", "pending", "processed", "deadLettered"}

Earlier(m, c) == {d \in Subscribed[m] : d < c}

Init ==
  /\ status = [m \in Messages |-> "absent"]
  /\ delivered = {}

(* The business transaction commits the event.                             *)
Post(m) ==
  /\ status[m] = "absent"
  /\ status' = [status EXCEPT ![m] = "pending"]
  /\ UNCHANGED delivered

(* A consumer handles the event.  Nothing prevents a repetition, nor a     *)
(* late one after the event is settled: consumers are idempotent by id.    *)
Deliver(m, c) ==
  /\ status[m] # "absent"
  /\ \A d \in Earlier(m, c) : <<m, d>> \in delivered
  /\ delivered' = delivered \cup {<<m, c>>}
  /\ UNCHANGED status

Complete(m) ==
  /\ status[m] = "pending"
  /\ \A c \in Subscribed[m] : <<m, c>> \in delivered
  /\ status' = [status EXCEPT ![m] = "processed"]
  /\ UNCHANGED delivered

Abandon(m) ==
  /\ status[m] = "pending"
  /\ status' = [status EXCEPT ![m] = "deadLettered"]
  /\ UNCHANGED delivered

Next ==
  \E m \in Messages :
    \/ Post(m)
    \/ \E c \in Subscribed[m] : Deliver(m, c)
    \/ Complete(m)
    \/ Abandon(m)

Spec == Init /\ [][Next]_deliveryVars
=============================================================================

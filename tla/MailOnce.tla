------------------------------ MODULE MailOnce ------------------------------
(***************************************************************************)
(* What Docs/Module/Mail.md promises of a client message id, with requests *)
(* and rows left out: however often it is sent, there is one delivery,     *)
(* with one outcome, and the SMTP server takes at most one message.        *)
(***************************************************************************)
EXTENDS Naturals

CONSTANT Messages   \* client message ids

VARIABLES
  outcome,          \* message -> where its delivery stands
  copies            \* message -> how often the SMTP server took it

onceVars == <<outcome, copies>>

Outcome == {"none", "Pending", "Sent", "Failed"}

Init ==
  /\ outcome = [m \in Messages |-> "none"]
  /\ copies = [m \in Messages |-> 0]

Move(m, from, to) ==
  /\ outcome[m] = from
  /\ outcome' = [outcome EXCEPT ![m] = to]
  /\ UNCHANGED copies

Reserve(m) == Move(m, "none", "Pending")

(* The SMTP server takes the message.                                      *)
Take(m) ==
  /\ outcome[m] = "Pending"
  /\ copies[m] = 0
  /\ copies' = [copies EXCEPT ![m] = 1]
  /\ UNCHANGED outcome

Confirm(m) == copies[m] = 1 /\ Move(m, "Pending", "Sent")

(* The attempt failed, or its reply was lost.                              *)
GiveUp(m) == Move(m, "Pending", "Failed")

Next == \E m \in Messages : Reserve(m) \/ Take(m) \/ Confirm(m) \/ GiveUp(m)

Spec == Init /\ [][Next]_onceVars
=============================================================================

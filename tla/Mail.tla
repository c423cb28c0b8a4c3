-------------------------------- MODULE Mail --------------------------------
(***************************************************************************)
(* Asterloom.Module.Mail: SMTP accounts, and deliveries that are sent at   *)
(* most once per client message id.                                        *)
(*                                                                         *)
(* A send request is one call of MailDeliveryService.SendAsync; a client   *)
(* that retries makes another one with the same client message id.  The id *)
(* of the delivery a request makes is fresh, so the request itself stands  *)
(* for it.  Requests and account administrators interleave at every SQL    *)
(* statement and at every exchange with the SMTP server.                   *)
(***************************************************************************)
EXTENDS Naturals, FiniteSets

CONSTANTS
  Accounts,    \* SMTP account ids
  Settings,    \* what an administrator may set: host, credential, sender
  Messages,    \* client message ids of one tenant and application
  Requests,    \* calls of SendAsync, and the ids of their deliveries
  Admins,      \* account-management calls under way
  MaxVersion,  \* bound: changes to an account
  None

ASSUME MaxVersionType == MaxVersion \in Nat

VARIABLES
  (* tables *)
  account,     \* mail.smtp_accounts
  delivery,    \* mail.deliveries, by client_message_id
  (* the SMTP server *)
  submitted,   \* requests that handed their message to the transport
  accepted,    \* requests whose message the server took
  (* send requests *)
  pc, draft, answer,
  (* account administration *)
  adminPc, adminJob, adminSeen

tables == <<account, delivery>>
smtp == <<submitted, accepted>>
requests == <<pc, draft, answer>>
admins == <<adminPc, adminJob, adminSeen>>
vars == <<tables, smtp, requests, admins>>

AccountRow == [status : {"absent", "Active", "Archived"},
               settings : Settings \cup {None}, version : Nat]
DeliveryRow == [id : Requests, account : Accounts, status : {"Pending", "Sent", "Failed"}]
Draft == [message : Messages, account : Accounts]
AdminJob == [account : Accounts, status : {"Active", "Archived"}, settings : Settings]

ASSUME NoneIsNothing == None \notin Settings \cup DeliveryRow \cup Draft

NoAccount == [status |-> "absent", settings |-> None, version |-> 0]

Ended == {"answered", "refused", "gone"}
Step == {"new", "account", "reserve", "reread", "submit", "smtp", "reply", "sent", "failed"} \cup Ended

TypeOK ==
  /\ account \in [Accounts -> AccountRow]
  /\ delivery \in [Messages -> DeliveryRow \cup {None}]
  /\ submitted \subseteq Requests
  /\ accepted \subseteq Requests
  /\ pc \in [Requests -> Step]
  /\ draft \in [Requests -> Draft \cup {None}]
  /\ answer \in [Requests -> DeliveryRow \cup {None}]
  /\ adminPc \in [Admins -> {"idle", "commit"}]
  /\ adminJob \in [Admins -> AdminJob \cup {None}]
  /\ adminSeen \in [Admins -> AccountRow]

Init ==
  /\ account = [a \in Accounts |-> NoAccount]
  /\ delivery = [m \in Messages |-> None]
  /\ submitted = {} /\ accepted = {}
  /\ pc = [r \in Requests |-> "new"]
  /\ draft = [r \in Requests |-> None]
  /\ answer = [r \in Requests |-> None]
  /\ adminPc = [x \in Admins |-> "idle"]
  /\ adminJob = [x \in Admins |-> None]
  /\ adminSeen = [x \in Admins |-> NoAccount]

Goto(r, step) == pc' = [pc EXCEPT ![r] = step]

Reply(r, row) == Goto(r, "answered") /\ answer' = [answer EXCEPT ![r] = row]

Message(r) == draft[r].message

OwnRow(r, status) == [id |-> r, account |-> draft[r].account, status |-> status]

-----------------------------------------------------------------------------
(* SendAsync.                                                              *)

(* GetDeliveryByClientMessageIdAsync: an earlier delivery is the answer.   *)
Begin(r, m, a) ==
  /\ pc[r] = "new"
  /\ draft' = [draft EXCEPT ![r] = [message |-> m, account |-> a]]
  /\ IF delivery[m] # None THEN Reply(r, delivery[m]) ELSE Goto(r, "account") /\ UNCHANGED answer
  /\ UNCHANGED <<tables, smtp, admins>>

ReadAccount(r) ==
  /\ pc[r] = "account"
  /\ Goto(r, IF account[draft[r].account].status = "Active" THEN "reserve" ELSE "refused")
  /\ UNCHANGED <<tables, smtp, draft, answer, admins>>

InsertAlsoAfterFailure(r) ==
  IF delivery[Message(r)] = None \/ delivery[Message(r)].status = "Failed"
  THEN /\ delivery' = [delivery EXCEPT ![Message(r)] = OwnRow(r, "Pending")]
       /\ Goto(r, "submit")
  ELSE Goto(r, "reread") /\ UNCHANGED delivery

(* INSERT ... ON CONFLICT DO NOTHING on the unique client message id.      *)
InsertDelivery(r) ==
  IF delivery[Message(r)] = None
  THEN /\ delivery' = [delivery EXCEPT ![Message(r)] = OwnRow(r, "Pending")]
       /\ Goto(r, "submit")
  ELSE Goto(r, "reread") /\ UNCHANGED delivery

Reserve(r) ==
  /\ pc[r] = "reserve"
  /\ InsertDelivery(r)
  /\ UNCHANGED <<account, smtp, draft, answer, admins>>

(* Another request made the reservation: its row is the answer.            *)
RereadDelivery(r) ==
  /\ pc[r] = "reread"
  /\ IF delivery[Message(r)] # None
     THEN Reply(r, delivery[Message(r)])
     ELSE Goto(r, "refused") /\ UNCHANGED answer
  /\ UNCHANGED <<tables, smtp, draft, admins>>

(* The credential of the account as it was read is decrypted, or cannot    *)
(* be; nobody looks whether the account has been archived since.           *)
Submit(r) ==
  /\ pc[r] = "submit"
  /\ \/ Goto(r, "smtp") /\ submitted' = submitted \cup {r}
     \/ Goto(r, "failed") /\ UNCHANGED submitted
  /\ UNCHANGED <<tables, accepted, draft, answer, admins>>

(* MailKitTransport: the server takes the message.                         *)
ServerAccepts(r) ==
  /\ pc[r] = "smtp"
  /\ accepted' = accepted \cup {r}
  /\ Goto(r, "reply")
  /\ UNCHANGED <<tables, submitted, draft, answer, admins>>

TransportThrowsAsSent(r) ==
  /\ pc[r] \in {"smtp", "reply"}
  /\ Goto(r, "sent")
  /\ UNCHANGED <<tables, smtp, draft, answer, admins>>

(* The transport returns the message id, or throws: before the server took *)
(* the message, or with its reply lost.                                    *)
TransportReturns(r) ==
  /\ pc[r] = "reply"
  /\ Goto(r, "sent")
  /\ UNCHANGED <<tables, smtp, draft, answer, admins>>

TransportThrows(r) ==
  /\ pc[r] \in {"smtp", "reply"}
  /\ Goto(r, "failed")
  /\ UNCHANGED <<tables, smtp, draft, answer, admins>>

Outcome(r) == IF pc[r] = "sent" THEN "Sent" ELSE "Failed"

(* TryCompleteDeliveryAsync: UPDATE ... WHERE id = @id AND status = 1.     *)
IsOwnSent(r) == delivery[Message(r)] = OwnRow(r, "Sent")

IsOwnPending(r) == delivery[Message(r)] = OwnRow(r, "Pending")

Complete(r) ==
  /\ pc[r] \in {"sent", "failed"}
  /\ IF IsOwnPending(r)
     THEN /\ delivery' = [delivery EXCEPT ![Message(r)] = OwnRow(r, Outcome(r))]
          /\ Reply(r, OwnRow(r, Outcome(r)))
     ELSE Goto(r, "refused") /\ UNCHANGED <<delivery, answer>>
  /\ UNCHANGED <<account, smtp, draft, admins>>

(* A cancelled call (OperationCanceledException is not caught), a statement*)
(* that throws, a crash: the request ends where it is.                     *)
Interrupt(r) ==
  /\ pc[r] \notin Ended \cup {"new"}
  /\ Goto(r, "gone")
  /\ UNCHANGED <<tables, smtp, draft, answer, admins>>

SendStep(r) ==
  \/ ReadAccount(r) \/ Reserve(r) \/ RereadDelivery(r) \/ Submit(r) \/ ServerAccepts(r)
  \/ TransportReturns(r) \/ TransportThrows(r) \/ Complete(r)

-----------------------------------------------------------------------------
(* MailAccountManagementService.                                           *)

CreateAccount(a) ==
  /\ account[a].status = "absent"
  /\ \E s \in Settings :
       account' = [account EXCEPT ![a] = [status |-> "Active", settings |-> s, version |-> 1]]
  /\ UNCHANGED <<delivery, smtp, requests, admins>>

(* Reads the row and checks it; the new row is written by CommitAccount.   *)
BeginAdmin(x, job, accepts) ==
  /\ adminPc[x] = "idle"
  /\ account[job.account].version \in 1..MaxVersion
  /\ accepts
  /\ adminPc' = [adminPc EXCEPT ![x] = "commit"]
  /\ adminJob' = [adminJob EXCEPT ![x] = job]
  /\ adminSeen' = [adminSeen EXCEPT ![x] = account[job.account]]
  /\ UNCHANGED <<tables, smtp, requests>>

BeginUpdateAccount(x, a) ==
  \E s \in Settings :
    BeginAdmin(x, [account |-> a, status |-> "Active", settings |-> s],
               account[a].status = "Active")

(* Archive and Restore; asking for the status there is changes nothing.    *)
BeginChangeStatus(x, a) ==
  \E status \in {"Active", "Archived"} :
    /\ account[a].status \in {"Active", "Archived"} \ {status}
    /\ BeginAdmin(x, [account |-> a, status |-> status, settings |-> account[a].settings], TRUE)

AccountUnchanged(x) == account[adminJob[x].account].version = adminSeen[x].version

(* TryUpdateAccountAsync: UPDATE ... WHERE version = @expected_version.    *)
CommitAccount(x) ==
  /\ adminPc[x] = "commit"
  /\ IF AccountUnchanged(x)
     THEN account' = [account EXCEPT ![adminJob[x].account] =
                        [status |-> adminJob[x].status, settings |-> adminJob[x].settings,
                         version |-> adminSeen[x].version + 1]]
     ELSE UNCHANGED account
  /\ adminPc' = [adminPc EXCEPT ![x] = "idle"]
  /\ adminJob' = [adminJob EXCEPT ![x] = None]
  /\ adminSeen' = [adminSeen EXCEPT ![x] = NoAccount]
  /\ UNCHANGED <<delivery, smtp, requests>>

AdminStep(x) ==
  \/ \E a \in Accounts : BeginUpdateAccount(x, a) \/ BeginChangeStatus(x, a)
  \/ CommitAccount(x)

-----------------------------------------------------------------------------
Next ==
  \/ \E r \in Requests :
       \/ \E m \in Messages, a \in Accounts : Begin(r, m, a)
       \/ SendStep(r) \/ Interrupt(r)
  \/ \E a \in Accounts : CreateAccount(a)
  \/ \E x \in Admins : AdminStep(x)

Spec == Init /\ [][Next]_vars

(* A request that is not interrupted is served to its end: the server runs *)
(* it, and the SMTP exchange returns or times out.                         *)
Fairness == \A r \in Requests : WF_vars(SendStep(r))

FairSpec == Spec /\ Fairness

-----------------------------------------------------------------------------
(* Properties.                                                             *)

(* One client message id is handed to the SMTP server at most once, over   *)
(* all retries, races and interruptions.                                   *)
AtMostOneSubmission ==
  \A r, q \in submitted : Message(r) = Message(q) => r = q

(* A delivery that says Sent was taken by the server.                      *)
SentMeansAccepted ==
  \A m \in Messages :
    delivery[m] # None /\ delivery[m].status = "Sent" => delivery[m].id \in accepted

(* Every caller is told of the one delivery of its client message id, and  *)
(* an outcome, once told, is the one the row keeps for every later caller. *)
AnswersAgreeWithRow ==
  \A r \in Requests : answer[r] # None =>
    LET row == delivery[Message(r)] IN
    /\ row # None
    /\ row.id = answer[r].id /\ row.account = answer[r].account
    /\ answer[r].status # "Pending" => row.status = answer[r].status

(* Sent and Failed are final, and a reservation keeps its owner.           *)
OutcomeIsFinal ==
  [][\A m \in Messages : delivery[m] # None =>
       /\ delivery'[m] # None /\ delivery'[m].id = delivery[m].id
       /\ delivery[m].status # "Pending" => delivery'[m] = delivery[m]]_vars

(* An update that found the account active never lands on an archived one. *)
ArchivedSettingsAreFrozen ==
  [][\A a \in Accounts :
       account[a].status = "Archived" => account'[a].settings = account[a].settings]_vars

(* Every reservation gets an outcome, unless the request that made it was  *)
(* interrupted: nothing in the code takes such a delivery over.            *)
ReservationsSettle ==
  \A m \in Messages :
    delivery[m] # None ~>
      delivery[m] # None /\ (delivery[m].status # "Pending" \/ pc[delivery[m].id] = "gone")

-----------------------------------------------------------------------------

-----------------------------------------------------------------------------
(* The promise of MailOnce.                                                *)

Once == INSTANCE MailOnce
  WITH outcome <- [m \in Messages |-> IF delivery[m] = None THEN "none" ELSE delivery[m].status],
       copies <- [m \in Messages |-> Cardinality({r \in accepted : Message(r) = m})]

(* Racing and retried requests look like one delivery per message.         *)
ImplementsOnce == Once!Spec
=============================================================================

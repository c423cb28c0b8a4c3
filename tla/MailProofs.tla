----------------------------- MODULE MailProofs -----------------------------
(***************************************************************************)
(* Safety of Mail for any number of accounts, messages, requests and       *)
(* administrators, and its refinement of MailOnce.                         *)
(***************************************************************************)
EXTENDS Mail, FiniteSetTheorems, TLAPS

(* Steps at which a request owns a reservation it has not settled.         *)
Owning == {"submit", "smtp", "reply", "sent", "failed"}

Before == {"account", "reserve", "reread"}

(* A request that was received is about a message and an account.          *)
Received == \A r \in Requests : pc[r] # "new" <=> draft[r] # None

(* Administrators write back a row derived from the one they read, which   *)
(* was a row that existed.                                                 *)
AdminsHaveJobs ==
  \A x \in Admins : adminPc[x] = "commit" => adminJob[x] \in AdminJob

AccountsAreSet == \A a \in Accounts : account[a].status # "absent" => account[a].settings # None

TypeInv == TypeOK /\ Received /\ AdminsHaveJobs /\ AccountsAreSet

(* While a request owns a reservation the row is its own and Pending.      *)
OwnersHoldRow ==
  \A r \in Requests : pc[r] \in Owning => delivery[Message(r)] = OwnRow(r, "Pending")

(* A row was made by a request for that very message.                      *)
RowsHaveOwners ==
  \A m \in Messages : delivery[m] # None =>
    /\ draft[delivery[m].id] # None
    /\ Message(delivery[m].id) = m
    /\ pc[delivery[m].id] \notin Before \cup {"new"}

(* Only the request that made the row submits, and only what was submitted *)
(* is accepted.                                                            *)
SubmittersOwnRow ==
  \A r \in submitted :
    /\ pc[r] \notin Before \cup {"new", "submit"}
    /\ delivery[Message(r)] # None /\ delivery[Message(r)].id = r

AcceptedSoFar ==
  /\ accepted \subseteq submitted
  /\ \A r \in Requests :
       /\ pc[r] = "smtp" => r \in submitted \ accepted
       /\ pc[r] \in {"reply", "sent"} => r \in accepted

AnsweredWereReceived == \A r \in Requests : answer[r] # None => draft[r] # None

IInv ==
  /\ TypeInv
  /\ OwnersHoldRow
  /\ RowsHaveOwners
  /\ SubmittersOwnRow
  /\ AcceptedSoFar
  /\ AnsweredWereReceived
  /\ SentMeansAccepted
  /\ AnswersAgreeWithRow

(* What an administrator read of an account: as long as its version is the *)
(* row's, the row is still as it was read; and unless it was active, the   *)
(* settings to be written are those that were read.                        *)
CopyIsGood(seen, job, row) ==
  /\ seen.version \in 1..row.version
  /\ seen.version = row.version => seen = row
  /\ seen.status = "Active" \/ job.settings = seen.settings

AdminCopies ==
  /\ \A a \in Accounts : account[a].status = "absent" => account[a].version = 0
  /\ \A x \in Admins : adminPc[x] = "commit" =>
       CopyIsGood(adminSeen[x], adminJob[x], account[adminJob[x].account])

-----------------------------------------------------------------------------
(* Types.                                                                  *)

LEMMA TypeInit == Init => TypeInv
BY DEF Init, TypeInv, TypeOK, Received, AdminsHaveJobs, AccountsAreSet, AccountRow, NoAccount, Step

LEMMA SendKeepsTypes ==
  ASSUME TypeInv, NEW r \in Requests, SendStep(r) \/ Interrupt(r)
  PROVE  TypeInv'
<1> USE DEF TypeInv, TypeOK, Received, AdminsHaveJobs, AccountsAreSet, Step, Ended, Goto, admins, smtp, tables, Reply
<1>1. CASE ReadAccount(r)
  BY <1>1 DEF ReadAccount
<1>2. CASE Reserve(r)
  BY <1>2, NoneIsNothing DEF Reserve, InsertDelivery, OwnRow, Message, DeliveryRow, Draft
<1>3. CASE RereadDelivery(r)
  BY <1>3 DEF RereadDelivery, Message, Draft
<1>4. CASE Submit(r)
  BY <1>4 DEF Submit
<1>5. CASE ServerAccepts(r)
  BY <1>5 DEF ServerAccepts
<1>6. CASE TransportReturns(r)
  BY <1>6 DEF TransportReturns
<1>7. CASE TransportThrows(r)
  BY <1>7 DEF TransportThrows
<1>8. CASE Complete(r)
  <2>1. draft[r] \in Draft
    BY <1>8 DEF Complete
  <2>2. Message(r) \in Messages /\ OwnRow(r, Outcome(r)) \in DeliveryRow
    BY <2>1 DEF Message, OwnRow, Outcome, DeliveryRow, Draft
  <2>3. CASE IsOwnPending(r)
    BY <1>8, <2>2, <2>3 DEF Complete
  <2>4. CASE ~IsOwnPending(r)
    BY <1>8, <2>4 DEF Complete
  <2> QED
    BY <2>3, <2>4
<1>9. CASE Interrupt(r)
  BY <1>9 DEF Interrupt
<1> HIDE DEF TypeInv
<1> QED
  BY <1>1, <1>2, <1>3, <1>4, <1>5, <1>6, <1>7, <1>8, <1>9 DEF SendStep

LEMMA AdminKeepsTypes ==
  ASSUME TypeInv, NEW x \in Admins, AdminStep(x)
  PROVE  TypeInv'
<1> USE DEF TypeInv, TypeOK, Received, AdminsHaveJobs, AccountsAreSet, requests, smtp, tables
<1>1. ASSUME NEW a \in Accounts, BeginUpdateAccount(x, a) PROVE TypeInv'
  BY <1>1 DEF BeginUpdateAccount, BeginAdmin, AdminJob
<1>2. ASSUME NEW a \in Accounts, BeginChangeStatus(x, a) PROVE TypeInv'
  BY <1>2 DEF BeginChangeStatus, BeginAdmin, AdminJob, AccountRow
<1>3. CASE CommitAccount(x)
  <2> DEFINE job == adminJob[x]
             new == [status |-> job.status, settings |-> job.settings,
                     version |-> adminSeen[x].version + 1]
  <2>1. job \in AdminJob /\ job.account \in Accounts
    BY <1>3 DEF CommitAccount, AdminJob
  <2>2. new \in AccountRow /\ new.settings # None
    BY <2>1, NoneIsNothing DEF AdminJob, AccountRow
  <2>3. NoAccount \in AccountRow
    BY DEF NoAccount, AccountRow
  <2>4. account' = account \/ account' = [account EXCEPT ![job.account] = new]
    BY <1>3 DEF CommitAccount
  <2> HIDE DEF new
  <2>5. account' \in [Accounts -> AccountRow] /\ AccountsAreSet'
    BY <2>1, <2>2, <2>4
  <2> QED
    BY <1>3, <2>3, <2>5 DEF CommitAccount
<1> HIDE DEF TypeInv
<1> QED
  BY <1>1, <1>2, <1>3 DEF AdminStep

LEMMA TypeStep == TypeInv /\ [Next]_vars => TypeInv'
<1> SUFFICES ASSUME TypeInv, [Next]_vars PROVE TypeInv'
  OBVIOUS
<1>1. ASSUME NEW r \in Requests, NEW m \in Messages, NEW a \in Accounts, Begin(r, m, a)
      PROVE  TypeInv'
  BY <1>1, NoneIsNothing
     DEF TypeInv, TypeOK, Received, AdminsHaveJobs, AccountsAreSet, Begin, Reply, Goto, Draft, Step, Ended,
         tables, smtp, admins
<1>2. ASSUME NEW a \in Accounts, CreateAccount(a) PROVE TypeInv'
  BY <1>2, NoneIsNothing DEF TypeInv, TypeOK, Received, AdminsHaveJobs, AccountsAreSet, CreateAccount, AccountRow,
              smtp, requests, admins
<1>3. CASE UNCHANGED vars
  BY <1>3 DEF TypeInv, TypeOK, Received, AdminsHaveJobs, AccountsAreSet, vars, tables, smtp, requests, admins
<1> QED
  BY <1>1, <1>2, <1>3, SendKeepsTypes, AdminKeepsTypes DEF Next

(* Tables, requests and the SMTP server's view keep their types in every   *)
(* reachable state, whatever the constants.                                *)
THEOREM TypeCorrect == Spec => []TypeOK
<1>1. TypeInv => TypeOK
  BY DEF TypeInv
<1> QED
  BY <1>1, TypeInit, TypeStep, PTL DEF Spec

-----------------------------------------------------------------------------
(* The inductive invariant.                                                *)

(* The row a request inserts and completes is a row, about its message.    *)
LEMMA OwnRowIsRow ==
  ASSUME TypeInv, NEW r \in Requests, pc[r] # "new",
         NEW status \in {"Pending", "Sent", "Failed"}
  PROVE  /\ Message(r) \in Messages
         /\ OwnRow(r, status) \in DeliveryRow /\ OwnRow(r, status) # None
         /\ OwnRow(r, status).id = r /\ OwnRow(r, status).status = status
         /\ OwnRow(r, status).account = draft[r].account
<1>1. draft[r] \in Draft
  BY DEF TypeInv, TypeOK, Received
<1> QED
  BY <1>1, NoneIsNothing DEF Message, OwnRow, DeliveryRow, Draft

LEMMA IInvInit == Init => IInv
BY TypeInit
   DEF Init, IInv, OwnersHoldRow, RowsHaveOwners, SubmittersOwnRow, AcceptedSoFar,
       AnsweredWereReceived, SentMeansAccepted, AnswersAgreeWithRow, Owning

(* A step of one request that writes no row and answers nobody keeps the   *)
(* invariant if its own place in SendAsync stays right.                    *)
LEMMA QuietStep ==
  ASSUME IInv, TypeInv', NEW r \in Requests, NEW step \in Step \ {"new"},
         pc[r] # "new", Goto(r, step), UNCHANGED <<delivery, draft, answer>>,
         submitted \subseteq submitted', submitted' \subseteq submitted \cup {r},
         accepted \subseteq accepted', accepted' \subseteq accepted \cup {r},
         step \in Owning => pc[r] \in Owning,
         step \in Before => pc[r] \in Before,
         step # "submit",
         r \in submitted' => pc[r] \in Owning \/ step \notin Owning,
         r \in submitted' => r \in submitted \/ pc[r] \in Owning,
         r \in accepted' => r \in submitted',
         step = "smtp" => r \in submitted' \ accepted',
         step \in {"reply", "sent"} => r \in accepted'
  PROVE  IInv'
<1> USE DEF Goto, Owning, Before
<1>1. OwnersHoldRow'
  BY DEF IInv, TypeInv, TypeOK, OwnersHoldRow, Message, OwnRow
<1>2. RowsHaveOwners'
  BY DEF IInv, TypeInv, TypeOK, RowsHaveOwners, Message, DeliveryRow
<1>3. SubmittersOwnRow'
  <2>1. SUFFICES ASSUME NEW q \in submitted'
                 PROVE  /\ pc'[q] \notin Before \cup {"new", "submit"}
                        /\ delivery[Message(q)] # None /\ delivery[Message(q)].id = q
    BY DEF SubmittersOwnRow, Message
  <2>2. q \in Requests
    BY DEF TypeInv, TypeOK
  <2>3. CASE q \in submitted /\ q # r
    BY <2>2, <2>3 DEF IInv, TypeInv, TypeOK, SubmittersOwnRow
  <2>4. CASE q = r /\ q \in submitted
    BY <2>4 DEF IInv, TypeInv, TypeOK, SubmittersOwnRow
  <2>5. CASE q = r /\ q \notin submitted
    <3>1. delivery[Message(r)] = OwnRow(r, "Pending")
      BY <2>5 DEF IInv, OwnersHoldRow
    <3>2. OwnRow(r, "Pending") # None /\ OwnRow(r, "Pending").id = r
      BY OwnRowIsRow DEF IInv
    <3> QED
      BY <2>5, <3>1, <3>2 DEF IInv, TypeInv, TypeOK
  <2> QED
    BY <2>3, <2>4, <2>5
<1>4. AcceptedSoFar'
  BY DEF IInv, TypeInv, TypeOK, AcceptedSoFar
<1>5. AnsweredWereReceived' /\ AnswersAgreeWithRow'
  BY DEF IInv, AnsweredWereReceived, AnswersAgreeWithRow, Message
<1>6. SentMeansAccepted'
  BY DEF IInv, SentMeansAccepted
<1> QED
  BY <1>1, <1>2, <1>3, <1>4, <1>5, <1>6 DEF IInv

LEMMA QuietSteps ==
  ASSUME IInv, TypeInv', NEW r \in Requests,
         \/ ReadAccount(r) \/ Submit(r) \/ ServerAccepts(r)
         \/ TransportReturns(r) \/ TransportThrows(r) \/ Interrupt(r)
  PROVE  IInv'
<1> USE DEF tables, smtp, Ended, Step, Owning, Before
<1>0. /\ r \in submitted => pc[r] \notin Before \cup {"new", "submit"}
      /\ accepted \subseteq submitted
      /\ pc[r] = "smtp" => r \in submitted \ accepted
      /\ pc[r] \in {"reply", "sent"} => r \in accepted
  BY DEF IInv, SubmittersOwnRow, AcceptedSoFar
<1>1. CASE ReadAccount(r)
  BY <1>0, <1>1, QuietStep DEF ReadAccount
<1>2. CASE Submit(r)
  BY <1>0, <1>2, QuietStep DEF Submit
<1>3. CASE ServerAccepts(r)
  BY <1>0, <1>3, QuietStep DEF ServerAccepts
<1>4. CASE TransportReturns(r)
  BY <1>0, <1>4, QuietStep DEF TransportReturns
<1>5. CASE TransportThrows(r)
  BY <1>0, <1>5, QuietStep DEF TransportThrows
<1>6. CASE Interrupt(r)
  BY <1>0, <1>6, QuietStep DEF Interrupt
<1> QED
  BY <1>1, <1>2, <1>3, <1>4, <1>5, <1>6

LEMMA BeginKeepsInv ==
  ASSUME IInv, TypeInv', NEW r \in Requests, NEW m \in Messages, NEW a \in Accounts, Begin(r, m, a)
  PROVE  IInv'
<1> USE DEF Begin, Goto, Reply, tables, smtp
<1>1. draft[r] = None /\ r \notin submitted
  BY DEF IInv, TypeInv, TypeOK, Received, SubmittersOwnRow
<1>2. /\ \A q \in Requests \ {r} : draft'[q] = draft[q] /\ pc'[q] = pc[q] /\ answer'[q] = answer[q]
      /\ pc'[r] \in {"account", "answered"}
      /\ draft'[r] # None /\ Message(r)' = m
      /\ UNCHANGED <<delivery, submitted, accepted>>
  BY DEF IInv, TypeInv, TypeOK, Message, Received
<1>3. (answer'[r] = answer[r]) \/ (delivery[m] # None /\ answer'[r] = delivery[m])
  <2>1. r \in DOMAIN answer
    BY DEF IInv, TypeInv, TypeOK
  <2>2. CASE delivery[m] # None
    BY <2>1, <2>2
  <2>3. CASE delivery[m] = None
    BY <2>3
  <2> QED
    BY <2>2, <2>3
<1> USE DEF Owning, Before
<1>4. OwnersHoldRow'
  BY <1>2 DEF IInv, OwnersHoldRow, Message, OwnRow
<1>5. RowsHaveOwners'
  BY <1>1, <1>2 DEF IInv, TypeInv, TypeOK, DeliveryRow, RowsHaveOwners, Message
<1>6. SubmittersOwnRow'
  BY <1>1, <1>2 DEF IInv, TypeInv, TypeOK, SubmittersOwnRow, Message
<1>7. AcceptedSoFar'
  BY <1>1, <1>2 DEF IInv, AcceptedSoFar
<1>8. AnsweredWereReceived' /\ SentMeansAccepted'
  BY <1>2 DEF IInv, AnsweredWereReceived, SentMeansAccepted
<1>9. AnswersAgreeWithRow'
  <2>1. ASSUME NEW q \in Requests \ {r}, answer'[q] # None
        PROVE  /\ delivery[Message(q)] # None /\ Message(q)' = Message(q)
               /\ delivery[Message(q)].id = answer[q].id
               /\ delivery[Message(q)].account = answer[q].account
               /\ answer[q].status # "Pending" => delivery[Message(q)].status = answer[q].status
    BY <1>2, <2>1 DEF IInv, AnswersAgreeWithRow, Message
  <2>2. answer[r] = None
    BY <1>1 DEF IInv, AnsweredWereReceived
  <2> QED
    BY <1>2, <1>3, <2>1, <2>2 DEF AnswersAgreeWithRow
<1> QED
  BY <1>4, <1>5, <1>6, <1>7, <1>8, <1>9 DEF IInv

LEMMA RereadKeepsInv ==
  ASSUME IInv, TypeInv', NEW r \in Requests, RereadDelivery(r)
  PROVE  IInv'
<1> USE DEF RereadDelivery, Goto, Reply, tables, smtp, Owning, Before
<1>1. OwnersHoldRow'
  BY DEF IInv, TypeInv, TypeOK, OwnersHoldRow, Message, OwnRow
<1>2. RowsHaveOwners'
  BY DEF IInv, TypeInv, TypeOK, DeliveryRow, RowsHaveOwners, Message
<1>3. SubmittersOwnRow' /\ AcceptedSoFar'
  BY DEF IInv, TypeInv, TypeOK, SubmittersOwnRow, AcceptedSoFar, Message
<1>4. AnsweredWereReceived' /\ SentMeansAccepted'
  BY DEF IInv, TypeInv, TypeOK, Received, AnsweredWereReceived, SentMeansAccepted
<1>5. AnswersAgreeWithRow'
  BY DEF IInv, TypeInv, TypeOK, AnswersAgreeWithRow, Message
<1> QED
  BY <1>1, <1>2, <1>3, <1>4, <1>5 DEF IInv

LEMMA ReserveKeepsInv ==
  ASSUME IInv, TypeInv', NEW r \in Requests, Reserve(r)
  PROVE  IInv'
<1>1. CASE delivery[Message(r)] = None
  <2> DEFINE row == OwnRow(r, "Pending")
  <2>1. /\ Message(r) \in Messages /\ row # None /\ row.id = r /\ row.status = "Pending"
        /\ draft[r] # None
    BY OwnRowIsRow DEF IInv, TypeInv, Received, Reserve
  <2>2. /\ delivery' = [delivery EXCEPT ![Message(r)] = row]
        /\ pc' = [pc EXCEPT ![r] = "submit"] /\ pc[r] = "reserve"
        /\ UNCHANGED <<account, submitted, accepted, draft, answer>>
    BY <1>1 DEF Reserve, InsertDelivery, Goto, smtp
  <2> HIDE DEF row
  <2>3. /\ \A m \in Messages \ {Message(r)} : delivery'[m] = delivery[m]
        /\ delivery'[Message(r)] = row
        /\ \A q \in Requests \ {r} : pc'[q] = pc[q]
        /\ pc'[r] = "submit"
        /\ \A q \in Requests : Message(q)' = Message(q)
    BY <2>1, <2>2 DEF IInv, TypeInv, TypeOK, Message
  <2>4. \A m \in Messages : delivery[m] # None => delivery'[m] = delivery[m]
    BY <1>1, <2>3
  <2>5. \A q \in Requests : draft[q] # None => Message(q) \in Messages
    BY DEF IInv, TypeInv, TypeOK, Draft, Message
  <2>6. r \notin submitted
    BY <2>2 DEF IInv, SubmittersOwnRow, Before
  <2>7. OwnersHoldRow'
    <3>1. SUFFICES ASSUME NEW q \in Requests, pc'[q] \in Owning
                   PROVE  delivery'[Message(q)] = OwnRow(q, "Pending")
      BY <2>2, <2>3 DEF OwnersHoldRow, OwnRow
    <3>2. CASE q = r
      BY <2>3, <3>2 DEF row
    <3>3. CASE q # r
      <4>1. delivery[Message(q)] = OwnRow(q, "Pending") /\ pc[q] # "new"
        BY <2>3, <3>1, <3>3 DEF IInv, OwnersHoldRow, Owning
      <4>2. OwnRow(q, "Pending") # None /\ Message(q) \in Messages
        BY <4>1, OwnRowIsRow DEF IInv
      <4> QED
        BY <2>4, <4>1, <4>2
    <3> QED
      BY <3>2, <3>3
  <2>8. RowsHaveOwners'
    <3>1. SUFFICES ASSUME NEW m \in Messages, delivery'[m] # None
                   PROVE  /\ draft[delivery'[m].id] # None
                          /\ Message(delivery'[m].id) = m
                          /\ pc'[delivery'[m].id] \notin Before \cup {"new"}
      BY <2>2 DEF RowsHaveOwners, Message
    <3>2. CASE m = Message(r)
      BY <2>1, <2>3, <3>2 DEF Before
    <3>3. CASE m # Message(r)
      <4>1. delivery'[m] = delivery[m] /\ delivery[m].id \in Requests
        BY <2>3, <3>1, <3>3 DEF IInv, TypeInv, TypeOK, DeliveryRow
      <4>2. /\ draft[delivery[m].id] # None /\ Message(delivery[m].id) = m
            /\ pc[delivery[m].id] \notin Before \cup {"new"}
        BY <3>1, <4>1 DEF IInv, RowsHaveOwners
      <4>3. delivery[m].id # r
        BY <2>2, <4>2 DEF Before
      <4> QED
        BY <2>3, <4>1, <4>2, <4>3
    <3> QED
      BY <3>2, <3>3
  <2>9. SubmittersOwnRow'
    <3>1. SUFFICES ASSUME NEW q \in submitted
                   PROVE  /\ pc'[q] \notin Before \cup {"new", "submit"}
                          /\ delivery'[Message(q)] # None /\ delivery'[Message(q)].id = q
      BY <2>2 DEF SubmittersOwnRow, Message
    <3>2. /\ pc[q] \notin Before \cup {"new", "submit"} /\ q \in Requests /\ q # r
          /\ delivery[Message(q)] # None /\ delivery[Message(q)].id = q
      BY <2>6 DEF IInv, TypeInv, TypeOK, SubmittersOwnRow
    <3>3. Message(q) \in Messages
      BY <2>5, <3>2 DEF IInv, TypeInv, Received
    <3> QED
      BY <2>3, <2>4, <3>2, <3>3
  <2>10. AcceptedSoFar'
    BY <2>2, <2>3 DEF IInv, AcceptedSoFar
  <2>11. AnsweredWereReceived' /\ AnswersAgreeWithRow'
    BY <2>2, <2>4, <2>5 DEF IInv, AnsweredWereReceived, AnswersAgreeWithRow, Message
  <2>12. SentMeansAccepted'
    BY <2>1, <2>2, <2>3 DEF IInv, SentMeansAccepted
  <2> QED
    BY <2>7, <2>8, <2>9, <2>10, <2>11, <2>12 DEF IInv
<1>2. CASE delivery[Message(r)] # None
  <2>1. /\ Goto(r, "reread") /\ UNCHANGED <<delivery, draft, answer, submitted, accepted>>
        /\ pc[r] = "reserve"
    BY <1>2 DEF Reserve, InsertDelivery, smtp
  <2>2. r \notin submitted /\ accepted \subseteq submitted
    BY <2>1 DEF IInv, SubmittersOwnRow, AcceptedSoFar, Before
  <2> QED
    BY <2>1, <2>2, QuietStep DEF Step, Owning, Before
<1> QED
  BY <1>1, <1>2

LEMMA CompleteKeepsInv ==
  ASSUME IInv, TypeInv', NEW r \in Requests, Complete(r)
  PROVE  IInv'
<1> DEFINE old == OwnRow(r, "Pending")
           new == OwnRow(r, Outcome(r))
<1>1. pc[r] \in {"sent", "failed"} /\ pc[r] # "new" /\ delivery[Message(r)] = old
  BY DEF Complete, IInv, OwnersHoldRow, Owning
<1>2. /\ Message(r) \in Messages /\ old # None /\ new # None
      /\ old.id = r /\ new.id = r /\ old.status = "Pending" /\ new.status = Outcome(r)
      /\ old.account = draft[r].account /\ new.account = draft[r].account
      /\ draft[r] # None
  BY <1>1, OwnRowIsRow DEF IInv, TypeInv, Received, Outcome
<1>3. /\ delivery' = [delivery EXCEPT ![Message(r)] = new]
      /\ pc' = [pc EXCEPT ![r] = "answered"] /\ answer' = [answer EXCEPT ![r] = new]
      /\ UNCHANGED <<account, submitted, accepted, draft>>
  BY <1>1 DEF Complete, IsOwnPending, Reply, Goto, smtp
<1> HIDE DEF old, new
<1>4. /\ \A m \in Messages \ {Message(r)} : delivery'[m] = delivery[m]
      /\ delivery'[Message(r)] = new
      /\ \A q \in Requests \ {r} : pc'[q] = pc[q] /\ answer'[q] = answer[q]
      /\ pc'[r] = "answered" /\ answer'[r] = new
      /\ \A q \in Requests : Message(q)' = Message(q)
  BY <1>2, <1>3 DEF IInv, TypeInv, TypeOK, Message
<1>5. OwnersHoldRow'
  <2>1. SUFFICES ASSUME NEW q \in Requests \ {r}, pc[q] \in Owning
                 PROVE  delivery'[Message(q)] = OwnRow(q, "Pending")
    BY <1>3, <1>4 DEF OwnersHoldRow, OwnRow, Owning
  <2>2. delivery[Message(q)] = OwnRow(q, "Pending") /\ pc[q] # "new"
    BY <2>1 DEF IInv, OwnersHoldRow, Owning
  <2>3. OwnRow(q, "Pending").id = q /\ Message(q) \in Messages
    BY <2>2, OwnRowIsRow DEF IInv
  <2>4. Message(q) # Message(r)
    BY <1>1, <1>2, <2>2, <2>3
  <2> QED
    BY <1>4, <2>2, <2>3, <2>4
<1>6. RowsHaveOwners'
  <2>1. SUFFICES ASSUME NEW m \in Messages, delivery'[m] # None
                 PROVE  /\ draft[delivery'[m].id] # None
                        /\ Message(delivery'[m].id) = m
                        /\ pc'[delivery'[m].id] \notin Before \cup {"new"}
    BY <1>3 DEF RowsHaveOwners, Message
  <2>2. CASE m = Message(r)
    BY <1>2, <1>4, <2>2 DEF Before
  <2>3. CASE m # Message(r)
    <3>1. delivery'[m] = delivery[m] /\ delivery[m].id \in Requests
      BY <1>4, <2>1, <2>3 DEF IInv, TypeInv, TypeOK, DeliveryRow
    <3> QED
      BY <1>4, <2>1, <3>1 DEF IInv, RowsHaveOwners, Before
  <2> QED
    BY <2>2, <2>3
<1>7. SubmittersOwnRow'
  <2>1. SUFFICES ASSUME NEW q \in submitted
                 PROVE  /\ pc'[q] \notin Before \cup {"new", "submit"}
                        /\ delivery'[Message(q)] # None /\ delivery'[Message(q)].id = q
    BY <1>3 DEF SubmittersOwnRow, Message
  <2>2. /\ pc[q] \notin Before \cup {"new", "submit"} /\ q \in Requests
        /\ delivery[Message(q)] # None /\ delivery[Message(q)].id = q
    BY DEF IInv, TypeInv, TypeOK, SubmittersOwnRow
  <2>3. CASE q = r
    BY <1>2, <1>4, <2>3 DEF Before
  <2>4. CASE q # r
    <3>1. Message(q) # Message(r)
      BY <1>1, <1>2, <2>2, <2>4
    <3>2. draft[q] \in Draft
      BY <2>2 DEF IInv, TypeInv, TypeOK, Received
    <3>3. Message(q) \in Messages
      BY <3>2 DEF Message, Draft
    <3> QED
      BY <1>4, <2>2, <2>4, <3>1, <3>3
  <2> QED
    BY <2>3, <2>4
<1>8. AcceptedSoFar'
  BY <1>3, <1>4 DEF IInv, AcceptedSoFar
<1>9. SentMeansAccepted'
  BY <1>1, <1>2, <1>3, <1>4 DEF IInv, SentMeansAccepted, AcceptedSoFar, Outcome
<1>10. AnsweredWereReceived' /\ AnswersAgreeWithRow'
  <2>1. AnsweredWereReceived'
    BY <1>2, <1>3, <1>4 DEF IInv, AnsweredWereReceived
  <2>2. ASSUME NEW q \in Requests \ {r}, answer[q] # None
        PROVE  /\ delivery'[Message(q)] # None
               /\ delivery'[Message(q)].id = answer[q].id
               /\ delivery'[Message(q)].account = answer[q].account
               /\ answer[q].status # "Pending" => delivery'[Message(q)].status = answer[q].status
    <3>1. /\ delivery[Message(q)] # None
          /\ delivery[Message(q)].id = answer[q].id
          /\ delivery[Message(q)].account = answer[q].account
          /\ answer[q].status # "Pending" => delivery[Message(q)].status = answer[q].status
      BY <2>2 DEF IInv, AnswersAgreeWithRow
    <3>2. draft[q] \in Draft
      BY <2>2 DEF IInv, TypeInv, TypeOK, AnsweredWereReceived
    <3>3. Message(q) \in Messages
      BY <3>2 DEF Message, Draft
    <3> QED
      BY <1>1, <1>2, <1>4, <3>1, <3>3
  <2>3. answer'[r] # None /\ answer'[r] = delivery'[Message(r)]
    BY <1>2, <1>4
  <2> QED
    BY <1>4, <2>1, <2>2, <2>3 DEF AnswersAgreeWithRow
<1> QED
  BY <1>5, <1>6, <1>7, <1>8, <1>9, <1>10 DEF IInv

LEMMA UntouchedInv ==
  ASSUME IInv, TypeInv', UNCHANGED <<delivery, smtp, requests>>
  PROVE  IInv'
BY DEF IInv, smtp, requests, OwnersHoldRow, RowsHaveOwners, SubmittersOwnRow, AcceptedSoFar,
       AnsweredWereReceived, SentMeansAccepted, AnswersAgreeWithRow, Message, OwnRow

LEMMA IInvStep == IInv /\ [Next]_vars => IInv'
<1> SUFFICES ASSUME IInv, [Next]_vars PROVE IInv'
  OBVIOUS
<1>1. TypeInv'
  BY TypeStep DEF IInv
<1>2. ASSUME NEW r \in Requests, SendStep(r) \/ Interrupt(r) PROVE IInv'
  BY <1>1, <1>2, QuietSteps, ReserveKeepsInv, RereadKeepsInv, CompleteKeepsInv DEF SendStep
<1>3. ASSUME NEW a \in Accounts, CreateAccount(a) PROVE IInv'
  BY <1>1, <1>3, UntouchedInv DEF CreateAccount
<1>4. ASSUME NEW x \in Admins, AdminStep(x) PROVE IInv'
  <2>1. UNCHANGED <<delivery, smtp, requests>>
    BY <1>4 DEF AdminStep, BeginUpdateAccount, BeginChangeStatus, BeginAdmin, CommitAccount, tables
  <2> QED
    BY <1>1, <2>1, UntouchedInv
<1>5. CASE UNCHANGED vars
  BY <1>1, <1>5, UntouchedInv DEF vars, tables
<1> QED
  BY <1>1, <1>2, <1>3, <1>4, <1>5, BeginKeepsInv DEF Next

(* The invariant holds in every reachable state.                           *)
THEOREM Invariance == Spec => []IInv
BY IInvInit, IInvStep, PTL DEF Spec

(* A client message id reaches the SMTP server at most once, over any      *)
(* number of requests for it.                                              *)
THEOREM AtMostOnce == Spec => []AtMostOneSubmission
<1>1. IInv => AtMostOneSubmission
  BY DEF IInv, SubmittersOwnRow, AtMostOneSubmission
<1> QED
  BY <1>1, Invariance, PTL

(* What is recorded as Sent was taken by the server.                       *)
THEOREM SentIsTrue == Spec => []SentMeansAccepted
<1>1. IInv => SentMeansAccepted
  BY DEF IInv
<1> QED
  BY <1>1, Invariance, PTL

(* All callers of one client message id hear of one delivery and, once it  *)
(* is settled, of one outcome.                                             *)
THEOREM AnswersAgree == Spec => []AnswersAgreeWithRow
<1>1. IInv => AnswersAgreeWithRow
  BY DEF IInv
<1> QED
  BY <1>1, Invariance, PTL

-----------------------------------------------------------------------------
(* Action properties.                                                      *)

(* What a step does to a message's row: nothing, or it makes a row where   *)
(* there was none, or it settles its own Pending row.                      *)
LEMMA RowSteps ==
  ASSUME IInv, NEW r \in Requests, NEW m \in Messages, SendStep(r) \/ Interrupt(r)
  PROVE  \/ delivery'[m] = delivery[m]
         \/ delivery[m] = None
         \/ /\ delivery[m] # None /\ delivery[m].status = "Pending"
            /\ delivery'[m] # None /\ delivery'[m].id = delivery[m].id
<1>1. CASE Reserve(r)
  <2>1. Message(r) \in Messages /\ OwnRow(r, "Pending") # None
    BY <1>1, OwnRowIsRow DEF IInv, Reserve
  <2> QED
    BY <1>1, <2>1 DEF IInv, TypeInv, TypeOK, Reserve, InsertDelivery
<1>2. CASE Complete(r)
  <2> DEFINE old == OwnRow(r, "Pending")
             new == OwnRow(r, Outcome(r))
  <2>1. /\ Message(r) \in Messages /\ old # None /\ new # None
        /\ old.id = r /\ new.id = r /\ old.status = "Pending"
    BY <1>2, OwnRowIsRow DEF IInv, Complete, Outcome
  <2>2. \/ delivery' = delivery
        \/ delivery[Message(r)] = old /\ delivery' = [delivery EXCEPT ![Message(r)] = new]
    BY <1>2 DEF Complete, IsOwnPending
  <2> HIDE DEF old, new
  <2> QED
    BY <2>1, <2>2 DEF IInv, TypeInv, TypeOK
<1>3. CASE ~Reserve(r) /\ ~Complete(r)
  BY <1>3 DEF SendStep, Interrupt, ReadAccount, RereadDelivery, Submit, ServerAccepts,
              TransportReturns, TransportThrows, tables
<1> QED
  BY <1>1, <1>2, <1>3

(* Nothing but a send request writes deliveries.                           *)
LEMMA OthersLeaveDeliveries ==
  ASSUME \/ \E r \in Requests, m \in Messages, a \in Accounts : Begin(r, m, a)
         \/ \E a \in Accounts : CreateAccount(a)
         \/ \E x \in Admins : AdminStep(x)
         \/ UNCHANGED vars
  PROVE  UNCHANGED <<delivery, accepted>>
BY DEF Begin, CreateAccount, AdminStep, BeginUpdateAccount, BeginChangeStatus, BeginAdmin,
       CommitAccount, vars, tables, smtp

(* Sent and Failed are final and a reservation keeps its owner: no retry,  *)
(* no race and no late completion rewrites a delivery.                     *)
THEOREM OutcomesAreFinal == Spec => OutcomeIsFinal
<1>1. ASSUME IInv, [Next]_vars, NEW m \in Messages, delivery[m] # None
      PROVE  /\ delivery'[m] # None /\ delivery'[m].id = delivery[m].id
             /\ delivery[m].status # "Pending" => delivery'[m] = delivery[m]
  <2>1. CASE \E r \in Requests : SendStep(r) \/ Interrupt(r)
    BY <1>1, <2>1, RowSteps
  <2>2. CASE ~ \E r \in Requests : SendStep(r) \/ Interrupt(r)
    BY <1>1, <2>2, OthersLeaveDeliveries DEF Next
  <2> QED
    BY <2>1, <2>2
<1>2. IInv /\ [Next]_vars =>
        [\A m \in Messages : delivery[m] # None =>
           /\ delivery'[m] # None /\ delivery'[m].id = delivery[m].id
           /\ delivery[m].status # "Pending" => delivery'[m] = delivery[m]]_vars
  BY <1>1
<1> QED
  BY <1>2, Invariance, PTL DEF Spec, OutcomeIsFinal

LEMMA AdminCopiesInit == Init => AdminCopies
BY DEF Init, AdminCopies, NoAccount

(* A write of an account row raises its version, so the copies others hold *)
(* of that row stay good; a copy of another row is not concerned.          *)
LEMMA NewerRow ==
  ASSUME TypeInv, AdminCopies, NEW a \in Accounts, NEW row \in AccountRow,
         row.version > account[a].version, row.status # "absent",
         account' = [account EXCEPT ![a] = row],
         NEW S \in SUBSET Admins,
         \A x \in S : adminPc[x] = "commit" /\ adminJob'[x] = adminJob[x] /\ adminSeen'[x] = adminSeen[x],
         \A x \in Admins \ S : adminPc'[x] # "commit"
  PROVE  AdminCopies'
<1>1. /\ account'[a] = row
      /\ \A b \in Accounts \ {a} : account'[b] = account[b]
  BY DEF TypeInv, TypeOK
<1>2. account[a].version \in Nat /\ row.version \in Nat
  BY DEF TypeInv, TypeOK, AccountRow
<1>3. ASSUME NEW x \in S
      PROVE  CopyIsGood(adminSeen[x], adminJob[x], account'[adminJob[x].account])
  <2>1. /\ CopyIsGood(adminSeen[x], adminJob[x], account[adminJob[x].account])
        /\ adminJob[x].account \in Accounts /\ adminSeen[x].version \in Nat
    BY <1>3 DEF AdminCopies, TypeInv, TypeOK, AdminsHaveJobs, AdminJob, AccountRow
  <2>2. CASE adminJob[x].account = a
    BY <1>1, <1>2, <2>1, <2>2 DEF CopyIsGood
  <2>3. CASE adminJob[x].account # a
    BY <1>1, <2>1, <2>3
  <2> QED
    BY <2>2, <2>3
<1>4. \A b \in Accounts : account'[b].status = "absent" => account'[b].version = 0
  BY <1>1 DEF AdminCopies
<1> QED
  BY <1>3, <1>4 DEF AdminCopies

LEMMA AdminCopiesStep == TypeInv /\ AdminCopies /\ [Next]_vars => AdminCopies'
<1> SUFFICES ASSUME TypeInv, AdminCopies, [Next]_vars PROVE AdminCopies'
  OBVIOUS
<1>1. ASSUME NEW a \in Accounts, CreateAccount(a) PROVE AdminCopies'
  <2>1. PICK s \in Settings :
          account' = [account EXCEPT ![a] = [status |-> "Active", settings |-> s, version |-> 1]]
    BY <1>1 DEF CreateAccount
  <2> DEFINE row == [status |-> "Active", settings |-> s, version |-> 1]
             S == {x \in Admins : adminPc[x] = "commit"}
  <2>2. row \in AccountRow /\ row.version = 1 /\ row.status # "absent"
    BY DEF AccountRow
  <2>3. account[a].version = 0
    BY <1>1 DEF AdminCopies, CreateAccount
  <2>4. UNCHANGED <<adminPc, adminJob, adminSeen>>
    BY <1>1 DEF CreateAccount, admins
  <2> HIDE DEF row
  <2>5. account' = [account EXCEPT ![a] = row]
    BY <2>1 DEF row
  <2>6. /\ S \in SUBSET Admins
        /\ \A x \in S : adminPc[x] = "commit" /\ adminJob'[x] = adminJob[x] /\ adminSeen'[x] = adminSeen[x]
        /\ \A x \in Admins \ S : adminPc'[x] # "commit"
    BY <2>4
  <2>7. row.version > account[a].version
    BY <2>2, <2>3
  <2> HIDE DEF S
  <2> QED
    BY <2>2, <2>5, <2>6, <2>7, NewerRow
<1>2. ASSUME NEW x \in Admins, NEW job \in AdminJob, NEW accepts \in BOOLEAN,
             BeginAdmin(x, job, accepts),
             account[job.account].status = "Active" \/ job.settings = account[job.account].settings
      PROVE  AdminCopies'
  <2>1. /\ \A y \in Admins \ {x} : /\ adminPc'[y] = adminPc[y] /\ adminJob'[y] = adminJob[y]
                                   /\ adminSeen'[y] = adminSeen[y]
        /\ adminJob'[x] = job /\ adminSeen'[x] = account[job.account]
        /\ account' = account
    BY <1>2 DEF TypeInv, TypeOK, BeginAdmin, tables
  <2>2. CopyIsGood(account[job.account], job, account[job.account])
    <3>1. job.account \in Accounts /\ account[job.account].version \in 1..MaxVersion
      BY <1>2 DEF BeginAdmin, AdminJob
    <3> QED
      BY <1>2, <3>1, MaxVersionType DEF CopyIsGood
  <2> QED
    BY <2>1, <2>2 DEF AdminCopies
<1>3. ASSUME NEW x \in Admins, NEW a \in Accounts, BeginUpdateAccount(x, a) PROVE AdminCopies'
  <2>1. PICK s \in Settings :
          BeginAdmin(x, [account |-> a, status |-> "Active", settings |-> s], account[a].status = "Active")
    BY <1>3 DEF BeginUpdateAccount
  <2>2. [account |-> a, status |-> "Active", settings |-> s] \in AdminJob
    BY DEF AdminJob
  <2>3. account[a].status = "Active"
    BY <2>1 DEF BeginAdmin
  <2> QED
    BY <1>2, <2>1, <2>2, <2>3
<1>4. ASSUME NEW x \in Admins, NEW a \in Accounts, BeginChangeStatus(x, a) PROVE AdminCopies'
  <2>1. PICK status \in {"Active", "Archived"} :
          /\ account[a].status \in {"Active", "Archived"} \ {status}
          /\ BeginAdmin(x, [account |-> a, status |-> status, settings |-> account[a].settings], TRUE)
    BY <1>4 DEF BeginChangeStatus
  <2>2. account[a].settings \in Settings
    BY <2>1 DEF TypeInv, TypeOK, AccountsAreSet, AccountRow
  <2>3. [account |-> a, status |-> status, settings |-> account[a].settings] \in AdminJob
    BY <2>2 DEF AdminJob
  <2> QED
    BY <1>2, <2>1, <2>3
<1>5. ASSUME NEW x \in Admins, CommitAccount(x) PROVE AdminCopies'
  <2> DEFINE S == {y \in Admins \ {x} : adminPc[y] = "commit"}
             a == adminJob[x].account
             new == [status |-> adminJob[x].status, settings |-> adminJob[x].settings,
                     version |-> adminSeen[x].version + 1]
  <2>1. /\ adminPc'[x] = "idle"
        /\ \A y \in Admins \ {x} : /\ adminPc'[y] = adminPc[y] /\ adminJob'[y] = adminJob[y]
                                   /\ adminSeen'[y] = adminSeen[y]
    BY <1>5 DEF CommitAccount, TypeInv, TypeOK
  <2>2. CASE AccountUnchanged(x)
    <3>1. adminJob[x] \in AdminJob /\ adminSeen[x].version \in Nat
      BY <1>5 DEF CommitAccount, TypeInv, TypeOK, AdminsHaveJobs, AccountRow
    <3>2. /\ a \in Accounts /\ new \in AccountRow /\ new.status # "absent"
          /\ new.version = adminSeen[x].version + 1
      BY <3>1 DEF AdminJob, AccountRow
    <3>3. account' = [account EXCEPT ![a] = new] /\ account[a].version = adminSeen[x].version
      BY <1>5, <2>2 DEF CommitAccount, AccountUnchanged
    <3> HIDE DEF a, new
    <3>4. new.version > account[a].version
      BY <3>1, <3>2, <3>3
    <3>5. /\ S \in SUBSET Admins
          /\ \A y \in S : adminPc[y] = "commit" /\ adminJob'[y] = adminJob[y] /\ adminSeen'[y] = adminSeen[y]
          /\ \A y \in Admins \ S : adminPc'[y] # "commit"
      BY <2>1
    <3> HIDE DEF S
    <3> QED
      BY <3>2, <3>3, <3>4, <3>5, NewerRow
  <2>3. CASE ~AccountUnchanged(x)
    <3>1. account' = account
      BY <1>5, <2>3 DEF CommitAccount
    <3> QED
      BY <2>1, <3>1 DEF AdminCopies
  <2> QED
    BY <2>2, <2>3
<1>6. ASSUME UNCHANGED <<account, admins>> PROVE AdminCopies'
  BY <1>6 DEF AdminCopies, admins
<1>7. ASSUME NEW r \in Requests, SendStep(r) \/ Interrupt(r) PROVE AdminCopies'
  BY <1>6, <1>7 DEF SendStep, Interrupt, ReadAccount, Reserve, RereadDelivery, Submit,
                    ServerAccepts, TransportReturns, TransportThrows, Complete, tables
<1>8. ASSUME NEW r \in Requests, NEW m \in Messages, NEW a \in Accounts, Begin(r, m, a)
      PROVE  AdminCopies'
  BY <1>6, <1>8 DEF Begin, tables
<1>9. CASE UNCHANGED vars
  BY <1>6, <1>9 DEF vars, tables
<1> QED
  BY <1>1, <1>3, <1>4, <1>5, <1>7, <1>8, <1>9 DEF Next, AdminStep

(* An administrator whose check found the account active never overwrites  *)
(* the settings of an account that was archived meanwhile.                 *)
THEOREM ArchivedAccountsAreFrozen == Spec => ArchivedSettingsAreFrozen
<1>1. ASSUME TypeInv, AdminCopies, [Next]_vars, NEW a \in Accounts, account[a].status = "Archived"
      PROVE  account'[a].settings = account[a].settings
  <2>1. ASSUME NEW x \in Admins, CommitAccount(x) PROVE account'[a].settings = account[a].settings
    <3>1. CASE AccountUnchanged(x) /\ adminJob[x].account = a
      <4>1. CopyIsGood(adminSeen[x], adminJob[x], account[a])
        BY <1>1, <2>1, <3>1 DEF AdminCopies, CommitAccount
      <4>2. account'[a].settings = adminJob[x].settings
        BY <1>1, <2>1, <3>1 DEF CommitAccount, TypeInv, TypeOK
      <4> QED
        BY <1>1, <3>1, <4>1, <4>2 DEF CopyIsGood, AccountUnchanged
    <3>2. CASE ~(AccountUnchanged(x) /\ adminJob[x].account = a)
      BY <1>1, <2>1, <3>2 DEF CommitAccount, TypeInv, TypeOK
    <3> QED
      BY <3>1, <3>2
  <2>2. ASSUME NEW b \in Accounts, CreateAccount(b) PROVE account'[a].settings = account[a].settings
    BY <1>1, <2>2 DEF CreateAccount, TypeInv, TypeOK
  <2>3. ASSUME account' = account PROVE account'[a].settings = account[a].settings
    BY <2>3
  <2>4. CASE ~ \/ \E x \in Admins : CommitAccount(x)
               \/ \E b \in Accounts : CreateAccount(b)
    BY <1>1, <2>3, <2>4
       DEF Next, vars, tables, AdminStep, BeginUpdateAccount, BeginChangeStatus, BeginAdmin, Begin,
           SendStep, Interrupt, ReadAccount, Reserve, RereadDelivery, Submit, ServerAccepts,
           TransportReturns, TransportThrows, Complete
  <2> QED
    BY <2>1, <2>2, <2>4
<1>2. TypeInv /\ AdminCopies /\ [Next]_vars =>
        [\A a \in Accounts :
           account[a].status = "Archived" => account'[a].settings = account[a].settings]_vars
  BY <1>1
<1> QED
  BY <1>2, TypeInit, TypeStep, AdminCopiesInit, AdminCopiesStep, PTL
     DEF Spec, ArchivedSettingsAreFrozen

-----------------------------------------------------------------------------
(* Refinement of MailOnce.                                                 *)

StatusOf(row) == IF row = None THEN "none" ELSE row.status
Taken(m) == {r \in accepted : Message(r) = m}

(* The server takes at most the message of the row's own request.          *)
LEMMA TakenByOwner ==
  ASSUME IInv, NEW m \in Messages
  PROVE  Taken(m) = {} \/ (delivery[m] # None /\ Taken(m) = {delivery[m].id})
BY DEF IInv, AcceptedSoFar, SubmittersOwnRow, Taken

LEMMA Copies ==
  ASSUME IInv, NEW m \in Messages
  PROVE  /\ Taken(m) = {} => Cardinality(Taken(m)) = 0
         /\ Taken(m) # {} => Cardinality(Taken(m)) = 1
<1>1. CASE Taken(m) = {}
  BY <1>1, FS_EmptySet
<1>2. CASE Taken(m) = {delivery[m].id}
  <2>1. Cardinality({delivery[m].id}) = 1
    BY FS_Singleton
  <2> QED
    BY <1>2, <2>1
<1> QED
  BY <1>1, <1>2, TakenByOwner

(* A request that is at work on its reservation has a Pending row, and the *)
(* server took its message if and only if it is the one that was accepted. *)
LEMMA OwnerTaken ==
  ASSUME IInv, NEW r \in Requests, pc[r] \in Owning
  PROVE  /\ Message(r) \in Messages
         /\ delivery[Message(r)] # None
         /\ delivery[Message(r)].status = "Pending" /\ delivery[Message(r)].id = r
         /\ Taken(Message(r)) = IF r \in accepted THEN {r} ELSE {}
<1>1. /\ Message(r) \in Messages
      /\ delivery[Message(r)] # None
      /\ delivery[Message(r)].status = "Pending" /\ delivery[Message(r)].id = r
  BY OwnRowIsRow DEF IInv, OwnersHoldRow, Owning
<1>2. r \in accepted <=> r \in Taken(Message(r))
  BY DEF Taken
<1> QED
  BY <1>1, <1>2, TakenByOwner

(* A step that writes one row is a move of that row's message.             *)
LEMMA OnceMoves ==
  ASSUME NEW m \in Messages, delivery \in [Messages -> DeliveryRow \cup {None}],
         NEW row, delivery' = [delivery EXCEPT ![m] = row],
         NEW from, StatusOf(delivery[m]) = from, NEW to, StatusOf(row) = to,
         UNCHANGED <<accepted, draft>>
  PROVE  Once!Move(m, from, to)
BY DEF Once!Move, StatusOf, Message

(* Racing and retried requests for a client message id look like a single  *)
(* delivery, of which the server takes at most one copy.                   *)
THEOREM RefinesOnce == Spec => ImplementsOnce
<1>1. Init => Once!Init
  BY FS_EmptySet DEF Init, Once!Init
<1>2. IInv /\ IInv' /\ [Next]_vars => [Once!Next]_(Once!onceVars)
  <2> SUFFICES ASSUME IInv, IInv', [Next]_vars
               PROVE  Once!Next \/ UNCHANGED Once!onceVars
    OBVIOUS
  <2>1. ASSUME UNCHANGED <<delivery, accepted>>,
               \A r \in accepted : Message(r)' = Message(r)
        PROVE  UNCHANGED Once!onceVars
    <3>1. \A m \in Messages : Taken(m)' = Taken(m)
      BY <2>1 DEF Taken
    <3> QED
      BY <2>1, <3>1 DEF Once!onceVars, Taken
  <2>2. ASSUME NEW r \in Requests, Reserve(r) PROVE Once!Next \/ UNCHANGED Once!onceVars
    <3>1. CASE delivery[Message(r)] = None
      <4>1. PICK m \in Messages, row \in DeliveryRow : m = Message(r) /\ row = OwnRow(r, "Pending")
        BY <2>2, OwnRowIsRow DEF IInv, Reserve
      <4>2. StatusOf(delivery[m]) = "none" /\ StatusOf(row) = "Pending"
        BY <3>1, <4>1, NoneIsNothing DEF StatusOf, OwnRow
      <4>3. delivery' = [delivery EXCEPT ![m] = row] /\ UNCHANGED <<accepted, draft>>
        BY <2>2, <3>1, <4>1 DEF Reserve, InsertDelivery, smtp
      <4>4. Once!Reserve(m)
        BY <4>2, <4>3, OnceMoves DEF Once!Reserve, IInv, TypeInv, TypeOK
      <4> QED
        BY <4>4 DEF Once!Next
    <3>2. CASE delivery[Message(r)] # None
      BY <2>1, <2>2, <3>2 DEF Reserve, InsertDelivery, smtp, Message
    <3> QED
      BY <3>1, <3>2
  <2>3. ASSUME NEW r \in Requests, ServerAccepts(r) PROVE Once!Next
    <3>1. PICK m \in Messages : m = Message(r)
      BY <2>3, OwnerTaken DEF ServerAccepts, Owning
    <3>2. /\ delivery[m] # None /\ delivery[m].status = "Pending"
          /\ r \notin accepted /\ Taken(m) = {}
      BY <2>3, <3>1, OwnerTaken DEF ServerAccepts, Owning, IInv, AcceptedSoFar
    <3>3. /\ Taken(m)' = {r}
          /\ \A n \in Messages \ {m} : Taken(n)' = Taken(n)
          /\ UNCHANGED <<delivery, draft>>
      BY <2>3, <3>1, <3>2 DEF ServerAccepts, tables, Taken, Message
    <3>4. Cardinality(Taken(m)) = 0 /\ Cardinality(Taken(m)') = 1
      BY <3>2, <3>3, FS_EmptySet, FS_Singleton
    <3>5. [n \in Messages |-> Cardinality(Taken(n))]'
            = [[n \in Messages |-> Cardinality(Taken(n))] EXCEPT ![m] = 1]
      <4>1. \A n \in Messages \ {m} : Cardinality(Taken(n))' = Cardinality(Taken(n))
        BY <3>3
      <4> QED
        BY <3>4, <4>1
    <3>6. Cardinality(Taken(m)) = 0 /\ delivery' = delivery
      BY <3>3, <3>4
    <3>7. Once!Take(m)
      BY <3>2, <3>5, <3>6 DEF Once!Take, Taken
    <3> QED
      BY <3>7 DEF Once!Next
  <2>4. ASSUME NEW r \in Requests, Complete(r) PROVE Once!Next \/ UNCHANGED Once!onceVars
    <3>1. pc[r] \in {"sent", "failed"} /\ pc[r] \in Owning /\ pc[r] # "new" /\ IsOwnPending(r)
      BY <2>4 DEF Complete, Owning, IInv, OwnersHoldRow, IsOwnPending
    <3>2. PICK m \in Messages, row \in DeliveryRow, to \in {"Sent", "Failed"} :
            m = Message(r) /\ row = OwnRow(r, Outcome(r)) /\ to = Outcome(r)
      BY <3>1, OwnRowIsRow DEF IInv, Outcome
    <3>3. StatusOf(delivery[m]) = "Pending" /\ StatusOf(row) = to
      BY <3>1, <3>2, OwnerTaken, NoneIsNothing DEF StatusOf, OwnRow
    <3>4. delivery' = [delivery EXCEPT ![m] = row] /\ UNCHANGED <<accepted, draft>>
      BY <2>4, <3>1, <3>2 DEF Complete, smtp
    <3>5. Once!Move(m, "Pending", to)
      BY <3>3, <3>4, OnceMoves DEF IInv, TypeInv, TypeOK
    <3>6. to = "Sent" => Cardinality(Taken(m)) = 1
      <4>1. to = "Sent" => r \in accepted
        BY <3>1, <3>2 DEF Outcome, IInv, AcceptedSoFar
      <4>2. to = "Sent" => Taken(m) # {}
        BY <4>1, <3>1, <3>2, OwnerTaken
      <4> QED
        BY <4>2, Copies
    <3>7. Once!Confirm(m) \/ Once!GiveUp(m)
      BY <3>2, <3>5, <3>6 DEF Once!Confirm, Once!GiveUp, Taken
    <3> QED
      BY <3>7 DEF Once!Next
  <2>5. ASSUME NEW r \in Requests, NEW m \in Messages, NEW a \in Accounts, Begin(r, m, a)
        PROVE  UNCHANGED Once!onceVars
    <3>1. r \notin accepted
      BY <2>5 DEF Begin, IInv, AcceptedSoFar, SubmittersOwnRow
    <3>2. \A q \in accepted : Message(q)' = Message(q)
      BY <2>5, <3>1 DEF Begin, Message, IInv, TypeInv, TypeOK
    <3> QED
      BY <2>1, <2>5, <3>2 DEF Begin, tables, smtp
  <2>6. ASSUME NEW r \in Requests,
               \/ ReadAccount(r) \/ RereadDelivery(r) \/ Submit(r)
               \/ TransportReturns(r) \/ TransportThrows(r) \/ Interrupt(r)
        PROVE  UNCHANGED Once!onceVars
    BY <2>1, <2>6 DEF ReadAccount, RereadDelivery, Submit, TransportReturns, TransportThrows,
                      Interrupt, tables, smtp, Message
  <2>7. ASSUME UNCHANGED <<delivery, accepted, draft>> PROVE UNCHANGED Once!onceVars
    BY <2>1, <2>7 DEF Message
  <2>8. ASSUME \/ \E a \in Accounts : CreateAccount(a)
               \/ \E x \in Admins : AdminStep(x)
               \/ UNCHANGED vars
        PROVE  UNCHANGED Once!onceVars
    BY <2>7, <2>8 DEF CreateAccount, AdminStep, BeginUpdateAccount, BeginChangeStatus, BeginAdmin,
                      CommitAccount, vars, tables, smtp, requests
  <2> QED
    BY <2>2, <2>3, <2>4, <2>5, <2>6, <2>8 DEF Next, SendStep
<1> QED
  BY <1>1, <1>2, Invariance, PTL DEF Spec, ImplementsOnce, Once!Spec
=============================================================================

---------------------------- MODULE OutboxProofs ----------------------------
(***************************************************************************)
(* Safety of Outbox for any set of messages, workers and consumers, any    *)
(* batch size, attempt limit and number of faults.                         *)
(***************************************************************************)
EXTENDS Outbox, TLAPS

(* What the type invariant needs to be inductive: a worker inside          *)
(* ProcessMessageAsync has a message.                                      *)
BusyHasCopy == \A w \in Workers : pc[w] \in Busy => current[w] \in Copies

TypeInv == TypeOK /\ BusyHasCopy

LEMMA TypeInit == Init => TypeInv
BY MaxFaultsType DEF Init, TypeInv, TypeOK, BusyHasCopy, WorkerState, Busy, Copies

LEMMA TypeStep == TypeInv /\ [Next]_vars => TypeInv'
<1> SUFFICES ASSUME TypeInv, [Next]_vars PROVE TypeInv'
  OBVIOUS
<1> USE MaxFaultsType
    DEF TypeInv, TypeOK, BusyHasCopy, WorkerState, Busy, Copies, MoveTo, FinishMessage,
        DropBatch, PassHandler, Fault, InsertReceipt, SetProcessed, SetFailed, tableVars
<1>1. ASSUME NEW m \in Messages, Enqueue(m) PROVE TypeInv'
  BY <1>1 DEF Enqueue, workerVars
<1>2. ASSUME NEW m \in Messages, AbandonedLeaseExpires(m) PROVE TypeInv'
  BY <1>2 DEF AbandonedLeaseExpires, workerVars
<1>3. ASSUME NEW m \in Messages, LeaseOverruns(m) PROVE TypeInv'
  BY <1>3 DEF LeaseOverruns, workerVars
<1>4. ASSUME NEW m \in Messages, BecomesDue(m) PROVE TypeInv'
  BY <1>4 DEF BecomesDue, workerVars
<1>5. ASSUME NEW w \in Workers, Start(w) PROVE TypeInv'
  BY <1>5 DEF Start
<1>6. ASSUME NEW w \in Workers, Stop(w) PROVE TypeInv'
  BY <1>6 DEF Stop
<1>7. ASSUME NEW w \in Workers, Claim(w) PROVE TypeInv'
  BY <1>7 DEF Claim, LockRows, Candidates
<1>8. ASSUME NEW w \in Workers, NextMessage(w) PROVE TypeInv'
  BY <1>8 DEF NextMessage
<1>9. ASSUME NEW w \in Workers, CheckReceipt(w) PROVE TypeInv'
  BY <1>9 DEF CheckReceipt
<1>10. ASSUME NEW w \in Workers, Handle(w) PROVE TypeInv'
  BY <1>10 DEF Handle
<1>11. ASSUME NEW w \in Workers, HandlerThrows(w) PROVE TypeInv'
  BY <1>11 DEF HandlerThrows
<1>12. ASSUME NEW w \in Workers, RecordReceipt(w) PROVE TypeInv'
  BY <1>12 DEF RecordReceipt
<1>13. ASSUME NEW w \in Workers, MarkProcessed(w) PROVE TypeInv'
  BY <1>13 DEF MarkProcessed
<1>14. ASSUME NEW w \in Workers, MarkFailed(w) PROVE TypeInv'
  BY <1>14 DEF MarkFailed
<1>15. ASSUME NEW w \in Workers, StatementThrows(w) PROVE TypeInv'
  BY <1>15 DEF StatementThrows
<1>16. ASSUME NEW w \in Workers, MarkFailedThrows(w) PROVE TypeInv'
  BY <1>16 DEF MarkFailedThrows
<1>17. CASE UNCHANGED vars
  BY <1>17 DEF vars, workerVars
<1> QED
  BY <1>1, <1>2, <1>3, <1>4, <1>5, <1>6, <1>7, <1>8, <1>9, <1>10, <1>11, <1>12, <1>13,
     <1>14, <1>15, <1>16, <1>17 DEF Next, WorkerStep

(* The table and the dispatchers hold values of their types in every       *)
(* reachable state, whatever the constants.                                *)
THEOREM TypeCorrect == Spec => []TypeOK
<1>1. TypeInv => TypeOK
  BY DEF TypeInv
<1>2. QED
  BY <1>1, TypeInit, TypeStep, PTL DEF Spec

-----------------------------------------------------------------------------
(* The inductive invariant.                                                *)

(* A lease belongs to a lock, a lock to a row that is not settled, and a   *)
(* row is settled in one way only.                                         *)
LocksAgree ==
  /\ \A m \in Messages : lockedBy[m] # None => m \in enqueued \ (processed \cup deadLettered)
  /\ \A m \in leased : lockedBy[m] # None
  /\ processed \cup deadLettered \subseteq enqueued
  /\ processed \cap deadLettered = {}

(* A copy is up to date for as long as its worker owns the row.            *)
CopiesAreFresh ==
  \A w \in Workers : \A copy \in Held(w) :
    /\ copy.id \in enqueued /\ Subscribed[copy.id] # {}
    /\ lockedBy[copy.id] = w => copy.attempt = attempts[copy.id]

(* Where a worker stands in the two loops.                                 *)
LoopState ==
  \A w \in Workers :
    /\ pc[w] \notin Busy => current[w] = None /\ passed[w] = {}
    /\ pc[w] \in {"off", "stopped"} => batch[w] = {}
    /\ pc[w] = "mark" => Handler(w) = {}
    /\ pc[w] = "record" => \A c \in Consumers : IsNextHandler(w, c) => <<current[w].id, c>> \in handled

(* The handlers a worker went past have receipts, and a receipt is only    *)
(* recorded for a delivery that took place.                                *)
PassedHaveReceipts ==
  /\ \A w \in Workers : \A c \in passed[w] : <<current[w].id, c>> \in receipts
  /\ receipts \subseteq handled

(* A row that could be claimed now, or once an abandoned lease ends, has   *)
(* an attempt left in the allowance of attempts and faults.                *)
AttemptsLeft ==
  \A m \in Messages :
    \/ m \in processed \cup deadLettered
    \/ m \in leased /\ WorkingOn(lockedBy[m], m)
    \/ attempts[m] < MaximumAttempts + faults

IInv ==
  /\ TypeInv
  /\ LocksAgree
  /\ CopiesAreFresh
  /\ LoopState
  /\ PassedHaveReceipts
  /\ ProcessedMeansDelivered
  /\ OwnerNeverRedelivers
  /\ HandledInOrder
  /\ DeadLetterNeedsAttempts
  /\ ExtraAttemptsNeedFaults
  /\ AttemptsLeft

(* Consumer names are totally ordered, so the loop is at one handler.      *)
LEMMA NextHandlerIsUnique ==
  ASSUME TypeInv, NEW w \in Workers, pc[w] \in Busy,
         NEW c, NEW d, IsNextHandler(w, c), IsNextHandler(w, d)
  PROVE  c = d
BY ConsumersAreRanks, SubscribedType
DEF TypeInv, TypeOK, BusyHasCopy, Copies, IsNextHandler, Handler

LEMMA IInvInit == Init => IInv
<1> SUFFICES ASSUME Init PROVE IInv
  OBVIOUS
<1> USE DEF Init
<1>1. TypeInv
  BY TypeInit
<1>2. LocksAgree /\ LoopState /\ PassedHaveReceipts
  BY DEF LocksAgree, LoopState, PassedHaveReceipts, Busy
<1>3. CopiesAreFresh
  BY DEF CopiesAreFresh, Held, Busy
<1>4. ProcessedMeansDelivered /\ OwnerNeverRedelivers /\ HandledInOrder /\ DeadLetterNeedsAttempts
  BY DEF ProcessedMeansDelivered, OwnerNeverRedelivers, HandledInOrder, DeadLetterNeedsAttempts
<1>5. ExtraAttemptsNeedFaults /\ AttemptsLeft
  BY OptionsAreValid DEF ExtraAttemptsNeedFaults, AttemptsLeft
<1> QED
  BY <1>1, <1>2, <1>3, <1>4, <1>5 DEF IInv

(* No step breaks LocksAgree.                                             *)
LEMMA LocksStep == IInv /\ [Next]_vars => LocksAgree'
<1> SUFFICES ASSUME IInv, [Next]_vars PROVE LocksAgree'
  OBVIOUS
<1> USE NoneIsNobody DEF IInv, TypeInv, TypeOK, BusyHasCopy, WorkerState, Busy, Copies,
        MoveTo, FinishMessage, DropBatch, PassHandler, Fault, LockRows, InsertReceipt,
        SetProcessed, SetFailed, Candidates, Owns, Held, WorkingOn, tableVars,
        workerVars, LocksAgree
<1>1. ASSUME NEW m \in Messages, Enqueue(m) \/ AbandonedLeaseExpires(m) \/
       LeaseOverruns(m) \/ BecomesDue(m)
       PROVE  LocksAgree'
  BY <1>1 DEF Enqueue, AbandonedLeaseExpires, LeaseOverruns, BecomesDue
<1>2. ASSUME NEW w \in Workers, Claim(w) PROVE LocksAgree'
  BY <1>2 DEF Claim
<1>3. ASSUME NEW w \in Workers, MarkProcessed(w) PROVE LocksAgree'
  BY <1>3 DEF MarkProcessed
<1>4. ASSUME NEW w \in Workers, MarkFailed(w) PROVE LocksAgree'
  BY <1>4 DEF MarkFailed
<1>5. ASSUME NEW w \in Workers, StatementThrows(w) PROVE LocksAgree'
  BY <1>5 DEF StatementThrows
<1>6. ASSUME NEW w \in Workers, MarkFailedThrows(w) PROVE LocksAgree'
  BY <1>6 DEF MarkFailedThrows
<1>7. ASSUME NEW w \in Workers, Start(w) \/ Stop(w) \/ NextMessage(w) \/ CheckReceipt(w)
       \/ Handle(w) \/ HandlerThrows(w) \/ RecordReceipt(w)
       PROVE  LocksAgree'
  BY <1>7 DEF Start, Stop, NextMessage, CheckReceipt, Handle, HandlerThrows,
     RecordReceipt
<1>8. CASE UNCHANGED vars
  BY <1>8 DEF vars
<1> QED
  BY <1>1, <1>2, <1>3, <1>4, <1>5, <1>6, <1>7, <1>8 DEF Next, WorkerStep

(* Attempts of a row change only by a claim, and a claim changes its owner *)
(* or finds it without a copy of the row.                                  *)
LEMMA CopiesStep == IInv /\ [Next]_vars => CopiesAreFresh'
<1> SUFFICES ASSUME IInv, [Next]_vars PROVE CopiesAreFresh'
  OBVIOUS
<1> USE NoneIsNobody DEF IInv, TypeInv, TypeOK, BusyHasCopy, WorkerState, Busy, Copies,
        MoveTo, FinishMessage, DropBatch, PassHandler, Fault, LockRows, InsertReceipt,
        SetProcessed, SetFailed, Candidates, Owns, Held, WorkingOn, tableVars,
        workerVars, LocksAgree, LoopState, CopiesAreFresh
<1>1. ASSUME NEW m \in Messages, Enqueue(m) \/ AbandonedLeaseExpires(m) \/
       LeaseOverruns(m) \/ BecomesDue(m)
       PROVE  CopiesAreFresh'
  <2>1. CASE Enqueue(m)
    BY <2>1, SMTT(30) DEF Enqueue
  <2>2. CASE AbandonedLeaseExpires(m)
    BY <2>2, SMTT(30) DEF AbandonedLeaseExpires
  <2>3. CASE LeaseOverruns(m)
    BY <2>3, SMTT(30) DEF LeaseOverruns
  <2>4. CASE BecomesDue(m)
    BY <2>4, SMTT(30) DEF BecomesDue
  <2> QED
    BY ONLY <1>1, <2>1, <2>2, <2>3, <2>4
<1>2. ASSUME NEW w \in Workers, Claim(w) PROVE CopiesAreFresh'
  BY <1>2, SMTT(30) DEF Claim
<1>3. ASSUME NEW w \in Workers, NextMessage(w) PROVE CopiesAreFresh'
  BY <1>3 DEF NextMessage
<1>4. ASSUME NEW w \in Workers, MarkProcessed(w) PROVE CopiesAreFresh'
  BY <1>4 DEF MarkProcessed
<1>5. ASSUME NEW w \in Workers, MarkFailed(w) PROVE CopiesAreFresh'
  BY <1>5 DEF MarkFailed
<1>6. ASSUME NEW w \in Workers, StatementThrows(w) PROVE CopiesAreFresh'
  <2>1. \A v \in Workers : Held(v)' = Held(v)
    BY <1>6 DEF StatementThrows
  <2>2. UNCHANGED <<attempts, enqueued>>
    BY <1>6 DEF StatementThrows
  <2>3. \A m \in Messages : lockedBy'[m] \in {lockedBy[m], None}
    BY <1>6 DEF StatementThrows
  <2> QED
    BY <2>1, <2>2, <2>3
<1>7. ASSUME NEW w \in Workers, MarkFailedThrows(w) PROVE CopiesAreFresh'
  BY <1>7 DEF MarkFailedThrows
<1>8. ASSUME NEW w \in Workers, Start(w) \/ Stop(w) \/ CheckReceipt(w) \/ Handle(w) \/
       HandlerThrows(w) \/ RecordReceipt(w)
       PROVE  CopiesAreFresh'
  <2>1. CASE Start(w) \/ Stop(w)
    <3>1. \A v \in Workers : Held(v)' \subseteq Held(v)
      BY <2>1, SMTT(30) DEF Start, Stop
    <3>2. UNCHANGED <<attempts, enqueued, lockedBy>>
      BY <2>1 DEF Start, Stop
    <3> QED
      BY <3>1, <3>2, SMTT(30)
  <2>2. CASE CheckReceipt(w)
    BY <2>2, SMTT(30) DEF CheckReceipt
  <2>3. CASE Handle(w)
    BY <2>3, SMTT(30) DEF Handle
  <2>4. CASE HandlerThrows(w)
    BY <2>4, SMTT(30) DEF HandlerThrows
  <2>5. CASE RecordReceipt(w)
    BY <2>5, SMTT(30) DEF RecordReceipt
  <2> QED
    BY ONLY <1>8, <2>1, <2>2, <2>3, <2>4, <2>5
<1>9. CASE UNCHANGED vars
  BY <1>9 DEF vars
<1> QED
  BY <1>1, <1>2, <1>3, <1>4, <1>5, <1>6, <1>7, <1>8, <1>9 DEF Next, WorkerStep

(* The program counters follow the two loops.                              *)
LEMMA LoopStep == IInv /\ [Next]_vars => LoopState'
<1> SUFFICES ASSUME IInv, [Next]_vars PROVE LoopState'
  OBVIOUS
<1> USE DEF IInv, TypeInv, TypeOK, BusyHasCopy, WorkerState, Busy, Copies, MoveTo,
        FinishMessage, DropBatch, PassHandler, Fault, LockRows, InsertReceipt,
        SetProcessed, SetFailed, Candidates, Owns, Held, WorkingOn, tableVars,
        workerVars, LoopState, Handler, IsNextHandler
<1>1. ASSUME NEW m \in Messages, Enqueue(m) \/ AbandonedLeaseExpires(m) \/
       LeaseOverruns(m) \/ BecomesDue(m)
       PROVE  LoopState'
  BY <1>1 DEF Enqueue, AbandonedLeaseExpires, LeaseOverruns, BecomesDue
<1>2. ASSUME NEW w \in Workers, Claim(w) PROVE LoopState'
  BY <1>2 DEF Claim
<1>3. ASSUME NEW w \in Workers, CheckReceipt(w) PROVE LoopState'
  BY <1>3 DEF CheckReceipt
<1>4. ASSUME NEW w \in Workers, Handle(w) PROVE LoopState'
  <2>1. PICK c \in Consumers : IsNextHandler(w, c) /\ handled' = handled \cup {<<current[w].id, c>>}
    BY <1>4 DEF Handle
  <2>2. \A d \in Consumers : IsNextHandler(w, d)' => d = c
    BY <1>4, <2>1, NextHandlerIsUnique DEF Handle
  <2> QED
    BY <1>4, <2>1, <2>2 DEF Handle
<1>5. ASSUME NEW w \in Workers, RecordReceipt(w) PROVE LoopState'
  BY <1>5 DEF RecordReceipt
<1>6. ASSUME NEW w \in Workers, Start(w) \/ Stop(w) \/ NextMessage(w) \/
       HandlerThrows(w) \/ MarkProcessed(w) \/ MarkFailed(w) \/ StatementThrows(w) \/
       MarkFailedThrows(w)
       PROVE  LoopState'
  BY <1>6 DEF Start, Stop, NextMessage, HandlerThrows, MarkProcessed, MarkFailed,
     StatementThrows, MarkFailedThrows
<1>7. CASE UNCHANGED vars
  BY <1>7 DEF vars
<1> QED
  BY <1>1, <1>2, <1>3, <1>4, <1>5, <1>6, <1>7 DEF Next, WorkerStep

(* A handler is passed on a receipt that was found or just recorded.       *)
LEMMA PassedStep == IInv /\ [Next]_vars => PassedHaveReceipts'
<1> SUFFICES ASSUME IInv, [Next]_vars PROVE PassedHaveReceipts'
  OBVIOUS
<1> USE DEF IInv, TypeInv, TypeOK, BusyHasCopy, WorkerState, Busy, Copies, MoveTo,
        FinishMessage, DropBatch, PassHandler, Fault, LockRows, InsertReceipt,
        SetProcessed, SetFailed, Candidates, Owns, Held, WorkingOn, tableVars,
        workerVars, LoopState, HasReceipt, PassedHaveReceipts
<1>1. ASSUME NEW m \in Messages, Enqueue(m) \/ AbandonedLeaseExpires(m) \/
       LeaseOverruns(m) \/ BecomesDue(m)
       PROVE  PassedHaveReceipts'
  BY <1>1 DEF Enqueue, AbandonedLeaseExpires, LeaseOverruns, BecomesDue
<1>2. ASSUME NEW w \in Workers, CheckReceipt(w) PROVE PassedHaveReceipts'
  BY <1>2 DEF CheckReceipt
<1>3. ASSUME NEW w \in Workers, RecordReceipt(w) PROVE PassedHaveReceipts'
  BY <1>3 DEF RecordReceipt
<1>4. ASSUME NEW w \in Workers, StatementThrows(w) PROVE PassedHaveReceipts'
  BY <1>4 DEF StatementThrows
<1>5. ASSUME NEW w \in Workers, Start(w) \/ Stop(w) \/ Claim(w) \/ NextMessage(w) \/
       Handle(w) \/ HandlerThrows(w) \/ MarkProcessed(w) \/ MarkFailed(w) \/
       MarkFailedThrows(w)
       PROVE  PassedHaveReceipts'
  BY <1>5 DEF Start, Stop, Claim, NextMessage, Handle, HandlerThrows, MarkProcessed,
     MarkFailed, MarkFailedThrows
<1>6. CASE UNCHANGED vars
  BY <1>6 DEF vars
<1> QED
  BY <1>1, <1>2, <1>3, <1>4, <1>5, <1>6 DEF Next, WorkerStep

(* MarkProcessed runs with every handler of the event passed.              *)
LEMMA ProcessedStep == IInv /\ [Next]_vars => ProcessedMeansDelivered'
<1> SUFFICES ASSUME IInv, [Next]_vars PROVE ProcessedMeansDelivered'
  OBVIOUS
<1> USE DEF IInv, TypeInv, TypeOK, BusyHasCopy, WorkerState, Busy, Copies, MoveTo,
        FinishMessage, DropBatch, PassHandler, Fault, LockRows, InsertReceipt,
        SetProcessed, SetFailed, Candidates, Owns, Held, WorkingOn, tableVars,
        workerVars, LoopState, PassedHaveReceipts, ProcessedMeansDelivered
<1>1. ASSUME NEW m \in Messages, Enqueue(m) \/ AbandonedLeaseExpires(m) \/
       LeaseOverruns(m) \/ BecomesDue(m)
       PROVE  ProcessedMeansDelivered'
  BY <1>1 DEF Enqueue, AbandonedLeaseExpires, LeaseOverruns, BecomesDue
<1>2. ASSUME NEW w \in Workers, RecordReceipt(w) PROVE ProcessedMeansDelivered'
  BY <1>2 DEF RecordReceipt
<1>3. ASSUME NEW w \in Workers, MarkProcessed(w) PROVE ProcessedMeansDelivered'
  <2>1. \A c \in Subscribed[current[w].id] : <<current[w].id, c>> \in receipts \cap handled
    BY <1>3 DEF MarkProcessed, Handler
  <2>2. processed' \in {processed, processed \cup {current[w].id}} /\ UNCHANGED <<receipts, handled>>
    BY <1>3 DEF MarkProcessed
  <2> QED
    BY <2>1, <2>2
<1>4. ASSUME NEW w \in Workers, StatementThrows(w) PROVE ProcessedMeansDelivered'
  <2>1. pc[w] = "mark" => \A c \in Subscribed[current[w].id] : <<current[w].id, c>> \in receipts \cap handled
    BY DEF Handler
  <2>2. handled' = handled /\ receipts \subseteq receipts'
    BY <1>4 DEF StatementThrows
  <2>3. processed' = processed \/ (pc[w] = "mark" /\ processed' = processed \cup {current[w].id})
    BY <1>4 DEF StatementThrows
  <2> QED
    BY <2>1, <2>2, <2>3
<1>5. ASSUME NEW w \in Workers, Start(w) \/ Stop(w) \/ Claim(w) \/ NextMessage(w) \/
       CheckReceipt(w) \/ Handle(w) \/ HandlerThrows(w) \/ MarkFailed(w) \/
       MarkFailedThrows(w)
       PROVE  ProcessedMeansDelivered'
  BY <1>5 DEF Start, Stop, Claim, NextMessage, CheckReceipt, Handle, HandlerThrows,
     MarkFailed, MarkFailedThrows
<1>6. CASE UNCHANGED vars
  BY <1>6 DEF vars
<1> QED
  BY <1>1, <1>2, <1>3, <1>4, <1>5, <1>6 DEF Next, WorkerStep

(* Only the owner records receipts, and it looks for one before it handles. *)
LEMMA OwnerStep == IInv /\ [Next]_vars => OwnerNeverRedelivers'
<1> SUFFICES ASSUME IInv, [Next]_vars PROVE OwnerNeverRedelivers'
  OBVIOUS
<1> USE NoneIsNobody DEF IInv, TypeInv, TypeOK, BusyHasCopy, WorkerState, Busy, Copies,
        MoveTo, FinishMessage, DropBatch, PassHandler, Fault, LockRows, InsertReceipt,
        SetProcessed, SetFailed, Candidates, Owns, Held, WorkingOn, tableVars,
        workerVars, LoopState, Handler, IsNextHandler, OwnerNeverRedelivers
<1>1. ASSUME NEW m \in Messages, Enqueue(m) \/ AbandonedLeaseExpires(m) \/
       LeaseOverruns(m) \/ BecomesDue(m)
       PROVE  OwnerNeverRedelivers'
  BY <1>1 DEF Enqueue, AbandonedLeaseExpires, LeaseOverruns, BecomesDue
<1>2. ASSUME NEW w \in Workers, Claim(w) PROVE OwnerNeverRedelivers'
  BY <1>2 DEF Claim
<1>3. ASSUME NEW w \in Workers, CheckReceipt(w) PROVE OwnerNeverRedelivers'
  <2>1. PICK c \in Consumers :
          /\ IsNextHandler(w, c)
          /\ IF HasReceipt(current[w].id, c) THEN PassHandler(w, c) ELSE MoveTo(w, "handle")
    BY <1>3 DEF CheckReceipt
  <2>2. CASE HasReceipt(current[w].id, c)
    BY <1>3, <2>1, <2>2 DEF CheckReceipt
  <2>3. CASE ~HasReceipt(current[w].id, c)
    <3>1. \A d \in Consumers : IsNextHandler(w, d)' => d = c
      BY <1>3, <2>1, <2>3, NextHandlerIsUnique DEF CheckReceipt
    <3> QED
      BY <1>3, <2>1, <2>3, <3>1 DEF CheckReceipt, HasReceipt
  <2> QED
    BY <2>2, <2>3
<1>4. ASSUME NEW w \in Workers, RecordReceipt(w) PROVE OwnerNeverRedelivers'
  BY <1>4 DEF RecordReceipt
<1>5. ASSUME NEW w \in Workers, MarkFailed(w) PROVE OwnerNeverRedelivers'
  BY <1>5 DEF MarkFailed
<1>6. ASSUME NEW w \in Workers, StatementThrows(w) PROVE OwnerNeverRedelivers'
  BY <1>6 DEF StatementThrows
<1>7. ASSUME NEW w \in Workers, Start(w) \/ Stop(w) \/ NextMessage(w) \/ Handle(w) \/
       HandlerThrows(w) \/ MarkProcessed(w) \/ MarkFailedThrows(w)
       PROVE  OwnerNeverRedelivers'
  BY <1>7 DEF Start, Stop, NextMessage, Handle, HandlerThrows, MarkProcessed,
     MarkFailedThrows
<1>8. CASE UNCHANGED vars
  BY <1>8 DEF vars
<1> QED
  BY <1>1, <1>2, <1>3, <1>4, <1>5, <1>6, <1>7, <1>8 DEF Next, WorkerStep

(* The handler the loop is at is the first one without a receipt.          *)
LEMMA OrderStep == IInv /\ [Next]_vars => HandledInOrder'
<1> SUFFICES ASSUME IInv, [Next]_vars PROVE HandledInOrder'
  OBVIOUS
<1> USE DEF IInv, TypeInv, TypeOK, BusyHasCopy, WorkerState, Busy, Copies, MoveTo,
        FinishMessage, DropBatch, PassHandler, Fault, LockRows, InsertReceipt,
        SetProcessed, SetFailed, Candidates, Owns, Held, WorkingOn, tableVars,
        workerVars, PassedHaveReceipts, HandledInOrder
<1>1. ASSUME NEW m \in Messages, Enqueue(m) \/ AbandonedLeaseExpires(m) \/
       LeaseOverruns(m) \/ BecomesDue(m)
       PROVE  HandledInOrder'
  BY <1>1 DEF Enqueue, AbandonedLeaseExpires, LeaseOverruns, BecomesDue
<1>2. ASSUME NEW w \in Workers, Handle(w) PROVE HandledInOrder'
  <2>1. PICK c \in Consumers : IsNextHandler(w, c) /\ handled' \in {handled, handled \cup {<<current[w].id, c>>}}
    BY <1>2 DEF Handle
  <2>2. \A d \in Subscribed[current[w].id] : d < c => <<current[w].id, d>> \in receipts
    BY <1>2, <2>1, ConsumersAreRanks, SubscribedType DEF Handle, IsNextHandler, Handler
  <2>3. receipts' = receipts
    BY <1>2 DEF Handle
  <2> QED
    BY <2>1, <2>2, <2>3
<1>3. ASSUME NEW w \in Workers, HandlerThrows(w) PROVE HandledInOrder'
  <2>1. PICK c \in Consumers : IsNextHandler(w, c) /\ handled' \in {handled, handled \cup {<<current[w].id, c>>}}
    BY <1>3 DEF HandlerThrows
  <2>2. \A d \in Subscribed[current[w].id] : d < c => <<current[w].id, d>> \in receipts
    BY <1>3, <2>1, ConsumersAreRanks, SubscribedType DEF HandlerThrows, IsNextHandler, Handler
  <2>3. receipts' = receipts
    BY <1>3 DEF HandlerThrows
  <2> QED
    BY <2>1, <2>2, <2>3
<1>4. ASSUME NEW w \in Workers, Start(w) \/ Stop(w) \/ Claim(w) \/ NextMessage(w) \/
       CheckReceipt(w) \/ RecordReceipt(w) \/ MarkProcessed(w) \/ MarkFailed(w) \/
       StatementThrows(w) \/ MarkFailedThrows(w)
       PROVE  HandledInOrder'
  BY <1>4 DEF Start, Stop, Claim, NextMessage, CheckReceipt, RecordReceipt,
     MarkProcessed, MarkFailed, StatementThrows, MarkFailedThrows
<1>5. CASE UNCHANGED vars
  BY <1>5 DEF vars
<1> QED
  BY <1>1, <1>2, <1>3, <1>4, <1>5 DEF Next, WorkerStep

(* The owner's copy has the row's attempt count.                           *)
LEMMA DeadStep == IInv /\ [Next]_vars => DeadLetterNeedsAttempts'
<1> SUFFICES ASSUME IInv, [Next]_vars PROVE DeadLetterNeedsAttempts'
  OBVIOUS
<1> USE DEF IInv, TypeInv, TypeOK, BusyHasCopy, WorkerState, Busy, Copies, MoveTo,
        FinishMessage, DropBatch, PassHandler, Fault, LockRows, InsertReceipt,
        SetProcessed, SetFailed, Candidates, Owns, Held, WorkingOn, tableVars,
        workerVars, CopiesAreFresh, Exhausted, DeadLetterNeedsAttempts
<1>1. ASSUME NEW m \in Messages, Enqueue(m) \/ AbandonedLeaseExpires(m) \/
       LeaseOverruns(m) \/ BecomesDue(m)
       PROVE  DeadLetterNeedsAttempts'
  BY <1>1 DEF Enqueue, AbandonedLeaseExpires, LeaseOverruns, BecomesDue
<1>2. ASSUME NEW w \in Workers, Claim(w) PROVE DeadLetterNeedsAttempts'
  BY <1>2 DEF Claim
<1>3. ASSUME NEW w \in Workers, MarkFailed(w) PROVE DeadLetterNeedsAttempts'
  BY <1>3 DEF MarkFailed
<1>4. ASSUME NEW w \in Workers, MarkFailedThrows(w) PROVE DeadLetterNeedsAttempts'
  BY <1>4 DEF MarkFailedThrows
<1>5. ASSUME NEW w \in Workers, Start(w) \/ Stop(w) \/ NextMessage(w) \/ CheckReceipt(w)
       \/ Handle(w) \/ HandlerThrows(w) \/ RecordReceipt(w) \/ MarkProcessed(w) \/
       StatementThrows(w)
       PROVE  DeadLetterNeedsAttempts'
  BY <1>5 DEF Start, Stop, NextMessage, CheckReceipt, Handle, HandlerThrows,
     RecordReceipt, MarkProcessed, StatementThrows
<1>6. CASE UNCHANGED vars
  BY <1>6 DEF vars
<1> QED
  BY <1>1, <1>2, <1>3, <1>4, <1>5, <1>6 DEF Next, WorkerStep

(* Each way for an exhausted row to become claimable again is a fault.     *)
LEMMA AttemptsStep == IInv /\ [Next]_vars => (ExtraAttemptsNeedFaults /\ AttemptsLeft)'
<1> SUFFICES ASSUME IInv, [Next]_vars PROVE (ExtraAttemptsNeedFaults /\ AttemptsLeft)'
  OBVIOUS
<1> USE OptionsAreValid, MaxFaultsType DEF IInv, TypeInv, TypeOK, BusyHasCopy,
        WorkerState, Busy, Copies, MoveTo, FinishMessage, DropBatch, PassHandler, Fault,
        LockRows, InsertReceipt, SetProcessed, SetFailed, Candidates, Owns, Held,
        WorkingOn, tableVars, workerVars, LocksAgree, CopiesAreFresh, LoopState,
        Exhausted, ExtraAttemptsNeedFaults, AttemptsLeft
<1>1. ASSUME NEW m \in Messages, Enqueue(m) \/ AbandonedLeaseExpires(m) \/ BecomesDue(m)
       PROVE  (ExtraAttemptsNeedFaults /\ AttemptsLeft)'
  BY <1>1 DEF Enqueue, AbandonedLeaseExpires, BecomesDue
<1>2. ASSUME NEW m \in Messages, LeaseOverruns(m) PROVE (ExtraAttemptsNeedFaults /\ AttemptsLeft)'
  BY <1>2 DEF LeaseOverruns
<1>3. ASSUME NEW w \in Workers, Stop(w) PROVE (ExtraAttemptsNeedFaults /\ AttemptsLeft)'
  BY <1>3 DEF Stop
<1>4. ASSUME NEW w \in Workers, Claim(w) PROVE (ExtraAttemptsNeedFaults /\ AttemptsLeft)'
  <2>1. PICK S \in SUBSET Candidates :
          /\ LockRows(w, S)
          /\ \/ /\ batch' = [batch EXCEPT ![w] = {[id |-> m, attempt |-> attempts[m] + 1] : m \in S}]
                /\ UNCHANGED faults
             \/ Fault /\ UNCHANGED batch
    BY <1>4 DEF Claim
  <2>2. UNCHANGED <<pc, current, processed, deadLettered>> /\ Held(w) = {}
    BY <1>4, <2>1 DEF Claim
  <2>3. \A m \in S : m \in Messages /\ m \notin leased /\ attempts[m] < MaximumAttempts + faults
    BY <2>1
  <2>4. ExtraAttemptsNeedFaults'
    BY <2>1, <2>3
  <2>5. ASSUME NEW m \in Messages \ S, m \in leased, WorkingOn(lockedBy[m], m)
        PROVE  (m \in leased /\ WorkingOn(lockedBy[m], m))'
    BY <2>1, <2>2, <2>5
  <2>6. ASSUME NEW m \in S
        PROVE  \/ (m \in leased /\ WorkingOn(lockedBy[m], m))'
               \/ (attempts[m] < MaximumAttempts + faults)'
    <3>1. CASE Fault
      BY <2>1, <2>3, <3>1
    <3>2. CASE batch' = [batch EXCEPT ![w] = {[id |-> n, attempt |-> attempts[n] + 1] : n \in S}]
      <4>1. [id |-> m, attempt |-> attempts[m] + 1] \in batch'[w]
        BY <3>2
      <4> QED
        BY <2>1, <4>1
    <3> QED
      BY <2>1, <3>1, <3>2
  <2>7. ASSUME NEW m \in Messages \ S
        PROVE  \/ m \in (processed \cup deadLettered)'
               \/ (m \in leased /\ WorkingOn(lockedBy[m], m))'
               \/ (attempts[m] < MaximumAttempts + faults)'
    <3>1. attempts'[m] = attempts[m] /\ faults' \in {faults, faults + 1}
      BY <2>1, <2>7
    <3> QED
      BY <2>2, <2>5, <2>7, <3>1
  <2>8. AttemptsLeft'
    BY <2>6, <2>7
  <2> QED
    BY <2>4, <2>8
<1>5. ASSUME NEW w \in Workers, NextMessage(w) PROVE (ExtraAttemptsNeedFaults /\ AttemptsLeft)'
  BY <1>5 DEF NextMessage
<1>6. ASSUME NEW w \in Workers, MarkProcessed(w) PROVE (ExtraAttemptsNeedFaults /\ AttemptsLeft)'
  BY <1>6 DEF MarkProcessed
<1>7. ASSUME NEW w \in Workers, MarkFailed(w) PROVE (ExtraAttemptsNeedFaults /\ AttemptsLeft)'
  BY <1>7 DEF MarkFailed
<1>8. ASSUME NEW w \in Workers, StatementThrows(w) PROVE (ExtraAttemptsNeedFaults /\ AttemptsLeft)'
  BY <1>8 DEF StatementThrows
<1>9. ASSUME NEW w \in Workers, MarkFailedThrows(w) PROVE (ExtraAttemptsNeedFaults /\ AttemptsLeft)'
  BY <1>9 DEF MarkFailedThrows
<1>10. ASSUME NEW w \in Workers, Start(w) \/ CheckReceipt(w) \/ Handle(w) \/
       HandlerThrows(w) \/ RecordReceipt(w)
       PROVE  (ExtraAttemptsNeedFaults /\ AttemptsLeft)'
  BY <1>10 DEF Start, CheckReceipt, Handle, HandlerThrows, RecordReceipt
<1>11. CASE UNCHANGED vars
  BY <1>11 DEF vars
<1> QED
  BY <1>1, <1>2, <1>3, <1>4, <1>5, <1>6, <1>7, <1>8, <1>9, <1>10, <1>11 DEF Next,
     WorkerStep

LEMMA IInvStep == IInv /\ [Next]_vars => IInv'
BY TypeStep, LocksStep, CopiesStep, LoopStep, PassedStep, ProcessedStep, OwnerStep, OrderStep,
   DeadStep, AttemptsStep
DEF IInv

THEOREM Inductive == Spec => []IInv
BY IInvInit, IInvStep, PTL DEF Spec

-----------------------------------------------------------------------------
(* The results.                                                            *)

(* A processed event has been handled by, and has the receipt of, every    *)
(* consumer of its type.                                                   *)
THEOREM ProcessedSafe == Spec => []ProcessedMeansDelivered
<1>1. IInv => ProcessedMeansDelivered
  BY DEF IInv
<1>2. QED
  BY <1>1, Inductive, PTL

(* A worker that owns the row never calls a consumer whose receipt is      *)
(* recorded.                                                               *)
THEOREM OwnerSafe == Spec => []OwnerNeverRedelivers
<1>1. IInv => OwnerNeverRedelivers
  BY DEF IInv
<1>2. QED
  BY <1>1, Inductive, PTL

(* Consumers get an event in the order of their names.                     *)
THEOREM OrderSafe == Spec => []HandledInOrder
<1>1. IInv => HandledInOrder
  BY DEF IInv
<1>2. QED
  BY <1>1, Inductive, PTL

(* The dispatcher dead-letters no event before its MaximumAttempts-th      *)
(* claim, and claims beyond that number are paid for by faults.            *)
THEOREM AttemptsSafe == Spec => [](DeadLetterNeedsAttempts /\ ExtraAttemptsNeedFaults)
<1>1. IInv => DeadLetterNeedsAttempts /\ ExtraAttemptsNeedFaults
  BY DEF IInv
<1>2. QED
  BY <1>1, Inductive, PTL

(* No step changes a settled row or its receipts: its lock is gone, and    *)
(* every statement that writes a row is guarded by the lock or by the      *)
(* claim's WHERE clause.                                                   *)
THEOREM SettledSafe == Spec => SettledIsFinal
<1> DEFINE Frozen ==
      \A m \in processed \cup deadLettered :
        /\ (m \in processed') = (m \in processed)
        /\ (m \in deadLettered') = (m \in deadLettered)
        /\ attempts'[m] = attempts[m] /\ lockedBy'[m] = None
        /\ \A c \in Consumers : (<<m, c>> \in receipts') = (<<m, c>> \in receipts)
<1>1. IInv /\ [Next]_vars => [Frozen]_vars
  <2> SUFFICES ASSUME IInv, Next PROVE Frozen
    OBVIOUS
  <2> USE NoneIsNobody
      DEF IInv, TypeInv, TypeOK, BusyHasCopy, LocksAgree, Busy, Copies, Owns, tableVars,
          InsertReceipt, SetProcessed, SetFailed
  <2>1. ASSUME NEW m \in Messages,
               Enqueue(m) \/ AbandonedLeaseExpires(m) \/ LeaseOverruns(m) \/ BecomesDue(m)
        PROVE  Frozen
    BY <2>1 DEF Enqueue, AbandonedLeaseExpires, LeaseOverruns, BecomesDue
  <2>2. ASSUME NEW w \in Workers, Claim(w) PROVE Frozen
    BY <2>2 DEF Claim, LockRows, Candidates
  <2>3. ASSUME NEW w \in Workers, RecordReceipt(w) PROVE Frozen
    BY <2>3 DEF RecordReceipt
  <2>4. ASSUME NEW w \in Workers, MarkProcessed(w) \/ MarkFailed(w) PROVE Frozen
    BY <2>4 DEF MarkProcessed, MarkFailed
  <2>5. ASSUME NEW w \in Workers, StatementThrows(w) PROVE Frozen
    BY <2>5 DEF StatementThrows
  <2>6. ASSUME NEW w \in Workers, MarkFailedThrows(w) PROVE Frozen
    BY <2>6 DEF MarkFailedThrows
  <2>7. ASSUME NEW w \in Workers,
               Start(w) \/ Stop(w) \/ NextMessage(w) \/ CheckReceipt(w) \/ Handle(w) \/ HandlerThrows(w)
        PROVE  Frozen
    BY <2>7 DEF Start, Stop, NextMessage, CheckReceipt, Handle, HandlerThrows
  <2> QED
    BY <2>1, <2>2, <2>3, <2>4, <2>5, <2>6, <2>7 DEF Next, WorkerStep
<1>2. QED
  BY <1>1, Inductive, PTL DEF Spec, SettledIsFinal

-----------------------------------------------------------------------------
(* Refinement.                                                             *)

LEMMA StatusChange ==
  ASSUME IInv, IInv', [Next]_vars
  PROVE  \/ UNCHANGED <<enqueued, processed, deadLettered>>
         \/ \E m \in Messages \ enqueued :
              enqueued' = enqueued \cup {m} /\ UNCHANGED <<processed, deadLettered, handled>>
         \/ \E m \in enqueued \ (processed \cup deadLettered) :
              /\ UNCHANGED <<enqueued, handled>>
              /\ \/ processed' = processed \cup {m} /\ UNCHANGED deadLettered
                 \/ deadLettered' = deadLettered \cup {m} /\ UNCHANGED processed
<1> USE NoneIsNobody
    DEF IInv, TypeInv, TypeOK, BusyHasCopy, LocksAgree, Busy, Copies, Owns, tableVars,
        InsertReceipt, SetProcessed, SetFailed
<1> DEFINE Shape ==
      \/ UNCHANGED <<enqueued, processed, deadLettered>>
      \/ \E m \in Messages \ enqueued :
           enqueued' = enqueued \cup {m} /\ UNCHANGED <<processed, deadLettered, handled>>
      \/ \E m \in enqueued \ (processed \cup deadLettered) :
           /\ UNCHANGED <<enqueued, handled>>
           /\ \/ processed' = processed \cup {m} /\ UNCHANGED deadLettered
              \/ deadLettered' = deadLettered \cup {m} /\ UNCHANGED processed
<1>1. ASSUME NEW m \in Messages,
             Enqueue(m) \/ AbandonedLeaseExpires(m) \/ LeaseOverruns(m) \/ BecomesDue(m)
      PROVE  Shape
  BY <1>1 DEF Enqueue, AbandonedLeaseExpires, LeaseOverruns, BecomesDue
<1>2. ASSUME NEW w \in Workers, MarkProcessed(w) PROVE Shape
  BY <1>2 DEF MarkProcessed
<1>3. ASSUME NEW w \in Workers, MarkFailed(w) PROVE Shape
  BY <1>3 DEF MarkFailed
<1>4. ASSUME NEW w \in Workers, StatementThrows(w) PROVE Shape
  BY <1>4 DEF StatementThrows
<1>5. ASSUME NEW w \in Workers, MarkFailedThrows(w) PROVE Shape
  BY <1>5 DEF MarkFailedThrows
<1>6. ASSUME NEW w \in Workers,
             \/ Start(w) \/ Stop(w) \/ Claim(w) \/ NextMessage(w) \/ CheckReceipt(w)
             \/ Handle(w) \/ HandlerThrows(w) \/ RecordReceipt(w)
      PROVE  Shape
  BY <1>6 DEF Start, Stop, Claim, LockRows, NextMessage, CheckReceipt, Handle, HandlerThrows,
              RecordReceipt
<1>7. CASE UNCHANGED vars
  BY <1>7 DEF vars
<1> QED
  BY <1>1, <1>2, <1>3, <1>4, <1>5, <1>6, <1>7 DEF Next, WorkerStep

LEMMA HandledChange ==
  ASSUME IInv, [Next]_vars
  PROVE  \/ UNCHANGED handled
         \/ /\ UNCHANGED <<enqueued, processed, deadLettered>>
            /\ \E m \in enqueued : \E c \in Subscribed[m] :
                 /\ handled' = handled \cup {<<m, c>>}
                 /\ \A d \in Subscribed[m] : d < c => <<m, d>> \in handled
<1> DEFINE Shape ==
      /\ UNCHANGED <<enqueued, processed, deadLettered>>
      /\ \E m \in enqueued : \E c \in Subscribed[m] :
           /\ handled' = handled \cup {<<m, c>>}
           /\ \A d \in Subscribed[m] : d < c => <<m, d>> \in handled
<1>1. ASSUME NEW w \in Workers, pc[w] \in Busy, NEW c \in Consumers, IsNextHandler(w, c),
             UNCHANGED tableVars, handled' = handled \cup {<<current[w].id, c>>}
      PROVE  Shape
  <2>1. current[w].id \in enqueued /\ c \in Subscribed[current[w].id]
    BY <1>1 DEF IInv, CopiesAreFresh, Held, IsNextHandler, Handler
  <2>2. \A d \in Subscribed[current[w].id] : d < c => <<current[w].id, d>> \in handled
    BY <1>1, ConsumersAreRanks, SubscribedType
    DEF IInv, TypeInv, TypeOK, BusyHasCopy, Copies, PassedHaveReceipts, IsNextHandler, Handler
  <2> QED
    BY <1>1, <2>1, <2>2 DEF tableVars
<1>2. ASSUME NEW w \in Workers, Handle(w) \/ HandlerThrows(w)
      PROVE  UNCHANGED handled \/ Shape
  <2>1. PICK c \in Consumers :
          IsNextHandler(w, c) /\ handled' \in {handled, handled \cup {<<current[w].id, c>>}}
    BY <1>2 DEF Handle, HandlerThrows
  <2> QED
    BY <1>1, <1>2, <2>1 DEF Handle, HandlerThrows, Busy
<1>3. ASSUME NEW m \in Messages,
             Enqueue(m) \/ AbandonedLeaseExpires(m) \/ LeaseOverruns(m) \/ BecomesDue(m)
      PROVE  UNCHANGED handled
  BY <1>3 DEF Enqueue, AbandonedLeaseExpires, LeaseOverruns, BecomesDue
<1>4. ASSUME NEW w \in Workers,
             \/ Start(w) \/ Stop(w) \/ Claim(w) \/ NextMessage(w) \/ CheckReceipt(w)
             \/ RecordReceipt(w) \/ MarkProcessed(w) \/ MarkFailed(w)
             \/ StatementThrows(w) \/ MarkFailedThrows(w)
      PROVE  UNCHANGED handled
  BY <1>4 DEF Start, Stop, Claim, NextMessage, CheckReceipt, RecordReceipt, MarkProcessed,
              MarkFailed, StatementThrows, MarkFailedThrows
<1>5. CASE UNCHANGED vars
  BY <1>5 DEF vars
<1> QED
  BY <1>2, <1>3, <1>4, <1>5 DEF Next, WorkerStep

(* The dispatchers implement the abstract delivery service: every step     *)
(* posts, delivers, completes or abandons one event, or changes nothing    *)
(* the service shows.                                                      *)
THEOREM Refinement == Spec => ImplementsDelivery
<1>1. Init => Delivery!Init
  BY DEF Init, Delivery!Init, StatusOf
<1>2. IInv /\ IInv' /\ [Next]_vars => [Delivery!Next]_(Delivery!deliveryVars)
  <2> SUFFICES ASSUME IInv, IInv', [Next]_vars
               PROVE  Delivery!Next \/ UNCHANGED Delivery!deliveryVars
    OBVIOUS
  <2> USE DEF StatusOf, Delivery!deliveryVars
  <2>0. /\ enqueued \subseteq Messages /\ processed \cup deadLettered \subseteq enqueued
        /\ processed \cap deadLettered = {}
        /\ (processed \cup deadLettered \subseteq enqueued)'
        /\ (processed \cap deadLettered = {})'
    BY DEF IInv, TypeInv, TypeOK, LocksAgree
  <2>1. CASE UNCHANGED <<enqueued, processed, deadLettered, handled>>
    BY <2>1
  <2>2. ASSUME NEW m \in Messages \ enqueued,
               enqueued' = enqueued \cup {m}, UNCHANGED <<processed, deadLettered, handled>>
        PROVE  Delivery!Next
    <3>1. Delivery!Post(m)
      BY <2>0, <2>2 DEF Delivery!Post
    <3> QED
      BY <3>1 DEF Delivery!Next
  <2>3. ASSUME NEW m \in enqueued \ (processed \cup deadLettered),
               UNCHANGED <<enqueued, deadLettered, handled>>, processed' = processed \cup {m}
        PROVE  Delivery!Next
    <3>1. \A c \in Subscribed[m] : <<m, c>> \in handled
      BY <2>3 DEF IInv, ProcessedMeansDelivered
    <3>2. Delivery!Complete(m)
      BY <2>0, <2>3, <3>1 DEF Delivery!Complete
    <3> QED
      BY <2>0, <3>2 DEF Delivery!Next
  <2>4. ASSUME NEW m \in enqueued \ (processed \cup deadLettered),
               UNCHANGED <<enqueued, processed, handled>>, deadLettered' = deadLettered \cup {m}
        PROVE  Delivery!Next
    <3>1. Delivery!Abandon(m)
      BY <2>0, <2>4 DEF Delivery!Abandon
    <3> QED
      BY <2>0, <3>1 DEF Delivery!Next
  <2>5. ASSUME NEW m \in enqueued, NEW c \in Subscribed[m],
               UNCHANGED <<enqueued, processed, deadLettered>>,
               handled' = handled \cup {<<m, c>>},
               \A d \in Subscribed[m] : d < c => <<m, d>> \in handled
        PROVE  Delivery!Next
    <3>1. Delivery!Deliver(m, c)
      BY <2>0, <2>5 DEF Delivery!Deliver, Delivery!Earlier
    <3> QED
      BY <2>0, <3>1 DEF Delivery!Next
  <2> QED
    BY <2>1, <2>2, <2>3, <2>4, <2>5, StatusChange, HandledChange
<1>3. QED
  BY <1>1, <1>2, Inductive, PTL DEF Spec, ImplementsDelivery, Delivery!Spec
=============================================================================

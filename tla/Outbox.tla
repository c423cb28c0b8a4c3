------------------------------- MODULE Outbox -------------------------------
(***************************************************************************)
(* The outbox of Asterloom.Module.Infrastructure/Outbox: the table         *)
(* infrastructure.outbox_messages, its receipts in inbox_receipts, and the *)
(* dispatchers that claim batches under a lease and hand every message to  *)
(* its consumers.                                                          *)
(*                                                                         *)
(* Each SQL statement of the store is one step; everything between two     *)
(* statements of a dispatcher is open to every other dispatcher.  A worker *)
(* id is one process incarnation (OutboxDispatcher builds it from a fresh  *)
(* GUID), so a restart is a new element of Workers.  Time is kept as far   *)
(* as the statements look at it: a row is due or not yet, its lease runs   *)
(* or has run out.                                                         *)
(***************************************************************************)
EXTENDS Naturals, FiniteSets

CONSTANTS
  Messages,         \* event ids
  Workers,          \* dispatcher incarnations
  Consumers,        \* consumer names, as their ordinal rank
  Subscribed,       \* event id -> the consumers of its event type
  BatchSize,        \* OutboxDispatcherOptions.BatchSize
  MaximumAttempts,  \* OutboxDispatcherOptions.MaximumAttempts
  MaxFaults,        \* bound: stops, database errors and overrun leases
  None

ASSUME ConsumersAreRanks == Consumers \subseteq Nat
ASSUME SubscribedType == Subscribed \in [Messages -> SUBSET Consumers]
ASSUME OptionsAreValid == BatchSize \in Nat \ {0} /\ MaximumAttempts \in Nat \ {0}
ASSUME MaxFaultsType == MaxFaults \in Nat
ASSUME NoneIsNobody == None \notin Workers

VARIABLES
  (* the table *)
  enqueued,      \* rows that exist
  processed,     \* processed_at IS NOT NULL
  deadLettered,  \* dead_lettered_at IS NOT NULL
  due,           \* available_at <= now
  lockedBy,      \* locked_by
  leased,        \* locked_until > now
  attempts,      \* attempt_count
  receipts,      \* inbox_receipts(event_id, consumer_name)
  (* the dispatchers *)
  pc,
  batch,         \* claimed copies the foreach has not reached yet
  current,       \* the copy being processed
  passed,        \* consumers the inner foreach has gone past
  (* observation *)
  handled,       \* <<event, consumer>> whose HandleAsync took effect
  faults         \* faults so far

tableVars == <<enqueued, processed, deadLettered, due, lockedBy, leased, attempts, receipts>>
workerVars == <<pc, batch, current, passed>>
vars == <<tableVars, workerVars, handled, faults>>

(* The OutboxMessage a claim returns: the row as it was at that moment.     *)
Copies == [id : Messages, attempt : Nat]

Busy == {"check", "handle", "record", "mark", "fail"}
WorkerState == Busy \cup {"off", "idle", "stopped"}

TypeOK ==
  /\ enqueued \subseteq Messages
  /\ processed \subseteq Messages
  /\ deadLettered \subseteq Messages
  /\ due \subseteq Messages
  /\ lockedBy \in [Messages -> Workers \cup {None}]
  /\ leased \subseteq Messages
  /\ attempts \in [Messages -> Nat]
  /\ receipts \subseteq Messages \X Consumers
  /\ pc \in [Workers -> WorkerState]
  /\ batch \in [Workers -> SUBSET Copies]
  /\ current \in [Workers -> Copies \cup {None}]
  /\ passed \in [Workers -> SUBSET Consumers]
  /\ handled \subseteq Messages \X Consumers
  /\ faults \in 0..MaxFaults

Init ==
  /\ enqueued = {} /\ processed = {} /\ deadLettered = {}
  /\ due = {} /\ leased = {} /\ receipts = {} /\ handled = {}
  /\ lockedBy = [m \in Messages |-> None]
  /\ attempts = [m \in Messages |-> 0]
  /\ pc = [w \in Workers |-> "off"]
  /\ batch = [w \in Workers |-> {}]
  /\ current = [w \in Workers |-> None]
  /\ passed = [w \in Workers |-> {}]
  /\ faults = 0

-----------------------------------------------------------------------------
(* The store's queries, each after the slips the properties are there to    *)
(* catch: a predicate dropped from a WHERE clause, an off-by-one.           *)
CandidatesWithoutReclaim ==
  {m \in enqueued \ (processed \cup deadLettered) :
     Subscribed[m] # {} /\ m \in due /\ lockedBy[m] = None}

(* The rows a claim may lock: of a handled event type, neither processed   *)
(* nor dead-lettered, due, and free or under a lease that has run out.     *)
Candidates ==
  {m \in enqueued \ (processed \cup deadLettered) :
     /\ Subscribed[m] # {}
     /\ m \in due
     /\ m \notin leased}

OwnsWithoutWorker(w, m) ==
  lockedBy[m] # None /\ m \notin processed \cup deadLettered

(* The guard of RecordReceipt, MarkProcessed and MarkFailed.  It looks at  *)
(* locked_by and not at locked_until.                                      *)
Owns(w, m) ==
  /\ lockedBy[m] = w
  /\ m \notin processed \cup deadLettered

HasReceiptByEvent(m, c) == \E d \in Consumers : <<m, d>> \in receipts

HasReceipt(m, c) == <<m, c>> \in receipts

ExhaustedOneEarly(attempt) == attempt + 1 >= MaximumAttempts

Exhausted(attempt) == attempt >= MaximumAttempts

-----------------------------------------------------------------------------
(* The dispatcher's own steps.                                             *)

Handler(w) == Subscribed[current[w].id] \ passed[w]

(* The handler the inner foreach is at: they are ordered by consumer name. *)
IsNextHandler(w, c) == c \in Handler(w) /\ \A d \in Handler(w) : c <= d

(* The inner foreach moves past c, to the next handler or out of the loop. *)
PassHandler(w, c) ==
  /\ passed' = [passed EXCEPT ![w] = @ \cup {c}]
  /\ pc' = [pc EXCEPT ![w] = IF Handler(w) = {c} THEN "mark" ELSE "check"]
  /\ UNCHANGED <<batch, current>>

MoveTo(w, step) ==
  /\ pc' = [pc EXCEPT ![w] = step]
  /\ UNCHANGED <<batch, current, passed>>

(* ProcessMessageAsync returns to the outer foreach.                       *)
FinishMessage(w) ==
  /\ pc' = [pc EXCEPT ![w] = "idle"]
  /\ current' = [current EXCEPT ![w] = None]
  /\ passed' = [passed EXCEPT ![w] = {}]
  /\ UNCHANGED batch

(* ProcessBatchAsync throws: the rest of the batch is forgotten.           *)
DropBatch(w, state) ==
  /\ pc' = [pc EXCEPT ![w] = state]
  /\ batch' = [batch EXCEPT ![w] = {}]
  /\ current' = [current EXCEPT ![w] = None]
  /\ passed' = [passed EXCEPT ![w] = {}]

Fault == faults < MaxFaults /\ faults' = faults + 1

(* The copies a worker still has to deal with.                             *)
Held(w) == batch[w] \cup IF pc[w] \in Busy THEN {current[w]} ELSE {}

WorkingOn(w, m) == \E copy \in Held(w) : copy.id = m

-----------------------------------------------------------------------------
(* Effects of the store's statements on the table.                         *)

LockRows(w, S) ==
  /\ lockedBy' = [m \in Messages |-> IF m \in S THEN w ELSE lockedBy[m]]
  /\ leased' = leased \cup S
  /\ attempts' = [m \in Messages |-> IF m \in S THEN attempts[m] + 1 ELSE attempts[m]]
  /\ UNCHANGED <<enqueued, processed, deadLettered, due, receipts>>

InsertReceiptOfWorker(w, m, c) ==
  /\ receipts' = IF Owns(w, m) THEN receipts \cup {<<m, w>>} ELSE receipts
  /\ UNCHANGED <<enqueued, processed, deadLettered, due, lockedBy, leased, attempts>>

InsertReceipt(w, m, c) ==
  /\ receipts' = IF Owns(w, m) THEN receipts \cup {<<m, c>>} ELSE receipts
  /\ UNCHANGED <<enqueued, processed, deadLettered, due, lockedBy, leased, attempts>>

SetProcessed(w, m) ==
  /\ IF Owns(w, m)
     THEN /\ processed' = processed \cup {m}
          /\ lockedBy' = [lockedBy EXCEPT ![m] = None]
          /\ leased' = leased \ {m}
     ELSE UNCHANGED <<processed, lockedBy, leased>>
  /\ UNCHANGED <<enqueued, deadLettered, due, attempts, receipts>>

SetFailed(w, m, dead) ==
  /\ IF Owns(w, m)
     THEN /\ due' = due \ {m}
          /\ lockedBy' = [lockedBy EXCEPT ![m] = None]
          /\ leased' = leased \ {m}
          /\ deadLettered' = IF dead THEN deadLettered \cup {m} ELSE deadLettered
     ELSE UNCHANGED <<due, lockedBy, leased, deadLettered>>
  /\ UNCHANGED <<enqueued, processed, attempts, receipts>>

-----------------------------------------------------------------------------
(* Producers, processes and time.                                          *)

(* A business transaction commits its event; an id is used once.           *)
Enqueue(m) ==
  /\ m \notin enqueued
  /\ enqueued' = enqueued \cup {m}
  /\ due' = due \cup {m}
  /\ UNCHANGED <<processed, deadLettered, lockedBy, leased, attempts, receipts>>
  /\ UNCHANGED <<workerVars, handled, faults>>

Start(w) ==
  /\ pc[w] = "off"
  /\ MoveTo(w, "idle")
  /\ UNCHANGED <<tableVars, handled, faults>>

(* The process dies, or the host cancels the stopping token.               *)
Stop(w) ==
  /\ pc[w] \notin {"off", "stopped"}
  /\ Fault
  /\ DropBatch(w, "stopped")
  /\ UNCHANGED <<tableVars, handled>>

(* locked_until passes while nobody works on the message any more: its     *)
(* worker died, or dropped the batch, or never saw the claim's reply.      *)
AbandonedLeaseExpires(m) ==
  /\ m \in leased /\ ~WorkingOn(lockedBy[m], m)
  /\ leased' = leased \ {m}
  /\ UNCHANGED <<enqueued, processed, deadLettered, due, lockedBy, attempts, receipts>>
  /\ UNCHANGED <<workerVars, handled, faults>>

(* locked_until passes while the owner is still at work: its batch took    *)
(* longer than LeaseDuration.                                              *)
LeaseOverruns(m) ==
  /\ m \in leased /\ WorkingOn(lockedBy[m], m)
  /\ Fault
  /\ leased' = leased \ {m}
  /\ UNCHANGED <<enqueued, processed, deadLettered, due, lockedBy, attempts, receipts>>
  /\ UNCHANGED <<workerVars, handled>>

(* available_at passes: the retry delay is over.                           *)
BecomesDue(m) ==
  /\ m \in enqueued \ due
  /\ due' = due \cup {m}
  /\ UNCHANGED <<enqueued, processed, deadLettered, lockedBy, leased, attempts, receipts>>
  /\ UNCHANGED <<workerVars, handled, faults>>

-----------------------------------------------------------------------------
(* A dispatcher's cycle.                                                   *)

(* ClaimPendingAsync.  The statement takes the oldest rows, skipping those *)
(* another claim has locked (FOR UPDATE SKIP LOCKED): up to BatchSize of   *)
(* the candidates.  When its reply is lost, the rows stay locked for a     *)
(* worker that does not know about them.                                   *)
Claim(w) ==
  /\ pc[w] = "idle" /\ batch[w] = {}
  /\ \E S \in SUBSET Candidates :
       /\ S # {} /\ Cardinality(S) <= BatchSize
       /\ LockRows(w, S)
       /\ \/ /\ batch' = [batch EXCEPT ![w] = {[id |-> m, attempt |-> attempts[m] + 1] : m \in S}]
             /\ UNCHANGED faults
          \/ /\ Fault
             /\ UNCHANGED batch
  /\ UNCHANGED <<pc, current, passed, handled>>

(* The outer foreach takes its next message.                               *)
NextMessage(w) ==
  /\ pc[w] = "idle"
  /\ \E copy \in batch[w] :
       /\ batch' = [batch EXCEPT ![w] = @ \ {copy}]
       /\ current' = [current EXCEPT ![w] = copy]
  /\ pc' = [pc EXCEPT ![w] = "check"]
  /\ UNCHANGED <<passed, tableVars, handled, faults>>

(* HasReceiptAsync: a consumer that has had the event is skipped.          *)
CheckReceipt(w) ==
  /\ pc[w] = "check"
  /\ \E c \in Consumers :
       /\ IsNextHandler(w, c)
       /\ IF HasReceipt(current[w].id, c) THEN PassHandler(w, c) ELSE MoveTo(w, "handle")
  /\ UNCHANGED <<tableVars, handled, faults>>

Handle(w) ==
  /\ pc[w] = "handle"
  /\ \E c \in Consumers :
       /\ IsNextHandler(w, c)
       /\ handled' = handled \cup {<<current[w].id, c>>}
  /\ MoveTo(w, "record")
  /\ UNCHANGED <<tableVars, faults>>

(* HandleAsync throws, before or after its effect.                         *)
HandlerThrows(w) ==
  /\ pc[w] = "handle"
  /\ \E c \in Consumers :
       /\ IsNextHandler(w, c)
       /\ handled' \in {handled, handled \cup {<<current[w].id, c>>}}
  /\ MoveTo(w, "fail")
  /\ UNCHANGED <<tableVars, faults>>

(* RecordReceiptAsync; false is thrown as outbox_lease_lost.               *)
RecordReceipt(w) ==
  /\ pc[w] = "record"
  /\ \E c \in Consumers :
       /\ IsNextHandler(w, c)
       /\ InsertReceipt(w, current[w].id, c)
       /\ IF Owns(w, current[w].id) THEN PassHandler(w, c) ELSE MoveTo(w, "fail")
  /\ UNCHANGED <<handled, faults>>

(* MarkProcessedAsync; false is only logged.                               *)
MarkProcessed(w) ==
  /\ pc[w] = "mark"
  /\ SetProcessed(w, current[w].id)
  /\ FinishMessage(w)
  /\ UNCHANGED <<handled, faults>>

(* The catch block.  The number of attempts is the copy's, not the row's.  *)
MarkFailed(w) ==
  /\ pc[w] = "fail"
  /\ SetFailed(w, current[w].id, Exhausted(current[w].attempt))
  /\ FinishMessage(w)
  /\ UNCHANGED <<handled, faults>>

(* A statement of the try block throws, applied or not.                    *)
StatementThrows(w) ==
  /\ Fault
  /\ \/ pc[w] \in {"check", "record", "mark"} /\ UNCHANGED tableVars
     \/ /\ pc[w] = "record"
        /\ \E c \in Consumers : IsNextHandler(w, c) /\ InsertReceipt(w, current[w].id, c)
     \/ pc[w] = "mark" /\ SetProcessed(w, current[w].id)
  /\ MoveTo(w, "fail")
  /\ UNCHANGED handled

(* MarkFailedAsync itself throws, applied or not: OutboxDispatcher logs it *)
(* and polls again, and the rest of the batch stays locked until expiry.   *)
MarkFailedThrows(w) ==
  /\ pc[w] = "fail"
  /\ Fault
  /\ \/ UNCHANGED tableVars
     \/ SetFailed(w, current[w].id, Exhausted(current[w].attempt))
  /\ DropBatch(w, "idle")
  /\ UNCHANGED handled

WorkerStep(w) ==
  \/ Claim(w) \/ NextMessage(w) \/ CheckReceipt(w) \/ Handle(w) \/ HandlerThrows(w)
  \/ RecordReceipt(w) \/ MarkProcessed(w) \/ MarkFailed(w)

Next ==
  \/ \E m \in Messages : Enqueue(m) \/ AbandonedLeaseExpires(m) \/ LeaseOverruns(m) \/ BecomesDue(m)
  \/ \E w \in Workers :
       Start(w) \/ Stop(w) \/ WorkerStep(w) \/ StatementThrows(w) \/ MarkFailedThrows(w)

Spec == Init /\ [][Next]_vars

(* The host runs a dispatcher and its loop; delays and abandoned leases    *)
(* end.  Nothing is assumed of producers, faults or handler outcomes.      *)
Fairness ==
  /\ \A w \in Workers : WF_vars(Start(w)) /\ WF_vars(WorkerStep(w))
  /\ \A m \in Messages : WF_vars(BecomesDue(m)) /\ WF_vars(AbandonedLeaseExpires(m))

FairSpec == Spec /\ Fairness

-----------------------------------------------------------------------------
(* Properties.                                                             *)

(* MarkProcessed is reached only past every handler: a processed event has *)
(* the receipt of every consumer, and each of them really handled it.      *)
ProcessedMeansDelivered ==
  \A m \in processed : \A c \in Subscribed[m] : <<m, c>> \in receipts \cap handled

(* A worker that still owns the row never repeats a delivery whose receipt *)
(* is recorded: duplicates come only from workers that lost their lease,   *)
(* or from a failure between HandleAsync and RecordReceiptAsync.           *)
OwnerNeverRedelivers ==
  \A w \in Workers, c \in Consumers :
    pc[w] = "handle" /\ IsNextHandler(w, c) /\ Owns(w, current[w].id)
      => <<current[w].id, c>> \notin receipts

(* A consumer handles an event only after every consumer that sorts before *)
(* it has a receipt, over all workers and all attempts.                    *)
HandledInOrder ==
  \A m \in Messages, c \in Consumers :
    <<m, c>> \in handled =>
      \A d \in Subscribed[m] : d < c => <<m, d>> \in receipts

(* An event is dead-lettered only once its row has used MaximumAttempts,   *)
(* although the decision is taken on a worker's old copy of the row.       *)
DeadLetterNeedsAttempts ==
  \A m \in deadLettered : attempts[m] >= MaximumAttempts

(* Claims beyond MaximumAttempts happen (nothing dead-letters a message    *)
(* whose worker died), but each needs a fault of its own.                  *)
ExtraAttemptsNeedFaults ==
  \A m \in Messages : attempts[m] <= MaximumAttempts + faults

(* Processed and dead-lettered are final and exclusive: no step of any     *)
(* worker, however stale, changes a settled row or adds a receipt to it.   *)
SettledIsFinal ==
  [][\A m \in processed \cup deadLettered :
       /\ (m \in processed') = (m \in processed)
       /\ (m \in deadLettered') = (m \in deadLettered)
       /\ attempts'[m] = attempts[m] /\ lockedBy'[m] = None
       /\ \A c \in Consumers : (<<m, c>> \in receipts') = (<<m, c>> \in receipts)]_vars

-----------------------------------------------------------------------------
(* The promise of OutboxDelivery.                                          *)

StatusOf(m) ==
  CASE m \notin enqueued -> "absent"
    [] m \in processed -> "processed"
    [] m \in deadLettered -> "deadLettered"
    [] OTHER -> "pending"

Delivery == INSTANCE OutboxDelivery
  WITH status <- [m \in Messages |-> StatusOf(m)], delivered <- handled

(* The dispatchers implement at-least-once, in-order, settle-once delivery.*)
ImplementsDelivery == Delivery!Spec

(* Every committed event with a consumer is eventually processed or        *)
(* dead-lettered, through stops, lost replies, lost leases and throwing    *)
(* handlers, as long as faults do not go on for ever and not every         *)
(* dispatcher has stopped for good.                                        *)
EventuallySettled ==
  \A m \in Messages :
    Subscribed[m] # {} /\ m \in enqueued
      ~> m \in processed \cup deadLettered \/ \A w \in Workers : pc[w] = "stopped"
=============================================================================

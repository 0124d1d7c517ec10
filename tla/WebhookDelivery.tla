--------------------------- MODULE WebhookDelivery ---------------------------
(***************************************************************************)
(* Delivery of webhook events: internal/webhook/dispatcher.go and          *)
(* delivery.go over the tables webhooks and webhook_deliveries, with the   *)
(* administrator's handlers of internal/handler/webhooks.go.               *)
(*                                                                         *)
(* Actors: goroutines that dispatch an event, the delivery workers, the    *)
(* retry worker, the cleanup worker, the administrator, and the process    *)
(* that starts, stops and crashes.  They share the database, which         *)
(* survives a crash, and the in-memory queue, which does not.              *)
(*                                                                         *)
(* A delivery row is the value of status, owner, attempts, due and cause   *)
(* at its id: due says that next_retry_at is NULL or past, cause stands    *)
(* for error_message.  Ids come from AUTOINCREMENT, so their order is the  *)
(* order of created_at and none is used twice.                             *)
(***************************************************************************)
EXTENDS Integers, Sequences, FiniteSets

CONSTANTS
  Hooks,           \* webhooks
  Workers,         \* delivery workers, Config.Workers of them
  Senders,         \* goroutines that run Dispatch
  MaxDeliveries,   \* bound: delivery rows ever created
  MaxAttempts,     \* delivery.go: MaxAttempts
  QueueCap,        \* capacity of the queue channel
  BatchSize,       \* RetryBatchSize
  MaxUpsets        \* bound: crashes, failed statements, stops and changes
                   \* made by the administrator, all together

ASSUME DeliveryAssumption ==
  /\ MaxDeliveries \in Nat
  /\ MaxAttempts \in Nat
  /\ QueueCap \in Nat
  /\ BatchSize \in Nat
  /\ MaxUpsets \in Nat
  /\ IsFiniteSet(Workers) /\ Workers # {}

Ids == 1..MaxDeliveries
NoJob == 0
NoHook == "no hook"

Statuses == {"none", "pending", "delivered", "dead", "gone"}
Causes == {"", "failed", "rejected", "exhausted", "disabled"}

VARIABLES
  hook,        \* a webhook: "new" before it exists, active, inactive, deleted
  status,      \* of a row; "none" before it is inserted, "gone" once deleted
  owner,       \* webhook_id of a row
  attempts,    \* attempts of a row
  due,         \* next_retry_at IS NULL or next_retry_at <= now
  cause,       \* error_message of a row
  nextId,      \* the next AUTOINCREMENT value
  queue,       \* the channel Dispatcher.queue, as delivery ids
  pc,          \* of a worker: idle, load, post, record, exited
  job,         \* delivery a worker works on
  seen,        \* record.Attempts as that worker read it
  result,      \* outcome of that worker's HTTP attempt
  retryPc,     \* retry worker: idle, exited, batch, or what it has read of
               \* the webhook of the oldest row of its batch
  batch,       \* rows it fetched and has not handled yet
  todo,        \* webhooks a dispatching goroutine has still to serve
  created,     \* row that goroutine inserted and has not queued yet
  phase,       \* up, stopping (running = false), closing (done closed), down
  upsets,      \* how many of those there were so far
  acked,       \* history: deliveries some endpoint answered with a 2xx
  recorded     \* history: outcomes written to a row, over its whole life

rowVars == <<status, owner, attempts, due, cause, nextId, recorded>>
workerVars == <<pc, job, seen, result>>
retryVars == <<retryPc, batch>>
sendVars == <<todo, created>>
vars == <<hook, rowVars, queue, workerVars, retryVars, sendVars, phase,
          upsets, acked>>

Init ==
  /\ hook = [h \in Hooks |-> "new"]
  /\ status = [d \in Ids |-> "none"]
  /\ owner = [d \in Ids |-> NoHook]
  /\ attempts = [d \in Ids |-> 0]
  /\ due = [d \in Ids |-> TRUE]
  /\ cause = [d \in Ids |-> ""]
  /\ nextId = 1
  /\ queue = <<>>
  /\ pc = [w \in Workers |-> "idle"]
  /\ job = [w \in Workers |-> NoJob]
  /\ seen = [w \in Workers |-> 0]
  /\ result = [w \in Workers |-> "none"]
  /\ retryPc = "idle"
  /\ batch = {}
  /\ todo = [s \in Senders |-> {}]
  /\ created = [s \in Senders |-> NoJob]
  /\ phase = "up"
  /\ upsets = 0
  /\ acked = {}
  /\ recorded = [d \in Ids |-> 0]

(* Bounds the disturbances of a behaviour. *)
Upset ==
  /\ upsets < MaxUpsets
  /\ upsets' = upsets + 1

-----------------------------------------------------------------------------
(* The statements of internal/store/queries/webhooks.sql *)

Exists(d) == status[d] \in {"pending", "delivered", "dead"}
HookExists(h) == hook[h] \in {"active", "inactive"}

(* CreateWebhookDelivery: a pending row that is due at once. *)
InsertDelivery(h) ==
  /\ nextId <= MaxDeliveries
  /\ status' = [status EXCEPT ![nextId] = "pending"]
  /\ owner' = [owner EXCEPT ![nextId] = h]
  /\ nextId' = nextId + 1
  /\ UNCHANGED <<attempts, due, cause, recorded>>

(* The common part of UpdateDelivery{Success,Retry,Dead}: WHERE id = ? only,
   so whatever the status is by now, and no row at all once it is deleted. *)
UpdateDelivery(d, st, isDue, why) ==
  IF Exists(d)
  THEN /\ status' = [status EXCEPT ![d] = st]
       /\ attempts' = [attempts EXCEPT ![d] = @ + 1]
       /\ due' = [due EXCEPT ![d] = isDue]
       /\ cause' = [cause EXCEPT ![d] = why]
       /\ recorded' = [recorded EXCEPT ![d] = @ + 1]
       /\ UNCHANGED <<owner, nextId>>
  ELSE UNCHANGED rowVars

UpdateDeliverySuccess(d) == UpdateDelivery(d, "delivered", due[d], cause[d])
UpdateDeliveryRetry(d) == UpdateDelivery(d, "pending", FALSE, "failed")
UpdateDeliveryDead(d, why) == UpdateDelivery(d, "dead", due[d], why)

(* Seeded fault, without AUTOINCREMENT: the id of a deleted row is free again. *)
DeleteRowsReusingIds(S) ==
  /\ status' = [d \in Ids |-> IF d \in S THEN "none" ELSE status[d]]
  /\ UNCHANGED <<owner, attempts, due, cause, nextId, recorded>>

DeleteRows(S) ==
  /\ status' = [d \in Ids |-> IF d \in S THEN "gone" ELSE status[d]]
  /\ UNCHANGED <<owner, attempts, due, cause, nextId, recorded>>

(* Seeded fault: next_retry_at <= now alone, which no NULL satisfies. *)
PendingDueNotNull == {d \in Ids : status[d] = "pending" /\ due[d] /\ attempts[d] > 0}

(* GetPendingDeliveries: due rows, oldest first, at most BatchSize of them. *)
PendingDue == {d \in Ids : status[d] = "pending" /\ due[d]}
GetPendingDeliveries ==
  {d \in PendingDue : Cardinality({e \in PendingDue : e < d}) < BatchSize}

(* A non-blocking send: the delivery is left to the retry worker when the
   channel is full. *)
Enqueue(d) ==
  queue' = IF Len(queue) < QueueCap THEN Append(queue, d) ELSE queue

-----------------------------------------------------------------------------
(* Dispatch *)

(* Returns at once when the dispatcher is not running; otherwise reads the
   active webhooks that are subscribed to the event. *)
DispatchBegin(s) ==
  /\ phase = "up"
  /\ todo[s] = {} /\ created[s] = NoJob
  /\ nextId <= MaxDeliveries
  /\ \E subscribed \in SUBSET {h \in Hooks : hook[h] = "active"} :
        /\ subscribed # {}
        /\ todo' = [todo EXCEPT ![s] = subscribed]
  /\ UNCHANGED <<hook, rowVars, queue, workerVars, retryVars, created, phase,
                 upsets, acked>>

(* Inserts the row for one webhook of the list.  When the insertion fails (the
   webhook was deleted since the list was read, which the foreign key refuses,
   or the database or the context gave up) the webhook is skipped. *)
DispatchCreate(s) ==
  /\ created[s] = NoJob
  /\ \E h \in todo[s] :
        /\ todo' = [todo EXCEPT ![s] = @ \ {h}]
        /\ \/ /\ HookExists(h)
              /\ InsertDelivery(h)
              /\ created' = [created EXCEPT ![s] = nextId]
           \/ UNCHANGED <<rowVars, created>>
  /\ UNCHANGED <<hook, queue, workerVars, retryVars, phase, upsets, acked>>

(* Seeded fault: no "continue" after a failed insertion. *)
DispatchEnqueueAnyway(s) ==
  /\ todo[s] # {} \/ created[s] # NoJob
  /\ Enqueue(created[s])
  /\ created' = [created EXCEPT ![s] = NoJob]
  /\ UNCHANGED <<hook, rowVars, workerVars, retryVars, todo, phase,
                 upsets, acked>>

DispatchEnqueue(s) ==
  /\ created[s] # NoJob
  /\ Enqueue(created[s])
  /\ created' = [created EXCEPT ![s] = NoJob]
  /\ UNCHANGED <<hook, rowVars, workerVars, retryVars, todo, phase,
                 upsets, acked>>

-----------------------------------------------------------------------------
(* worker and processDelivery *)

(* The select takes the queue or the closed channel done, either one. *)
WorkerReceive(w) ==
  /\ phase # "down"
  /\ pc[w] = "idle"
  /\ queue # <<>>
  /\ pc' = [pc EXCEPT ![w] = "load"]
  /\ job' = [job EXCEPT ![w] = Head(queue)]
  /\ queue' = Tail(queue)
  /\ UNCHANGED <<hook, rowVars, seen, result, retryVars, sendVars, phase,
                 upsets, acked>>

Release(w) ==
  /\ pc' = [pc EXCEPT ![w] = "idle"]
  /\ job' = [job EXCEPT ![w] = NoJob]
  /\ seen' = [seen EXCEPT ![w] = 0]
  /\ result' = [result EXCEPT ![w] = "none"]

(* Reads the row.  Nothing claims it: another worker may read it as well. *)
WorkerLoad(w) ==
  /\ pc[w] = "load"
  /\ IF status[job[w]] = "pending"
     THEN /\ pc' = [pc EXCEPT ![w] = "post"]
          /\ seen' = [seen EXCEPT ![w] = attempts[job[w]]]
          /\ UNCHANGED <<job, result>>
     ELSE Release(w)
  /\ UNCHANGED <<hook, rowVars, queue, retryVars, sendVars, phase,
                 upsets, acked>>

(* attemptDelivery: "ok" is a 2xx, "retry" a 408, 429, 5xx, network error or
   timeout, "reject" any other 4xx, a bad URL or a destination refused. *)
WorkerPost(w) ==
  /\ pc[w] = "post"
  /\ \E r \in {"ok", "retry", "reject"} :
        /\ result' = [result EXCEPT ![w] = r]
        /\ acked' = IF r = "ok" THEN acked \cup {job[w]} ELSE acked
  /\ pc' = [pc EXCEPT ![w] = "record"]
  /\ UNCHANGED <<hook, rowVars, queue, job, seen, retryVars, sendVars, phase,
                 upsets>>

(* Seeded faults: a rejection counts as a success; the attempt is counted
   twice; no attempt is the last one. *)
RecordOutcomeLenient(d, r, newAttempts) ==
  \/ /\ r \in {"ok", "reject"}
     /\ UpdateDeliverySuccess(d)
  \/ /\ r = "retry"
     /\ newAttempts >= MaxAttempts
     /\ UpdateDeliveryDead(d, "exhausted")
  \/ /\ r = "retry"
     /\ newAttempts < MaxAttempts
     /\ UpdateDeliveryRetry(d)

RecordOutcomeHasty(d, r, newAttempts) ==
  \/ /\ r = "ok"
     /\ UpdateDeliverySuccess(d)
  \/ /\ r = "reject"
     /\ UpdateDeliveryDead(d, "rejected")
  \/ /\ r = "retry"
     /\ newAttempts + 1 >= MaxAttempts
     /\ UpdateDeliveryDead(d, "exhausted")
  \/ /\ r = "retry"
     /\ newAttempts + 1 < MaxAttempts
     /\ UpdateDeliveryRetry(d)

RecordOutcomeEndless(d, r, newAttempts) ==
  \/ /\ r = "ok"
     /\ UpdateDeliverySuccess(d)
  \/ /\ r = "reject"
     /\ UpdateDeliveryDead(d, "rejected")
  \/ /\ r = "retry"
     /\ UpdateDeliveryRetry(d)

(* What processDelivery writes for the outcome: newAttempts comes from the
   row as it was before the attempt, the statement adds to the row of now. *)
RecordOutcome(d, r, newAttempts) ==
  \/ /\ r = "ok"
     /\ UpdateDeliverySuccess(d)
  \/ /\ r = "reject"
     /\ UpdateDeliveryDead(d, "rejected")
  \/ /\ r = "retry"
     /\ newAttempts >= MaxAttempts
     /\ UpdateDeliveryDead(d, "exhausted")
  \/ /\ r = "retry"
     /\ newAttempts < MaxAttempts
     /\ UpdateDeliveryRetry(d)

WorkerRecord(w) ==
  /\ pc[w] = "record"
  /\ RecordOutcome(job[w], result[w], seen[w] + 1)
  /\ Release(w)
  /\ UNCHANGED <<hook, queue, retryVars, sendVars, phase, upsets, acked>>

(* A statement fails: the read ends the job, a lost write loses the outcome. *)
WorkerStatementFails(w) ==
  /\ pc[w] \in {"load", "record"}
  /\ Upset
  /\ Release(w)
  /\ UNCHANGED <<hook, rowVars, queue, retryVars, sendVars, phase, acked>>

-----------------------------------------------------------------------------
(* processRetries and cleanupOldDeliveries *)

RetryFetch ==
  /\ phase # "down"
  /\ retryPc = "idle"
  /\ GetPendingDeliveries # {}
  /\ batch' = GetPendingDeliveries
  /\ retryPc' = "batch"
  /\ UNCHANGED <<hook, rowVars, queue, workerVars, sendVars, phase,
                 upsets, acked>>

Oldest(d) == d \in batch /\ \A e \in batch : d <= e

TakeFromBatch(d) ==
  /\ batch' = batch \ {d}
  /\ retryPc' = IF batch = {d} THEN "idle" ELSE "batch"

(* A turn of the loop over the batch, which may be out of date by now: the
   webhook of the oldest delivery is read, and skipped if it is gone ... *)
RetryRead ==
  /\ retryPc = "batch"
  /\ \E d \in batch :
        /\ Oldest(d)
        /\ \/ /\ hook[owner[d]] = "deleted"
              /\ TakeFromBatch(d)
           \/ /\ HookExists(owner[d])
              /\ retryPc' = hook[owner[d]]
              /\ UNCHANGED batch
  /\ UNCHANGED <<hook, rowVars, queue, workerVars, sendVars, phase,
                 upsets, acked>>

(* ... then the delivery is marked dead or queued, as that reading says. *)
RetryAct ==
  /\ \E d \in batch :
        /\ Oldest(d)
        /\ TakeFromBatch(d)
        /\ \/ /\ retryPc = "inactive"
              /\ UpdateDeliveryDead(d, "disabled")
              /\ UNCHANGED queue
           \/ /\ retryPc = "active"
              /\ Enqueue(d)
              /\ UNCHANGED rowVars
  /\ UNCHANGED <<hook, workerVars, sendVars, phase, upsets, acked>>

(* Reading the webhook, or marking the delivery dead, fails: skipped for now. *)
RetryStatementFails ==
  /\ retryPc \in {"batch", "inactive"}
  /\ Upset
  /\ \E d \in batch : Oldest(d) /\ TakeFromBatch(d)
  /\ UNCHANGED <<hook, rowVars, queue, workerVars, sendVars, phase, acked>>

(* next_retry_at of a postponed delivery passes. *)
BackoffElapses(d) ==
  /\ status[d] = "pending"
  /\ ~due[d]
  /\ due' = [due EXCEPT ![d] = TRUE]
  /\ UNCHANGED <<hook, status, owner, attempts, cause, nextId, recorded,
                 queue, workerVars, retryVars, sendVars, phase, upsets,
                 acked>>

(* Seeded fault: the age alone decides. *)
CleanupByAge ==
  /\ phase # "down"
  /\ \E cutoff \in Ids :
        LET old == {d \in Ids : d <= cutoff /\ Exists(d)}
        IN /\ old # {}
           /\ DeleteRows(old)
  /\ UNCHANGED <<hook, queue, workerVars, retryVars, sendVars, phase,
                 upsets, acked>>

(* DeleteOldDeliveries: the settled rows created before a cutoff. *)
Cleanup ==
  /\ phase # "down"
  /\ \E cutoff \in Ids :
        LET old == {d \in Ids : d <= cutoff /\ status[d] \in {"delivered", "dead"}}
        IN /\ old # {}
           /\ DeleteRows(old)
  /\ UNCHANGED <<hook, queue, workerVars, retryVars, sendVars, phase,
                 upsets, acked>>

-----------------------------------------------------------------------------
(* The administrator: internal/handler/webhooks.go *)

CreateHook(h) ==
  /\ phase # "down"
  /\ hook[h] = "new"
  /\ \E st \in {"active", "inactive"} : hook' = [hook EXCEPT ![h] = st]
  /\ UNCHANGED <<rowVars, queue, workerVars, retryVars, sendVars, phase,
                 upsets, acked>>

AdminStep == phase # "down" /\ Upset

(* Update, as far as deliveries can tell: the webhook is switched on or off. *)
UpdateHook(h) ==
  /\ AdminStep
  /\ HookExists(h)
  /\ hook' = [hook EXCEPT ![h] = IF @ = "active" THEN "inactive" ELSE "active"]
  /\ UNCHANGED <<rowVars, queue, workerVars, retryVars, sendVars, phase, acked>>

(* Seeded fault: no cascade. *)
DeleteHookOnly(h) ==
  /\ AdminStep
  /\ HookExists(h)
  /\ hook' = [hook EXCEPT ![h] = "deleted"]
  /\ UNCHANGED <<rowVars, queue, workerVars, retryVars, sendVars, phase, acked>>

(* Delete; the deliveries go with it, ON DELETE CASCADE. *)
DeleteHook(h) ==
  /\ AdminStep
  /\ HookExists(h)
  /\ hook' = [hook EXCEPT ![h] = "deleted"]
  /\ DeleteRows({d \in Ids : Exists(d) /\ owner[d] = h})
  /\ UNCHANGED <<queue, workerVars, retryVars, sendVars, phase, acked>>

(* Test: a pending row, left for the retry worker to find. *)
TestHook(h) ==
  /\ AdminStep
  /\ HookExists(h)
  /\ InsertDelivery(h)
  /\ UNCHANGED <<hook, queue, workerVars, retryVars, sendVars, phase, acked>>

(* RetryDelivery: ResetDeliveryForRetry on the id of the URL, in any status. *)
RetryDelivery(d) ==
  /\ AdminStep
  /\ Exists(d)
  /\ status' = [status EXCEPT ![d] = "pending"]
  /\ attempts' = [attempts EXCEPT ![d] = 0]
  /\ due' = [due EXCEPT ![d] = TRUE]
  /\ cause' = [cause EXCEPT ![d] = ""]
  /\ UNCHANGED <<owner, nextId, recorded, hook, queue, workerVars, retryVars,
                 sendVars, phase, acked>>

-----------------------------------------------------------------------------
(* The process: Start, Stop and a crash *)

(* Stop clears running, lets the debouncer finish ... *)
StopBegin ==
  /\ phase = "up"
  /\ Upset
  /\ phase' = "stopping"
  /\ UNCHANGED <<hook, rowVars, queue, workerVars, retryVars, sendVars, acked>>

(* ... closes done ... *)
StopClose ==
  /\ phase = "stopping"
  /\ phase' = "closing"
  /\ UNCHANGED <<hook, rowVars, queue, workerVars, retryVars, sendVars,
                 upsets, acked>>

WorkerExit(w) ==
  /\ phase = "closing"
  /\ pc[w] = "idle"
  /\ pc' = [pc EXCEPT ![w] = "exited"]
  /\ UNCHANGED <<hook, rowVars, queue, job, seen, result, retryVars, sendVars,
                 phase, upsets, acked>>

(* Seeded fault: the ticker worker listens to its context only. *)
RetryExitOnContext ==
  /\ phase = "down"
  /\ retryPc = "idle"
  /\ retryPc' = "exited"
  /\ UNCHANGED <<hook, rowVars, queue, workerVars, batch, sendVars, phase,
                 upsets, acked>>

RetryExit ==
  /\ phase = "closing"
  /\ retryPc = "idle"
  /\ retryPc' = "exited"
  /\ UNCHANGED <<hook, rowVars, queue, workerVars, batch, sendVars, phase,
                 upsets, acked>>

(* Memory is gone: the queue and every goroutine with it. *)
LoseMemory ==
  /\ phase' = "down"
  /\ queue' = <<>>
  /\ pc' = [w \in Workers |-> "idle"]
  /\ job' = [w \in Workers |-> NoJob]
  /\ seen' = [w \in Workers |-> 0]
  /\ result' = [w \in Workers |-> "none"]
  /\ retryPc' = "idle"
  /\ batch' = {}
  /\ todo' = [s \in Senders |-> {}]
  /\ created' = [s \in Senders |-> NoJob]
  /\ UNCHANGED <<hook, rowVars, acked>>

(* ... and waits for the workers; main returns and the process ends. *)
StopReturns ==
  /\ phase = "closing"
  /\ \A w \in Workers : pc[w] = "exited"
  /\ retryPc = "exited"
  /\ LoseMemory
  /\ UNCHANGED upsets

Crash ==
  /\ phase # "down"
  /\ Upset
  /\ LoseMemory

(* A new process: NewDispatcher and Start. *)
Start ==
  /\ phase = "down"
  /\ phase' = "up"
  /\ UNCHANGED <<hook, rowVars, queue, workerVars, retryVars, sendVars,
                 upsets, acked>>

-----------------------------------------------------------------------------

Worker(w) ==
  \/ WorkerReceive(w)
  \/ WorkerLoad(w)
  \/ WorkerPost(w)
  \/ WorkerRecord(w)

Sender(s) ==
  \/ DispatchBegin(s)
  \/ DispatchCreate(s)
  \/ DispatchEnqueue(s)

Admin ==
  \/ \E h \in Hooks : CreateHook(h) \/ UpdateHook(h) \/ DeleteHook(h) \/ TestHook(h)
  \/ \E d \in Ids : RetryDelivery(d)

Next ==
  \/ \E s \in Senders : Sender(s)
  \/ \E w \in Workers : Worker(w) \/ WorkerStatementFails(w) \/ WorkerExit(w)
  \/ RetryFetch \/ RetryRead \/ RetryAct \/ RetryStatementFails \/ RetryExit
  \/ \E d \in Ids : BackoffElapses(d)
  \/ Cleanup
  \/ Admin
  \/ StopBegin \/ StopClose \/ StopReturns \/ Crash \/ Start

Spec == Init /\ [][Next]_vars

-----------------------------------------------------------------------------
(* Properties *)

RowTypes ==
  /\ status \in [Ids -> Statuses]
  /\ owner \in [Ids -> Hooks \cup {NoHook}]
  /\ attempts \in [Ids -> Nat]
  /\ due \in [Ids -> BOOLEAN]
  /\ cause \in [Ids -> Causes]
  /\ nextId \in 1..(MaxDeliveries + 1)
  /\ recorded \in [Ids -> Nat]

WorkerTypes ==
  /\ pc \in [Workers -> {"idle", "load", "post", "record", "exited"}]
  /\ job \in [Workers -> Ids \cup {NoJob}]
  /\ seen \in [Workers -> Nat]
  /\ result \in [Workers -> {"none", "ok", "retry", "reject"}]
  /\ \A w \in Workers : pc[w] \in {"load", "post", "record"} => job[w] \in Ids

OtherTypes ==
  /\ hook \in [Hooks -> {"new", "active", "inactive", "deleted"}]
  /\ queue \in Seq(Ids)
  /\ retryPc \in {"idle", "batch", "active", "inactive", "exited"}
  /\ batch \in SUBSET Ids
  /\ todo \in [Senders -> SUBSET Hooks]
  /\ created \in [Senders -> Ids \cup {NoJob}]
  /\ phase \in {"up", "stopping", "closing", "down"}
  /\ upsets \in 0..MaxUpsets
  /\ acked \in SUBSET Ids

TypeOK == RowTypes /\ WorkerTypes /\ OtherTypes

(* delivery.go:100: a row says "delivered" only if some attempt at this very
   delivery was answered with a 2xx, whatever crashed, was retried by hand or
   ran twice in between. *)
DeliveredWasAcked == \A d \in Ids : status[d] = "delivered" => d \in acked

(* delivery.go:123: a delivery that is dead because its attempts ran out has
   had at least MaxAttempts outcomes recorded.  The decision is taken on a
   count read before the HTTP request, so it takes an argument. *)
NoEarlyGiveUp ==
  \A d \in Ids :
    status[d] = "dead" /\ cause[d] = "exhausted" => recorded[d] >= MaxAttempts

(* How far beyond MaxAttempts the attempts of a row can get when n workers
   hold the same delivery: each of them may reopen the row once, and between
   two of these every free worker and the retry worker may settle it. *)
Overshoot ==
  LET n == Cardinality(Workers) IN (n * (n + 5)) \div 2 - 1

(* delivery.go:121-156: the attempts of a row stay bounded although nothing
   claims a row, a write does not look at the status it overwrites and an
   administrator may interfere. *)
AttemptsBounded == \A d \in Ids : attempts[d] <= MaxAttempts + Overshoot

(* The argument behind it, twice over to stay with integers.  A worker that
   holds a delivery read a count below the last attempt and may still write
   "pending", or it can only settle the row.  What may yet be added to attempts
   is bounded by the reopenings to come (each paid for by one such worker, and
   followed by settlements of everyone who is free) and the settlements of now. *)
Holders(d) == {w \in Workers : pc[w] \in {"post", "record"} /\ job[w] = d}
Reopeners(d) == {w \in Holders(d) : seen[w] + 1 < MaxAttempts}
Settlers(d) == {w \in Holders(d) : seen[w] + 1 >= MaxAttempts}

Unsettled == {"none", "pending"}
Reopenings(n, k) == k * (2 * n + 5 - k)
Settlements(n, st, k, j, h) ==
  IF st \in Unsettled THEN 2 * (n - k + 1) ELSE 2 * (j + h)

Fits(n, a, st, k, j, h) ==
  a + 1 >= MaxAttempts =>
    2 * a + Reopenings(n, k) + Settlements(n, st, k, j, h)
      <= 2 * MaxAttempts + n * (n + 5) - 2

InBatch(d) == IF d \in batch THEN 1 ELSE 0

RowFits(d) ==
  Fits(Cardinality(Workers), attempts[d], status[d],
       Cardinality(Reopeners(d)), Cardinality(Settlers(d)), InBatch(d))

AttemptsFit == \A d \in Ids : RowFits(d)

(* docs/webhooks.md:207: "Max: 5 attempts (then marked as dead)".  Two workers
   that hold the same delivery break it. *)
AtMostMaxAttempts == \A d \in Ids : attempts[d] <= MaxAttempts

(* dispatcher.go:293-365 and 00022_create_webhook_deliveries.sql:4: a row in
   the table belongs to a webhook in the table, also when a webhook is deleted
   between the reading of the list and the insertion. *)
RowsHaveHook == \A d \in Ids : Exists(d) => owner[d] \in Hooks /\ HookExists(owner[d])

(* The inductive strengthening of the above, part by part: first the facts
   about the tables ... *)
IdsInOrder == \A d \in Ids : status[d] = "none" <=> d >= nextId

OwnersKnown == \A d \in Ids : status[d] # "none" => owner[d] \in Hooks

AttemptsRecorded == \A d \in Ids : attempts[d] <= recorded[d]

RowInv ==
  /\ IdsInOrder
  /\ OwnersKnown
  /\ AttemptsRecorded
  /\ RowsHaveHook
  /\ DeliveredWasAcked
  /\ NoEarlyGiveUp

(* ... then what the goroutines believe about them: every id they hold was
   inserted, a count they read has not gone beyond what was recorded, and a
   success they are about to write did happen. *)
Inserted(d) == d \in Ids /\ status[d] # "none"

QueueKnown == \A i \in 1..Len(queue) : Inserted(queue[i])
BatchKnown == \A d \in batch : Inserted(d)
SendersKnown == \A s \in Senders : created[s] # NoJob => Inserted(created[s])

WorkersHonest ==
  \A w \in Workers :
    /\ pc[w] \in {"load", "post", "record"} => Inserted(job[w])
    /\ pc[w] \in {"post", "record"} => seen[w] <= recorded[job[w]]
    /\ pc[w] = "record" /\ result[w] = "ok" => job[w] \in acked

JobInv == QueueKnown /\ BatchKnown /\ SendersKnown /\ WorkersHonest

IndInv == TypeOK /\ RowInv /\ JobInv

(* The abstract promise of docs/webhooks.md, "Delivery and Retry": this
   specification implements DeliveryContract.  All it has to hide is whether a
   webhook is switched on. *)
Existing == {h \in Hooks : HookExists(h)}

Contract == INSTANCE DeliveryContract WITH hooks <- Existing
ImplementsContract == Contract!Spec

(* Fairness: goroutines that can run do run, time passes, and a process that
   went down is started again.  A closed channel done is taken in the end even
   if other cases are ready again and again, because select picks a ready case
   at random: strong fairness for the exits.  Nothing is assumed of the events,
   of the administrator or of faults. *)
Fairness ==
  /\ \A s \in Senders : WF_vars(DispatchCreate(s)) /\ WF_vars(DispatchEnqueue(s))
  /\ \A w \in Workers : WF_vars(Worker(w)) /\ SF_vars(WorkerExit(w))
  /\ WF_vars(RetryFetch) /\ WF_vars(RetryRead) /\ WF_vars(RetryAct) /\ SF_vars(RetryExit)
  /\ \A d \in Ids : WF_vars(BackoffElapses(d))
  /\ WF_vars(StopClose) /\ WF_vars(StopReturns) /\ WF_vars(Start)

LiveSpec == Spec /\ Fairness

(* dispatcher.go:364, "queue full, delivery will be retried later": a pending
   delivery gets settled (or goes away with its webhook) although the queue
   overflows, a batch of retries is cut short, a write is lost, or the process
   stops or crashes with the delivery in memory only. *)
EveryDeliverySettles ==
  \A d \in Ids : status[d] = "pending" ~> status[d] # "pending"

(* dispatcher.go:142-143: once done is closed, Stop returns. *)
StopCompletes == phase = "closing" ~> phase = "down"

=============================================================================

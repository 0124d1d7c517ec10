----------------------- MODULE WebhookDelivery_proofs -----------------------
(* Proofs about WebhookDelivery, for every value of its constants. *)
EXTENDS WebhookDelivery, TLAPS

LEMMA UpdateTypes ==
  ASSUME RowTypes, NEW d \in Ids, NEW st \in Statuses, NEW b \in BOOLEAN,
         NEW why \in Causes, UpdateDelivery(d, st, b, why)
  PROVE  RowTypes'
  BY DEF RowTypes, UpdateDelivery, rowVars

LEMMA InsertTypes ==
  ASSUME RowTypes, NEW h \in Hooks, InsertDelivery(h)
  PROVE  RowTypes' /\ nextId \in Ids
  BY DeliveryAssumption DEF RowTypes, InsertDelivery, Statuses, Ids

LEMMA DeleteTypes ==
  ASSUME RowTypes, NEW S \in SUBSET Ids, DeleteRows(S)
  PROVE  RowTypes'
  BY DEF RowTypes, DeleteRows, Statuses

LEMMA UnchangedTypes ==
  ASSUME RowTypes, UNCHANGED rowVars
  PROVE RowTypes'
  BY DEF RowTypes, rowVars

LEMMA ReleaseTypes ==
  ASSUME WorkerTypes, NEW w \in Workers, Release(w)
  PROVE WorkerTypes'
  BY DEF WorkerTypes, Release

LEMMA UpsetTypes ==
  ASSUME upsets \in 0..MaxUpsets, Upset
  PROVE  upsets' \in 0..MaxUpsets
  BY DeliveryAssumption DEF Upset

LEMMA LoseTypes ==
  ASSUME TypeOK, LoseMemory, upsets' \in 0..MaxUpsets
  PROVE  TypeOK'
<1>1. RowTypes'
  BY UnchangedTypes DEF LoseMemory, TypeOK
<1>2. WorkerTypes' /\ OtherTypes'
  BY DEF LoseMemory, TypeOK, WorkerTypes, OtherTypes, NoJob
<1> QED  BY <1>1, <1>2 DEF TypeOK

(* What a statement does to a row keeps the types of the rows. *)
LEMMA RecordTypes ==
  ASSUME RowTypes, NEW d \in Ids, NEW r, NEW n, RecordOutcome(d, r, n)
  PROVE  RowTypes'
<1> USE DEF UpdateDeliverySuccess, UpdateDeliveryDead, UpdateDeliveryRetry,
            Statuses, Causes
<1>1. CASE UpdateDelivery(d, "delivered", due[d], cause[d])
  <2>1. due[d] \in BOOLEAN /\ cause[d] \in Causes
    BY DEF RowTypes
  <2> QED  BY <1>1, <2>1, UpdateTypes
<1>2. ASSUME NEW why \in {"rejected", "exhausted"},
             UpdateDelivery(d, "dead", due[d], why)
      PROVE  RowTypes'
  <2>1. due[d] \in BOOLEAN
    BY DEF RowTypes
  <2> QED  BY <1>2, <2>1, UpdateTypes
<1>3. CASE UpdateDelivery(d, "pending", FALSE, "failed")
  BY <1>3, UpdateTypes
<1> QED  BY <1>1, <1>2, <1>3 DEF RecordOutcome

LEMMA TypeStep == TypeOK /\ [Next]_vars => TypeOK'
<1> SUFFICES ASSUME TypeOK, [Next]_vars PROVE TypeOK'
  OBVIOUS
<1> USE DEF TypeOK, sendVars, workerVars, retryVars
<1>1. ASSUME NEW s \in Senders, DispatchBegin(s) PROVE TypeOK'
  <2>1. RowTypes' /\ WorkerTypes'
    BY <1>1, UnchangedTypes DEF DispatchBegin, WorkerTypes
  <2>2. OtherTypes'
    BY <1>1 DEF DispatchBegin, OtherTypes
  <2> QED  BY <2>1, <2>2
<1>2. ASSUME NEW s \in Senders, DispatchCreate(s) PROVE TypeOK'
  <2>1. WorkerTypes'
    BY <1>2 DEF DispatchCreate, WorkerTypes
  <2>2. PICK h \in todo[s] :
          /\ todo' = [todo EXCEPT ![s] = @ \ {h}]
          /\ \/ InsertDelivery(h) /\ created' = [created EXCEPT ![s] = nextId]
             \/ UNCHANGED <<rowVars, created>>
    BY <1>2 DEF DispatchCreate
  <2>3. h \in Hooks
    BY <2>2 DEF OtherTypes
  <2>4. RowTypes'
    BY <2>2, <2>3, InsertTypes, UnchangedTypes
  <2>5. InsertDelivery(h) => nextId \in Ids
    BY <2>3, InsertTypes
  <2>6. OtherTypes'
    BY <1>2, <2>2, <2>5 DEF DispatchCreate, OtherTypes
  <2> QED  BY <2>1, <2>4, <2>6
<1>3. ASSUME NEW s \in Senders, DispatchEnqueue(s) PROVE TypeOK'
  <2>1. RowTypes' /\ WorkerTypes'
    BY <1>3, UnchangedTypes DEF DispatchEnqueue, WorkerTypes
  <2>2. created[s] \in Ids
    BY <1>3 DEF DispatchEnqueue, OtherTypes
  <2>3. OtherTypes'
    BY <1>3, <2>2 DEF DispatchEnqueue, Enqueue, OtherTypes, NoJob
  <2> QED  BY <2>1, <2>3
<1>4. ASSUME NEW w \in Workers, WorkerReceive(w) PROVE TypeOK'
  <2>1. RowTypes'
    BY <1>4, UnchangedTypes DEF WorkerReceive
  <2>2. Head(queue) \in Ids /\ Tail(queue) \in Seq(Ids)
    BY <1>4 DEF WorkerReceive, OtherTypes
  <2>3. WorkerTypes'
    BY <1>4, <2>2 DEF WorkerReceive, WorkerTypes
  <2>4. OtherTypes'
    BY <1>4, <2>2 DEF WorkerReceive, OtherTypes
  <2> QED  BY <2>1, <2>3, <2>4
<1>5. ASSUME NEW w \in Workers, WorkerLoad(w) PROVE TypeOK'
  <2>1. RowTypes' /\ OtherTypes'
    BY <1>5, UnchangedTypes DEF WorkerLoad, OtherTypes
  <2>2. CASE Release(w)
    BY <2>1, <2>2, ReleaseTypes
  <2>3. CASE ~Release(w)
    <3>1. /\ pc' = [pc EXCEPT ![w] = "post"]
          /\ seen' = [seen EXCEPT ![w] = attempts[job[w]]]
          /\ UNCHANGED <<job, result>>
      BY <1>5, <2>3 DEF WorkerLoad
    <3>2. job[w] \in Ids
      BY <1>5 DEF WorkerTypes, WorkerLoad
    <3>3. attempts[job[w]] \in Nat
      BY <3>2 DEF RowTypes
    <3>4. WorkerTypes'
      BY <3>1, <3>2, <3>3 DEF WorkerTypes
    <3> QED  BY <2>1, <3>4
  <2> QED  BY <2>2, <2>3
<1>6. ASSUME NEW w \in Workers, WorkerPost(w) PROVE TypeOK'
  <2>1. RowTypes'
    BY <1>6, UnchangedTypes DEF WorkerPost
  <2>2. job[w] \in Ids
    BY <1>6 DEF WorkerPost, WorkerTypes
  <2>3. WorkerTypes'
    BY <1>6, <2>2 DEF WorkerPost, WorkerTypes
  <2>4. OtherTypes'
    BY <1>6, <2>2 DEF WorkerPost, OtherTypes
  <2> QED  BY <2>1, <2>3, <2>4
<1>7. ASSUME NEW w \in Workers, WorkerRecord(w) PROVE TypeOK'
  <2>1. job[w] \in Ids
    BY <1>7 DEF WorkerRecord, WorkerTypes
  <2>2. RowTypes'
    BY <1>7, <2>1, RecordTypes DEF WorkerRecord
  <2>3. WorkerTypes' /\ OtherTypes'
    BY <1>7, ReleaseTypes DEF WorkerRecord, OtherTypes
  <2> QED  BY <2>2, <2>3
<1>8. ASSUME NEW w \in Workers, WorkerStatementFails(w) PROVE TypeOK'
  <2>1. RowTypes' /\ WorkerTypes'
    BY <1>8, UnchangedTypes, ReleaseTypes DEF WorkerStatementFails
  <2>2. OtherTypes'
    BY <1>8, UpsetTypes DEF WorkerStatementFails, OtherTypes
  <2> QED  BY <2>1, <2>2
<1>9. ASSUME NEW w \in Workers, WorkerExit(w) PROVE TypeOK'
  BY <1>9, UnchangedTypes DEF WorkerExit, WorkerTypes, OtherTypes
<1>10. CASE RetryFetch
  <2>1. GetPendingDeliveries \subseteq Ids
    BY DEF GetPendingDeliveries, PendingDue
  <2> QED
    BY <1>10, <2>1, UnchangedTypes DEF RetryFetch, WorkerTypes, OtherTypes
<1>11. CASE RetryAct
  <2>1. PICK d \in batch :
          /\ batch' = batch \ {d}
          /\ retryPc' = IF batch = {d} THEN "idle" ELSE "batch"
          /\ \/ UpdateDeliveryDead(d, "disabled") /\ UNCHANGED queue
             \/ Enqueue(d) /\ UNCHANGED rowVars
    BY <1>11 DEF RetryAct, TakeFromBatch
  <2>2. d \in Ids
    BY DEF OtherTypes
  <2>3. due[d] \in BOOLEAN
    BY <2>2 DEF RowTypes
  <2>4. UpdateDeliveryDead(d, "disabled") => RowTypes'
    BY <2>2, <2>3, UpdateTypes DEF UpdateDeliveryDead, Statuses, Causes
  <2>5. RowTypes' /\ WorkerTypes'
    BY <1>11, <2>1, <2>4, UnchangedTypes DEF RetryAct, WorkerTypes
  <2>6. queue' \in Seq(Ids)
    BY <2>1, <2>2 DEF OtherTypes, Enqueue
  <2>7. batch' \subseteq Ids /\ retryPc' \in {"idle", "batch"}
    BY <2>1 DEF OtherTypes
  <2>8. OtherTypes'
    BY <1>11, <2>6, <2>7 DEF RetryAct, OtherTypes
  <2> QED  BY <2>5, <2>8
<1>12. CASE RetryExit
  BY <1>12, UnchangedTypes DEF RetryExit, WorkerTypes, OtherTypes
<1>13. ASSUME NEW d \in Ids, BackoffElapses(d) PROVE TypeOK'
  <2>1. RowTypes'
    BY <1>13 DEF BackoffElapses, RowTypes
  <2> QED
    BY <1>13, <2>1 DEF BackoffElapses, WorkerTypes, OtherTypes
<1>14. CASE Cleanup
  <2>1. RowTypes'
    BY <1>14, DeleteTypes DEF Cleanup
  <2> QED
    BY <1>14, <2>1 DEF Cleanup, WorkerTypes, OtherTypes
<1>15. ASSUME NEW h \in Hooks, CreateHook(h) PROVE TypeOK'
  BY <1>15, UnchangedTypes DEF CreateHook, WorkerTypes, OtherTypes
<1>16. ASSUME NEW h \in Hooks, UpdateHook(h) PROVE TypeOK'
  <2>1. OtherTypes'
    BY <1>16, UpsetTypes DEF UpdateHook, AdminStep, OtherTypes
  <2> QED
    BY <1>16, <2>1, UnchangedTypes DEF UpdateHook, WorkerTypes
<1>17. ASSUME NEW h \in Hooks, DeleteHook(h) PROVE TypeOK'
  <2>1. RowTypes'
    BY <1>17, DeleteTypes DEF DeleteHook
  <2>2. OtherTypes'
    BY <1>17, UpsetTypes DEF DeleteHook, AdminStep, OtherTypes
  <2> QED
    BY <1>17, <2>1, <2>2 DEF DeleteHook, WorkerTypes
<1>18. ASSUME NEW h \in Hooks, TestHook(h) PROVE TypeOK'
  <2>1. RowTypes'
    BY <1>18, InsertTypes DEF TestHook
  <2>2. OtherTypes'
    BY <1>18, UpsetTypes DEF TestHook, AdminStep, OtherTypes
  <2> QED
    BY <1>18, <2>1, <2>2 DEF TestHook, WorkerTypes
<1>19. ASSUME NEW d \in Ids, RetryDelivery(d) PROVE TypeOK'
  <2>1. RowTypes'
    BY <1>19 DEF RetryDelivery, RowTypes, Statuses, Causes
  <2>2. OtherTypes'
    BY <1>19, UpsetTypes DEF RetryDelivery, AdminStep, OtherTypes
  <2> QED
    BY <1>19, <2>1, <2>2 DEF RetryDelivery, WorkerTypes
<1>20. CASE StopBegin
  BY <1>20, UnchangedTypes, UpsetTypes DEF StopBegin, WorkerTypes, OtherTypes
<1>21. CASE StopClose
  BY <1>21, UnchangedTypes DEF StopClose, WorkerTypes, OtherTypes
<1>22. CASE StopReturns
  BY <1>22, LoseTypes DEF StopReturns, OtherTypes
<1>23. CASE Crash
  BY <1>23, LoseTypes, UpsetTypes DEF Crash, OtherTypes
<1>24. CASE Start
  BY <1>24, UnchangedTypes DEF Start, WorkerTypes, OtherTypes
<1>25. CASE UNCHANGED vars
  BY <1>25, UnchangedTypes DEF vars, WorkerTypes, OtherTypes
<1>26. CASE RetryStatementFails
  <2>1. batch' \subseteq Ids /\ retryPc' \in {"idle", "batch"}
    BY <1>26 DEF RetryStatementFails, TakeFromBatch, OtherTypes
  <2>2. OtherTypes'
    BY <1>26, <2>1, UpsetTypes DEF RetryStatementFails, OtherTypes
  <2> QED
    BY <1>26, <2>2, UnchangedTypes DEF RetryStatementFails, WorkerTypes
<1>27. CASE RetryRead
  <2>1. /\ batch' \subseteq Ids
        /\ retryPc' \in {"idle", "batch", "active", "inactive"}
    BY <1>27 DEF RetryRead, TakeFromBatch, OtherTypes, HookExists
  <2>2. OtherTypes'
    BY <1>27, <2>1 DEF RetryRead, OtherTypes
  <2> QED
    BY <1>27, <2>2, UnchangedTypes DEF RetryRead, WorkerTypes
<1> QED
  BY <1>1, <1>2, <1>3, <1>4, <1>5, <1>6, <1>7, <1>8, <1>9, <1>10, <1>11, <1>12,
     <1>13, <1>14, <1>15, <1>16, <1>17, <1>18, <1>19, <1>20, <1>21, <1>22,
     <1>23, <1>24, <1>25, <1>26, <1>27
     DEF Next, Sender, Worker, Admin

LEMMA InitTypes ==
  ASSUME Init PROVE TypeOK
<1>1. RowTypes
  <2>1. nextId = 1
    BY DEF Init
  <2>2. nextId \in 1..(MaxDeliveries + 1)
    BY <2>1, DeliveryAssumption
  <2> QED  BY <2>2 DEF Init, RowTypes, Statuses, Causes
<1>2. WorkerTypes
  BY DEF Init, WorkerTypes, NoJob
<1>3. OtherTypes
  <2>1. upsets = 0 /\ queue = <<>>
    BY DEF Init
  <2>2. upsets \in 0..MaxUpsets /\ queue \in Seq(Ids)
    BY <2>1, DeliveryAssumption
  <2> QED  BY <2>2 DEF Init, OtherTypes, NoJob
<1> QED  BY <1>1, <1>2, <1>3 DEF TypeOK

(* Type correctness of every behaviour. *)
THEOREM TypeCorrect == Spec => []TypeOK
<1>1. Init => TypeOK
  BY InitTypes
<1> QED  BY <1>1, TypeStep, PTL DEF Spec

-----------------------------------------------------------------------------
(* The tables: each statement preserves RowInv. *)

LEMMA RowsQuiet ==
  ASSUME RowInv, UNCHANGED <<rowVars, hook, acked>>
  PROVE  RowInv'
  BY DEF RowInv, IdsInOrder, OwnersKnown, AttemptsRecorded, RowsHaveHook,
         DeliveredWasAcked, NoEarlyGiveUp, Exists, HookExists, rowVars

LEMMA RowsInsert ==
  ASSUME RowTypes, RowInv, NEW h \in Hooks, HookExists(h), InsertDelivery(h),
         UNCHANGED <<hook, acked>>
  PROVE  RowInv'
<1>1. nextId \in Ids
  BY InsertTypes
<1> USE DEF RowInv, RowTypes, InsertDelivery
<1>2. IdsInOrder'
  BY <1>1 DEF IdsInOrder, Ids
<1>3. OwnersKnown' /\ RowsHaveHook'
  BY <1>1 DEF OwnersKnown, RowsHaveHook, Exists, HookExists
<1>4. AttemptsRecorded'
  BY <1>1 DEF AttemptsRecorded
<1>5. DeliveredWasAcked' /\ NoEarlyGiveUp'
  BY <1>1 DEF DeliveredWasAcked, NoEarlyGiveUp
<1> QED  BY <1>2, <1>3, <1>4, <1>5

LEMMA RowsUpdate ==
  ASSUME RowTypes, RowInv, NEW d \in Ids, NEW st \in {"pending", "delivered", "dead"},
         NEW b, NEW why, UpdateDelivery(d, st, b, why),
         st = "delivered" => d \in acked,
         st = "dead" /\ why = "exhausted" => recorded[d] + 1 >= MaxAttempts,
         UNCHANGED <<hook, acked>>
  PROVE  RowInv'
<1>1. CASE ~Exists(d)
  BY <1>1, RowsQuiet DEF UpdateDelivery
<1>2. CASE Exists(d)
  <2> USE <1>2 DEF RowInv, RowTypes, UpdateDelivery, Exists
  <2>1. IdsInOrder'
    BY DEF IdsInOrder
  <2>2. OwnersKnown' /\ RowsHaveHook'
    BY DEF OwnersKnown, RowsHaveHook, HookExists
  <2>3. AttemptsRecorded'
    BY DEF AttemptsRecorded
  <2>4. DeliveredWasAcked'
    BY DEF DeliveredWasAcked
  <2>5. NoEarlyGiveUp'
    BY DEF NoEarlyGiveUp
  <2> QED  BY <2>1, <2>2, <2>3, <2>4, <2>5
<1> QED  BY <1>1, <1>2

LEMMA RowsDelete ==
  ASSUME RowTypes, RowInv, NEW S \in SUBSET Ids, DeleteRows(S),
         \A d \in S : Exists(d),
         \A d \in Ids \ S : Exists(d) => hook'[owner[d]] = hook[owner[d]],
         UNCHANGED acked
  PROVE  RowInv'
<1> USE DEF RowInv, RowTypes, DeleteRows, Exists
<1>1. IdsInOrder'
  BY DEF IdsInOrder
<1>2. OwnersKnown' /\ RowsHaveHook'
  BY DEF OwnersKnown, RowsHaveHook, HookExists
<1>3. AttemptsRecorded'
  BY DEF AttemptsRecorded
<1>4. DeliveredWasAcked' /\ NoEarlyGiveUp'
  BY DEF DeliveredWasAcked, NoEarlyGiveUp
<1> QED  BY <1>1, <1>2, <1>3, <1>4

(* An outcome recorded by a worker satisfies what RowsUpdate asks for. *)
LEMMA RowsOutcome ==
  ASSUME TypeOK, RowInv, JobInv, NEW w \in Workers, WorkerRecord(w)
  PROVE  RowInv'
<1> DEFINE d == job[w]
<1>1. /\ d \in Ids
      /\ RecordOutcome(d, result[w], seen[w] + 1)
      /\ UNCHANGED <<hook, acked>>
  BY DEF WorkerRecord, TypeOK, WorkerTypes
<1>2. result[w] = "ok" => d \in acked
  BY DEF WorkerRecord, JobInv, WorkersHonest
<1>3. seen[w] <= recorded[d]
  BY DEF WorkerRecord, JobInv, WorkersHonest
<1>4. seen[w] \in Nat /\ recorded[d] \in Nat /\ MaxAttempts \in Nat
  BY <1>1, DeliveryAssumption DEF TypeOK, WorkerTypes, RowTypes
<1>5. seen[w] + 1 >= MaxAttempts => recorded[d] + 1 >= MaxAttempts
  BY <1>3, <1>4
<1> HIDE DEF d
<1>6. CASE result[w] = "ok" /\ UpdateDeliverySuccess(d)
  BY <1>1, <1>2, <1>6, RowsUpdate DEF UpdateDeliverySuccess, TypeOK
<1>7. CASE UpdateDeliveryDead(d, "rejected")
  BY <1>1, <1>7, RowsUpdate DEF UpdateDeliveryDead, TypeOK
<1>8. CASE seen[w] + 1 >= MaxAttempts /\ UpdateDeliveryDead(d, "exhausted")
  BY <1>1, <1>5, <1>8, RowsUpdate DEF UpdateDeliveryDead, TypeOK
<1>9. CASE UpdateDeliveryRetry(d)
  BY <1>1, <1>9, RowsUpdate DEF UpdateDeliveryRetry, TypeOK
<1> QED  BY <1>1, <1>6, <1>7, <1>8, <1>9 DEF RecordOutcome

LEMMA RowStep ==
  ASSUME TypeOK, RowInv, JobInv, [Next]_vars
  PROVE  RowInv'
<1>1. ASSUME NEW s \in Senders, Sender(s) PROVE RowInv'
  <2>1. CASE UNCHANGED <<rowVars, hook, acked>>
    BY <2>1, RowsQuiet
  <2>2. ASSUME NEW h \in todo[s], HookExists(h), InsertDelivery(h),
               UNCHANGED <<hook, acked>>
        PROVE  RowInv'
    <3>1. h \in Hooks
      BY DEF TypeOK, OtherTypes
    <3> QED  BY <2>2, <3>1, RowsInsert DEF TypeOK
  <2> QED
    BY <1>1, <2>1, <2>2
       DEF Sender, DispatchBegin, DispatchCreate, DispatchEnqueue
<1>2. ASSUME NEW w \in Workers,
             Worker(w) \/ WorkerStatementFails(w) \/ WorkerExit(w)
      PROVE  RowInv'
  <2>1. CASE WorkerPost(w)
    <3> USE DEF RowInv
    <3>1. DeliveredWasAcked'
      BY <2>1 DEF WorkerPost, DeliveredWasAcked, rowVars
    <3>2. /\ IdsInOrder' /\ OwnersKnown' /\ AttemptsRecorded'
          /\ RowsHaveHook' /\ NoEarlyGiveUp'
      BY <2>1 DEF WorkerPost, rowVars, IdsInOrder, OwnersKnown,
                  AttemptsRecorded, RowsHaveHook, NoEarlyGiveUp, Exists,
                  HookExists
    <3> QED  BY <3>1, <3>2
  <2>2. CASE WorkerRecord(w)
    BY <2>2, RowsOutcome
  <2>3. CASE UNCHANGED <<rowVars, hook, acked>>
    BY <2>3, RowsQuiet
  <2> QED
    BY <1>2, <2>1, <2>2, <2>3
       DEF Worker, WorkerReceive, WorkerLoad, WorkerStatementFails, WorkerExit
<1>3. CASE RetryFetch \/ RetryRead \/ RetryAct \/ RetryStatementFails \/ RetryExit
  <2>1. CASE UNCHANGED <<rowVars, hook, acked>>
    BY <2>1, RowsQuiet
  <2>2. ASSUME NEW d \in batch, UpdateDeliveryDead(d, "disabled"),
               UNCHANGED <<hook, acked>>
        PROVE  RowInv'
    <3>1. d \in Ids
      BY DEF TypeOK, OtherTypes
    <3> QED
      BY <2>2, <3>1, RowsUpdate DEF UpdateDeliveryDead, TypeOK
  <2> QED
    BY <1>3, <2>1, <2>2 DEF RetryFetch, RetryRead, RetryAct, RetryStatementFails, RetryExit
<1>4. ASSUME NEW d \in Ids, BackoffElapses(d) PROVE RowInv'
  BY <1>4 DEF BackoffElapses, RowInv, IdsInOrder, OwnersKnown,
              AttemptsRecorded, RowsHaveHook, DeliveredWasAcked,
              NoEarlyGiveUp, Exists, HookExists
<1>5. CASE Cleanup
  <2>1. PICK S \in SUBSET Ids :
          DeleteRows(S) /\ \A d \in S : status[d] \in {"delivered", "dead"}
    <3>1. PICK cutoff \in Ids :
            DeleteRows({d \in Ids : d <= cutoff /\ status[d] \in {"delivered", "dead"}})
      BY <1>5 DEF Cleanup
    <3> QED  BY <3>1
  <2>2. UNCHANGED <<hook, acked>>
    BY <1>5 DEF Cleanup
  <2> QED  BY <2>1, <2>2, RowsDelete DEF TypeOK, Exists
<1>6. ASSUME NEW h \in Hooks,
             CreateHook(h) \/ UpdateHook(h) \/ DeleteHook(h) \/ TestHook(h)
      PROVE  RowInv'
  <2>1. CASE CreateHook(h) \/ UpdateHook(h)
    <3>1. UNCHANGED <<rowVars, acked>>
      BY <2>1 DEF CreateHook, UpdateHook
    <3>2. \A g \in Hooks : HookExists(g) => HookExists(g)'
      BY <2>1 DEF CreateHook, UpdateHook, HookExists, TypeOK, OtherTypes
    <3>3. RowsHaveHook'
      BY <3>1, <3>2 DEF RowInv, RowsHaveHook, Exists, rowVars
    <3> QED
      BY <3>1, <3>3 DEF RowInv, IdsInOrder, OwnersKnown, AttemptsRecorded,
                        DeliveredWasAcked, NoEarlyGiveUp, rowVars
  <2>2. CASE DeleteHook(h)
    <3> DEFINE S == {d \in Ids : Exists(d) /\ owner[d] = h}
    <3>1. DeleteRows(S) /\ UNCHANGED acked /\ hook' = [hook EXCEPT ![h] = "deleted"]
      BY <2>2 DEF DeleteHook
    <3>2. \A d \in Ids \ S : Exists(d) => hook'[owner[d]] = hook[owner[d]]
      <4>1. \A d \in Ids \ S : Exists(d) => owner[d] \in Hooks /\ owner[d] # h
        BY DEF RowInv, RowsHaveHook
      <4> QED  BY <4>1, <3>1 DEF TypeOK, OtherTypes
    <3>3. \A d \in S : Exists(d)
      OBVIOUS
    <3>4. S \in SUBSET Ids
      OBVIOUS
    <3> HIDE DEF S
    <3> QED  BY <3>1, <3>2, <3>3, <3>4, RowsDelete DEF TypeOK
  <2>3. CASE TestHook(h)
    BY <2>3, RowsInsert DEF TestHook, TypeOK
  <2> QED  BY <1>6, <2>1, <2>2, <2>3
<1>7. ASSUME NEW d \in Ids, RetryDelivery(d) PROVE RowInv'
  <2> USE <1>7 DEF RetryDelivery, RowInv, TypeOK, RowTypes, Exists
  <2>1. IdsInOrder' /\ OwnersKnown'
    BY DEF IdsInOrder, OwnersKnown
  <2>2. AttemptsRecorded'
    <3>1. \A e \in Ids : recorded'[e] = recorded[e] /\ 0 <= recorded[e]
      <4>1. recorded' = recorded /\ recorded \in [Ids -> Nat]
        OBVIOUS
      <4> QED  BY ONLY <4>1
    <3>2. \A e \in Ids : attempts'[e] = IF e = d THEN 0 ELSE attempts[e]
      OBVIOUS
    <3>3. \A e \in Ids : attempts[e] <= recorded[e]
      BY DEF AttemptsRecorded
    <3> QED  BY ONLY <3>1, <3>2, <3>3 DEF AttemptsRecorded
  <2>3. RowsHaveHook'
    BY DEF RowsHaveHook, HookExists
  <2>4. DeliveredWasAcked' /\ NoEarlyGiveUp'
    BY DEF DeliveredWasAcked, NoEarlyGiveUp
  <2> QED  BY <2>1, <2>2, <2>3, <2>4
<1>8. CASE StopBegin \/ StopClose \/ StopReturns \/ Crash \/ Start
  BY <1>8, RowsQuiet DEF StopBegin, StopClose, StopReturns, Crash, Start, LoseMemory
<1>9. CASE UNCHANGED vars
  BY <1>9, RowsQuiet DEF vars
<1> QED
  BY <1>1, <1>2, <1>3, <1>4, <1>5, <1>6, <1>7, <1>8, <1>9 DEF Next, Admin

-----------------------------------------------------------------------------
(* The goroutines: what they hold stays true, because rows are never taken
   back, counts of outcomes only grow and so does the set of the acked. *)

RowsGrow ==
  /\ \A d \in Ids : status[d] # "none" => status'[d] # "none"
  /\ \A d \in Ids : recorded[d] \in Nat /\ recorded'[d] \in Nat
                    /\ recorded[d] <= recorded'[d]
  /\ acked \subseteq acked'

LEMMA UpdateGrows ==
  ASSUME RowTypes, NEW d \in Ids, NEW st \in {"pending", "delivered", "dead"},
         NEW b, NEW why, UpdateDelivery(d, st, b, why), UNCHANGED acked
  PROVE  RowsGrow
  BY DEF RowsGrow, RowTypes, UpdateDelivery, rowVars

LEMMA StepGrows ==
  ASSUME TypeOK, RowInv, [Next]_vars
  PROVE  RowsGrow
<1> USE DEF TypeOK
<1>1. CASE UNCHANGED rowVars /\ acked \subseteq acked'
  BY <1>1 DEF RowTypes, RowsGrow, rowVars
<1>2. ASSUME NEW h \in Hooks, InsertDelivery(h), UNCHANGED acked PROVE RowsGrow
  BY <1>2, InsertTypes DEF InsertDelivery, RowTypes, RowsGrow
<1>3. ASSUME NEW S \in SUBSET Ids, DeleteRows(S), UNCHANGED acked PROVE RowsGrow
  BY <1>3 DEF DeleteRows, RowTypes, RowsGrow
<1>4. ASSUME NEW s \in Senders, Sender(s) PROVE RowsGrow
  <2>1. todo[s] \subseteq Hooks
    BY DEF OtherTypes
  <2> QED
    BY <1>1, <1>2, <1>4, <2>1
       DEF Sender, DispatchBegin, DispatchCreate, DispatchEnqueue, rowVars
<1>5. ASSUME NEW w \in Workers, WorkerRecord(w) PROVE RowsGrow
  <2>1. job[w] \in Ids
    BY <1>5 DEF WorkerRecord, WorkerTypes
  <2>2. RecordOutcome(job[w], result[w], seen[w] + 1) /\ UNCHANGED acked
    BY <1>5 DEF WorkerRecord
  <2> QED
    BY <2>1, <2>2, UpdateGrows
       DEF RecordOutcome, UpdateDeliverySuccess, UpdateDeliveryRetry,
           UpdateDeliveryDead
<1>6. ASSUME NEW w \in Workers,
             Worker(w) \/ WorkerStatementFails(w) \/ WorkerExit(w)
      PROVE  RowsGrow
  <2>1. CASE UNCHANGED rowVars /\ acked \subseteq acked'
    BY <2>1, <1>1
  <2> QED
    BY <1>5, <1>6, <2>1
       DEF Worker, WorkerReceive, WorkerLoad, WorkerPost, WorkerStatementFails,
           WorkerExit
<1>7. CASE RetryFetch \/ RetryRead \/ RetryAct \/ RetryStatementFails \/ RetryExit
  <2>1. ASSUME NEW d \in batch, UpdateDeliveryDead(d, "disabled"), UNCHANGED acked
        PROVE  RowsGrow
    BY <2>1, UpdateGrows DEF UpdateDeliveryDead, OtherTypes
  <2> QED
    BY <1>1, <1>7, <2>1 DEF RetryFetch, RetryRead, RetryAct, RetryStatementFails, RetryExit
<1>8. ASSUME NEW d \in Ids, BackoffElapses(d) \/ RetryDelivery(d) PROVE RowsGrow
  <2>1. UNCHANGED <<recorded, acked>>
    BY <1>8 DEF BackoffElapses, RetryDelivery
  <2>2. \A e \in Ids : status[e] # "none" => status'[e] # "none"
    BY <1>8 DEF BackoffElapses, RetryDelivery, RowTypes
  <2> QED  BY <2>1, <2>2 DEF RowsGrow, RowTypes
<1>9. CASE Cleanup
  <2>1. PICK cutoff \in Ids :
          DeleteRows({d \in Ids : d <= cutoff /\ status[d] \in {"delivered", "dead"}})
    BY <1>9 DEF Cleanup
  <2> QED  BY <1>3, <1>9, <2>1 DEF Cleanup
<1>10. ASSUME NEW h \in Hooks,
              CreateHook(h) \/ UpdateHook(h) \/ DeleteHook(h) \/ TestHook(h)
       PROVE  RowsGrow
  BY <1>1, <1>2, <1>3, <1>10 DEF CreateHook, UpdateHook, DeleteHook, TestHook
<1>11. CASE StopBegin \/ StopClose \/ StopReturns \/ Crash \/ Start
  BY <1>1, <1>11 DEF StopBegin, StopClose, StopReturns, Crash, Start, LoseMemory
<1>12. CASE UNCHANGED vars
  BY <1>1, <1>12 DEF vars
<1> QED
  BY <1>4, <1>6, <1>7, <1>8, <1>9, <1>10, <1>11, <1>12 DEF Next, Admin

LEMMA WorkersQuiet ==
  ASSUME TypeOK, WorkersHonest, RowsGrow, NEW w \in Workers,
         pc'[w] = pc[w], job'[w] = job[w], seen'[w] = seen[w],
         result'[w] = result[w]
  PROVE  /\ pc'[w] \in {"load", "post", "record"} => Inserted(job[w])'
         /\ pc'[w] \in {"post", "record"} => seen'[w] <= recorded'[job'[w]]
         /\ pc'[w] = "record" /\ result'[w] = "ok" => job'[w] \in acked'
<1>1. pc[w] \in {"load", "post", "record"} => job[w] \in Ids
  BY DEF TypeOK, WorkerTypes
<1>2. pc[w] \in {"load", "post", "record"} => Inserted(job[w])'
  BY <1>1 DEF WorkersHonest, Inserted, RowsGrow
<1>3. ASSUME pc[w] \in {"post", "record"} PROVE seen[w] <= recorded'[job[w]]
  <2>1. seen[w] <= recorded[job[w]] /\ seen[w] \in Nat
    BY <1>3 DEF WorkersHonest, TypeOK, WorkerTypes
  <2>2. /\ recorded[job[w]] \in Nat /\ recorded'[job[w]] \in Nat
        /\ recorded[job[w]] <= recorded'[job[w]]
    BY <1>1, <1>3 DEF RowsGrow
  <2> QED  BY ONLY <2>1, <2>2
<1>4. pc[w] = "record" /\ result[w] = "ok" => job[w] \in acked'
  BY DEF WorkersHonest, RowsGrow
<1> QED  BY <1>2, <1>3, <1>4

LEMMA WorkersAsBefore ==
  ASSUME TypeOK, WorkersHonest, RowsGrow, UNCHANGED workerVars
  PROVE  WorkersHonest'
  BY WorkersQuiet DEF WorkersHonest, workerVars

LEMMA KnownAsBefore ==
  ASSUME TypeOK, JobInv, RowsGrow
  PROVE  /\ UNCHANGED queue => QueueKnown'
         /\ UNCHANGED batch => BatchKnown'
         /\ UNCHANGED created => SendersKnown'
<1>1. \A d : Inserted(d) => Inserted(d)'
  BY DEF Inserted, RowsGrow
<1> QED  BY <1>1 DEF JobInv, QueueKnown, BatchKnown, SendersKnown

(* A worker that lets go of its delivery holds nothing to be wrong about. *)
LEMMA WorkersRelease ==
  ASSUME TypeOK, WorkersHonest, RowsGrow, NEW w \in Workers, Release(w)
  PROVE  WorkersHonest'
<1>1. pc'[w] = "idle"
  BY DEF Release, TypeOK, WorkerTypes
<1>2. \A v \in Workers \ {w} : /\ pc'[v] = pc[v] /\ job'[v] = job[v]
                               /\ seen'[v] = seen[v] /\ result'[v] = result[v]
  BY DEF Release, TypeOK, WorkerTypes
<1> QED  BY <1>1, <1>2, WorkersQuiet DEF WorkersHonest

LEMMA EnqueueKnown ==
  ASSUME TypeOK, JobInv, RowsGrow, NEW d, Inserted(d), Enqueue(d)
  PROVE  QueueKnown'
<1>1. \A e : Inserted(e) => Inserted(e)'
  BY DEF Inserted, RowsGrow
<1>2. queue \in Seq(Ids) /\ d \in Ids
  BY DEF TypeOK, OtherTypes, Inserted
<1>3. CASE queue' = queue
  BY <1>1, <1>3 DEF JobInv, QueueKnown
<1>4. CASE queue' = Append(queue, d)
  <2>1. /\ Len(queue') = Len(queue) + 1 /\ Len(queue) \in Nat
        /\ queue'[Len(queue) + 1] = d
        /\ \A i \in 1..Len(queue) : queue'[i] = queue[i]
    BY <1>2, <1>4
  <2>2. ASSUME NEW i \in 1..Len(queue'), i # Len(queue) + 1
        PROVE  i \in 1..Len(queue)
    BY <2>1, <2>2
  <2> QED  BY <1>1, <2>1, <2>2 DEF JobInv, QueueKnown
<1> QED  BY <1>3, <1>4 DEF Enqueue

LEMMA JobStep ==
  ASSUME TypeOK, RowInv, JobInv, [Next]_vars
  PROVE  JobInv'
<1>0. RowsGrow /\ WorkersHonest
  BY StepGrows DEF JobInv
<1> USE DEF sendVars, retryVars
<1>1. CASE UNCHANGED <<queue, workerVars, batch, created>>
  BY <1>0, <1>1, KnownAsBefore, WorkersAsBefore DEF JobInv
<1>2. ASSUME NEW s \in Senders, Sender(s) PROVE JobInv'
  <2>1. CASE DispatchBegin(s)
    BY <1>1, <2>1 DEF DispatchBegin
  <2>2. CASE DispatchCreate(s)
    <3>1. QueueKnown' /\ BatchKnown' /\ WorkersHonest'
      BY <1>0, <2>2, KnownAsBefore, WorkersAsBefore DEF DispatchCreate
    <3>2. CASE UNCHANGED created
      BY <1>0, <3>1, <3>2, KnownAsBefore DEF JobInv
    <3>3. ASSUME NEW h \in todo[s], InsertDelivery(h),
                 created' = [created EXCEPT ![s] = nextId]
          PROVE  JobInv'
      <4>1. h \in Hooks
        BY DEF TypeOK, OtherTypes
      <4>2. nextId \in Ids /\ status'[nextId] = "pending"
        BY <3>3, <4>1, InsertTypes DEF InsertDelivery, TypeOK, RowTypes
      <4>3. SendersKnown'
        BY <1>0, <3>3, <4>2
           DEF JobInv, SendersKnown, Inserted, RowsGrow, TypeOK, OtherTypes
      <4> QED  BY <3>1, <4>3 DEF JobInv
    <3> QED  BY <2>2, <3>2, <3>3 DEF DispatchCreate
  <2>3. CASE DispatchEnqueue(s)
    <3>1. Inserted(created[s])
      BY <2>3 DEF DispatchEnqueue, JobInv, SendersKnown
    <3>2. QueueKnown'
      BY <1>0, <2>3, <3>1, EnqueueKnown DEF DispatchEnqueue
    <3>3. SendersKnown'
      BY <1>0, <2>3 DEF DispatchEnqueue, JobInv, SendersKnown, Inserted,
                        RowsGrow, TypeOK, OtherTypes
    <3> QED
      BY <1>0, <2>3, <3>2, <3>3, KnownAsBefore, WorkersAsBefore
         DEF DispatchEnqueue, JobInv
  <2> QED  BY <1>2, <2>1, <2>2, <2>3 DEF Sender
<1>3. ASSUME NEW w \in Workers,
             Worker(w) \/ WorkerStatementFails(w) \/ WorkerExit(w)
      PROVE  JobInv'
  <2> SUFFICES QueueKnown' /\ WorkersHonest'
    BY <1>0, <1>3, KnownAsBefore
       DEF JobInv, Worker, WorkerReceive, WorkerLoad, WorkerPost, WorkerRecord,
           WorkerStatementFails, WorkerExit
  <2>1. UNCHANGED queue => QueueKnown'
    BY <1>0, KnownAsBefore
  <2>2. CASE Release(w) /\ UNCHANGED queue
    BY <1>0, <2>1, <2>2, WorkersRelease
  <2>3. CASE WorkerReceive(w)
    <3>1. queue \in Seq(Ids) /\ queue # <<>>
      BY <2>3 DEF WorkerReceive, TypeOK, OtherTypes
    <3>2. Inserted(Head(queue))
      BY <3>1 DEF JobInv, QueueKnown
    <3>3. \A e : Inserted(e) => Inserted(e)'
      BY <1>0 DEF Inserted, RowsGrow
    <3>4. QueueKnown'
      <4>1. ASSUME NEW i \in 1..Len(Tail(queue))
            PROVE  i + 1 \in 1..Len(queue) /\ Tail(queue)[i] = queue[i + 1]
        BY <3>1
      <4> QED  BY <2>3, <3>3, <4>1 DEF WorkerReceive, JobInv, QueueKnown
    <3>5. pc'[w] = "load" /\ job'[w] = Head(queue)
      BY <2>3 DEF WorkerReceive, TypeOK, WorkerTypes
    <3>6. \A v \in Workers \ {w} : /\ pc'[v] = pc[v] /\ job'[v] = job[v]
                                   /\ seen'[v] = seen[v] /\ result'[v] = result[v]
      BY <2>3 DEF WorkerReceive, TypeOK, WorkerTypes
    <3> QED
      BY <1>0, <3>2, <3>3, <3>4, <3>5, <3>6, WorkersQuiet DEF WorkersHonest
  <2>4. CASE WorkerLoad(w)
    <3>1. CASE status[job[w]] = "pending"
      <4>1. job[w] \in Ids /\ Inserted(job[w])
        BY <2>4 DEF WorkerLoad, TypeOK, WorkerTypes, JobInv, WorkersHonest
      <4>2. /\ pc'[w] = "post" /\ job'[w] = job[w]
            /\ seen'[w] = attempts[job[w]]
            /\ UNCHANGED rowVars
        BY <2>4, <3>1 DEF WorkerLoad, TypeOK, WorkerTypes
      <4>3. attempts[job[w]] <= recorded'[job[w]]
        BY <4>1, <4>2 DEF RowInv, AttemptsRecorded, rowVars
      <4>4. Inserted(job[w])'
        BY <4>1, <4>2 DEF Inserted, rowVars
      <4>5. \A v \in Workers \ {w} : /\ pc'[v] = pc[v] /\ job'[v] = job[v]
                                     /\ seen'[v] = seen[v] /\ result'[v] = result[v]
        BY <2>4, <3>1 DEF WorkerLoad, TypeOK, WorkerTypes
      <4> QED
        BY <1>0, <2>1, <2>4, <4>2, <4>3, <4>4, <4>5, WorkersQuiet
           DEF WorkersHonest, WorkerLoad
    <3> QED  BY <2>2, <2>4, <3>1 DEF WorkerLoad
  <2>5. CASE WorkerPost(w)
    <3>1. /\ pc[w] = "post" /\ pc'[w] = "record" /\ job' = job /\ seen' = seen
          /\ UNCHANGED rowVars
          /\ result'[w] = "ok" => job[w] \in acked'
      BY <2>5 DEF WorkerPost, TypeOK, WorkerTypes
    <3>2. Inserted(job[w])' /\ seen'[w] <= recorded'[job[w]]
      BY <3>1 DEF JobInv, WorkersHonest, Inserted, rowVars
    <3>3. \A v \in Workers \ {w} : /\ pc'[v] = pc[v] /\ job'[v] = job[v]
                                   /\ seen'[v] = seen[v] /\ result'[v] = result[v]
      BY <2>5 DEF WorkerPost, TypeOK, WorkerTypes
    <3> QED
      BY <1>0, <2>1, <2>5, <3>1, <3>2, <3>3, WorkersQuiet
         DEF WorkersHonest, WorkerPost
  <2>6. CASE WorkerRecord(w) \/ WorkerStatementFails(w)
    BY <2>2, <2>6 DEF WorkerRecord, WorkerStatementFails
  <2>7. CASE WorkerExit(w)
    <3>1. pc'[w] = "exited"
      BY <2>7 DEF WorkerExit, TypeOK, WorkerTypes
    <3>2. \A v \in Workers \ {w} : /\ pc'[v] = pc[v] /\ job'[v] = job[v]
                                   /\ seen'[v] = seen[v] /\ result'[v] = result[v]
      BY <2>7 DEF WorkerExit, TypeOK, WorkerTypes
    <3> QED
      BY <1>0, <2>1, <2>7, <3>1, <3>2, WorkersQuiet DEF WorkersHonest, WorkerExit
  <2> QED  BY <1>3, <2>3, <2>4, <2>5, <2>6, <2>7 DEF Worker
<1>4. CASE RetryFetch \/ RetryRead \/ RetryAct \/ RetryStatementFails
  <2>1. WorkersHonest' /\ SendersKnown'
    BY <1>0, <1>4, KnownAsBefore, WorkersAsBefore
       DEF RetryFetch, RetryRead, RetryAct, RetryStatementFails
  <2>2. BatchKnown'
    BY <1>0, <1>4 DEF RetryFetch, RetryRead, RetryAct, RetryStatementFails, TakeFromBatch,
                      GetPendingDeliveries, PendingDue, JobInv, BatchKnown, Inserted, RowsGrow
  <2>3. QueueKnown'
    <3>1. CASE UNCHANGED queue
      BY <1>0, <3>1, KnownAsBefore
    <3>2. ASSUME NEW d \in batch, Enqueue(d) PROVE QueueKnown'
      BY <1>0, <3>2, EnqueueKnown DEF JobInv, BatchKnown
    <3> QED  BY <1>4, <3>1, <3>2 DEF RetryFetch, RetryRead, RetryAct, RetryStatementFails
  <2> QED  BY <2>1, <2>2, <2>3 DEF JobInv
<1>5. CASE StopReturns \/ Crash
  <2>1. /\ queue' = <<>> /\ batch' = {}
        /\ \A s \in Senders : created'[s] = NoJob
        /\ \A w \in Workers : pc'[w] = "idle"
    BY <1>5 DEF StopReturns, Crash, LoseMemory
  <2> QED
    BY <2>1 DEF JobInv, QueueKnown, BatchKnown, SendersKnown, WorkersHonest
<1>6. CASE \/ RetryExit \/ Cleanup \/ StopBegin \/ StopClose \/ Start \/ Admin
           \/ \E d \in Ids : BackoffElapses(d)
           \/ UNCHANGED vars
  BY <1>1, <1>6
     DEF RetryExit, Cleanup, StopBegin, StopClose, Start, BackoffElapses, Admin,
         CreateHook, UpdateHook, DeleteHook, TestHook, RetryDelivery, vars
<1> QED
  BY <1>2, <1>3, <1>4, <1>5, <1>6 DEF Next

(* Everything together: the inductive invariant. *)
THEOREM Invariance == Spec => []IndInv
<1>1. Init => TypeOK
  BY InitTypes
<1>2. Init => RowInv /\ JobInv
  <2> SUFFICES ASSUME Init PROVE RowInv /\ JobInv
    OBVIOUS
  <2>1. /\ \A d \in Ids : status[d] = "none" /\ attempts[d] = 0 /\ recorded[d] = 0
        /\ \A w \in Workers : pc[w] = "idle"
        /\ \A s \in Senders : created[s] = NoJob
        /\ queue = <<>> /\ batch = {} /\ nextId = 1
    BY DEF Init
  <2>2. \A d \in Ids : d >= 1
    BY DeliveryAssumption DEF Ids
  <2>3. RowInv
    BY <2>1, <2>2
       DEF RowInv, IdsInOrder, OwnersKnown, AttemptsRecorded, RowsHaveHook,
           DeliveredWasAcked, NoEarlyGiveUp, Exists
  <2>4. JobInv
    BY <2>1 DEF JobInv, QueueKnown, BatchKnown, SendersKnown, WorkersHonest
  <2> QED  BY <2>3, <2>4
<1>3. IndInv /\ [Next]_vars => IndInv'
  BY TypeStep, RowStep, JobStep DEF IndInv
<1> QED  BY <1>1, <1>2, <1>3, PTL DEF Spec, IndInv

(* delivery.go:100: "delivered" in the table means that the endpoint answered
   some attempt at this delivery with a 2xx. *)
THEOREM DeliveredOnlyIfAcked == Spec => []DeliveredWasAcked
<1>1. IndInv => DeliveredWasAcked
  BY DEF IndInv, RowInv
<1> QED  BY <1>1, Invariance, PTL

(* 00022_create_webhook_deliveries.sql:4: no row without its webhook. *)
THEOREM RowsBelongToHooks == Spec => []RowsHaveHook
<1>1. IndInv => RowsHaveHook
  BY DEF IndInv, RowInv
<1> QED  BY <1>1, Invariance, PTL

(* delivery.go:123: attempts run out only after MaxAttempts outcomes. *)
THEOREM GivesUpLate == Spec => []NoEarlyGiveUp
<1>1. IndInv => NoEarlyGiveUp
  BY DEF IndInv, RowInv
<1> QED  BY <1>1, Invariance, PTL

-----------------------------------------------------------------------------
(* The refinement: a step of the detailed specification is a step of
   DeliveryContract or leaves its variables alone. *)

LEMMA SameIds == Contract!Ids = Ids
  BY DEF Contract!Ids, Ids

LEMMA SameKnown ==
  ASSUME NEW d, Exists(d) PROVE Contract!Known(d)
  BY DEF Contract!Known, Exists

(* Webhooks that stay, and rows that keep their owners. *)
LEMMA SameExisting ==
  ASSUME UNCHANGED hook PROVE Existing' = Existing
  BY DEF Existing, HookExists

(* An outcome that is written, justified as RowsUpdate wants it. *)
LEMMA UpdateRefines ==
  ASSUME NEW d \in Ids, NEW b, UNCHANGED <<acked, hook>>,
         \/ d \in acked /\ UpdateDelivery(d, "delivered", b, cause[d])
         \/ UpdateDelivery(d, "pending", b, "failed")
         \/ \E why \in {"rejected", "exhausted", "disabled"} :
               /\ why = "exhausted" => recorded[d] + 1 >= MaxAttempts
               /\ UpdateDelivery(d, "dead", b, why)
  PROVE  [Contract!Next]_Contract!contractVars
<1>0. Existing' = Existing
  BY SameExisting
<1>1. CASE ~Exists(d)
  BY <1>0, <1>1 DEF UpdateDelivery, rowVars, Contract!contractVars
<1>2. CASE Exists(d)
  <2>1. d \in Contract!Ids /\ Contract!Known(d)
    BY <1>2, SameIds, SameKnown
  <2>2. CASE d \in acked /\ UpdateDelivery(d, "delivered", b, cause[d])
    <3>1. Contract!Confirm(d)
      BY <1>0, <1>2, <2>1, <2>2 DEF UpdateDelivery, Contract!Confirm, Contract!Outcome
    <3> QED  BY <2>1, <3>1 DEF Contract!Next
  <2>3. CASE UpdateDelivery(d, "pending", b, "failed")
    <3>1. Contract!Postpone(d)
      BY <1>0, <1>2, <2>1, <2>3 DEF UpdateDelivery, Contract!Postpone, Contract!Outcome
    <3> QED  BY <2>1, <3>1 DEF Contract!Next
  <2>4. ASSUME NEW why \in {"rejected", "exhausted", "disabled"},
               why = "exhausted" => recorded[d] + 1 >= MaxAttempts,
               UpdateDelivery(d, "dead", b, why)
        PROVE  [Contract!Next]_Contract!contractVars
    <3>1. Contract!GiveUp(d, why)
      BY <1>0, <1>2, <2>1, <2>4 DEF UpdateDelivery, Contract!GiveUp, Contract!Outcome
    <3> QED  BY <2>1, <3>1 DEF Contract!Next
  <2> QED  BY <2>2, <2>3, <2>4
<1> QED  BY <1>1, <1>2

LEMMA InsertRefines ==
  ASSUME RowTypes, IdsInOrder, NEW h \in Hooks, HookExists(h),
         InsertDelivery(h), UNCHANGED <<acked, hook>>
  PROVE  [Contract!Next]_Contract!contractVars
<1>1. nextId \in Ids /\ status[nextId] = "none" /\ h \in Existing
  BY InsertTypes DEF IdsInOrder, Ids, Existing
<1>2. Contract!Accept(nextId, h)
  BY <1>1, SameExisting DEF InsertDelivery, Contract!Accept
<1> QED  BY <1>1, <1>2, SameIds DEF Contract!Next

LEMMA WorkerRefines ==
  ASSUME IndInv, NEW w \in Workers,
         Worker(w) \/ WorkerStatementFails(w) \/ WorkerExit(w)
  PROVE  [Contract!Next]_Contract!contractVars
<1> USE DEF IndInv, JobInv
<1> DEFINE d == job[w]
<1>1. CASE WorkerPost(w)
  <2>1. d \in Ids /\ status[d] # "none"
    BY <1>1 DEF WorkerPost, WorkersHonest, Inserted
  <2>2. /\ UNCHANGED <<rowVars, hook>> /\ Existing' = Existing
        /\ (acked' = acked \/ acked' = acked \cup {d})
    BY <1>1, SameExisting DEF WorkerPost
  <2>3. CASE acked' = acked
    BY <2>2, <2>3 DEF rowVars, Contract!contractVars
  <2>4. CASE acked' = acked \cup {d}
    <3>1. Contract!Ack(d)
      BY <2>1, <2>2, <2>4 DEF rowVars, Contract!Ack
    <3> QED  BY <2>1, <3>1, SameIds DEF Contract!Next
  <2> QED  BY <2>2, <2>3, <2>4
<1>2. CASE WorkerRecord(w)
  <2>1. /\ d \in Ids /\ UNCHANGED <<acked, hook>>
        /\ RecordOutcome(d, result[w], seen[w] + 1)
        /\ result[w] = "ok" => d \in acked
        /\ seen[w] <= recorded[d]
    BY <1>2 DEF WorkerRecord, WorkersHonest, Inserted
  <2>2. seen[w] \in Nat /\ recorded[d] \in Nat /\ MaxAttempts \in Nat
    BY <2>1, DeliveryAssumption DEF TypeOK, WorkerTypes, RowTypes
  <2>3. seen[w] + 1 >= MaxAttempts => recorded[d] + 1 >= MaxAttempts
    BY <2>1, <2>2
  <2> HIDE DEF d
  <2>4. CASE result[w] = "ok" /\ UpdateDeliverySuccess(d)
    BY <2>1, <2>4, UpdateRefines DEF UpdateDeliverySuccess
  <2>5. CASE UpdateDeliveryDead(d, "rejected")
    BY <2>1, <2>5, UpdateRefines DEF UpdateDeliveryDead
  <2>6. CASE seen[w] + 1 >= MaxAttempts /\ UpdateDeliveryDead(d, "exhausted")
    BY <2>1, <2>3, <2>6, UpdateRefines DEF UpdateDeliveryDead
  <2>7. CASE UpdateDeliveryRetry(d)
    BY <2>1, <2>7, UpdateRefines DEF UpdateDeliveryRetry
  <2> QED  BY <2>1, <2>4, <2>5, <2>6, <2>7 DEF RecordOutcome
<1>3. CASE UNCHANGED <<rowVars, acked, hook>>
  BY <1>3, SameExisting DEF rowVars, Contract!contractVars
<1> QED
  BY <1>1, <1>2, <1>3
     DEF Worker, WorkerReceive, WorkerLoad, WorkerStatementFails, WorkerExit

LEMMA StepRefines ==
  ASSUME IndInv, [Next]_vars
  PROVE  [Contract!Next]_Contract!contractVars
<1> USE DEF IndInv, TypeOK, RowInv
<1>1. CASE UNCHANGED <<rowVars, acked, hook>>
  BY <1>1, SameExisting DEF rowVars, Contract!contractVars
<1>2. ASSUME NEW s \in Senders, Sender(s)
      PROVE  [Contract!Next]_Contract!contractVars
  <2>1. todo[s] \subseteq Hooks
    BY DEF OtherTypes
  <2> QED
    BY <1>1, <1>2, <2>1, InsertRefines
       DEF Sender, DispatchBegin, DispatchCreate, DispatchEnqueue
<1>3. ASSUME NEW w \in Workers,
             Worker(w) \/ WorkerStatementFails(w) \/ WorkerExit(w)
      PROVE  [Contract!Next]_Contract!contractVars
  BY <1>3, WorkerRefines
<1>4. CASE RetryFetch \/ RetryRead \/ RetryAct \/ RetryStatementFails \/ RetryExit
  <2>1. ASSUME NEW d \in batch, UpdateDeliveryDead(d, "disabled"), UNCHANGED <<acked, hook>>
        PROVE  [Contract!Next]_Contract!contractVars
    <3>1. d \in Ids
      BY DEF OtherTypes
    <3> QED  BY <2>1, <3>1, UpdateRefines DEF UpdateDeliveryDead
  <2> QED
    BY <1>1, <1>4, <2>1 DEF RetryFetch, RetryRead, RetryAct, RetryStatementFails, RetryExit
<1>5. ASSUME NEW d \in Ids, BackoffElapses(d) \/ RetryDelivery(d)
      PROVE  [Contract!Next]_Contract!contractVars
  <2>1. CASE BackoffElapses(d)
    BY <2>1, SameExisting DEF BackoffElapses, Contract!contractVars
  <2>2. CASE RetryDelivery(d)
    <3>1. Contract!Requeue(d)
      BY <2>2, SameKnown, SameExisting DEF RetryDelivery, Contract!Requeue
    <3> QED  BY <3>1, SameIds DEF Contract!Next
  <2> QED  BY <1>5, <2>1, <2>2
<1>6. CASE Cleanup
  <2>1. PICK cutoff \in Ids :
          DeleteRows({d \in Ids : d <= cutoff /\ status[d] \in {"delivered", "dead"}})
    BY <1>6 DEF Cleanup
  <2> DEFINE S == {d \in Ids : d <= cutoff /\ status[d] \in {"delivered", "dead"}}
  <2>2. UNCHANGED <<acked, hook>>
    BY <1>6 DEF Cleanup
  <2>3. S \in SUBSET Ids /\ \A d \in S : status[d] \in {"delivered", "dead"}
    OBVIOUS
  <2>4. DeleteRows(S)
    BY <2>1
  <2> HIDE DEF S
  <2>5. Contract!Purge(S)
    BY <2>2, <2>3, <2>4, SameIds, SameExisting
       DEF DeleteRows, Contract!Purge, Contract!Forget
  <2> QED  BY <2>3, <2>5, SameIds DEF Contract!Next
<1>7. ASSUME NEW h \in Hooks,
             CreateHook(h) \/ UpdateHook(h) \/ DeleteHook(h) \/ TestHook(h)
      PROVE  [Contract!Next]_Contract!contractVars
  <2> USE DEF OtherTypes
  <2>1. CASE CreateHook(h)
    <3>1. Existing' = Existing \cup {h} /\ h \notin Existing
      BY <2>1 DEF CreateHook, Existing, HookExists
    <3>2. Contract!AddHook(h)
      BY <2>1, <3>1 DEF CreateHook, rowVars, Contract!AddHook
    <3> QED  BY <3>2 DEF Contract!Next
  <2>2. CASE UpdateHook(h)
    <3>1. Existing' = Existing
      BY <2>2 DEF UpdateHook, Existing, HookExists
    <3> QED
      BY <2>2, <3>1 DEF UpdateHook, rowVars, Contract!contractVars
  <2>3. CASE DeleteHook(h)
    <3>1. Existing' = Existing \ {h} /\ h \in Existing
      BY <2>3 DEF DeleteHook, Existing, HookExists
    <3>2. {d \in Contract!Ids : Contract!Known(d) /\ owner[d] = h}
            = {d \in Ids : Exists(d) /\ owner[d] = h}
      BY SameIds DEF Contract!Known, Exists
    <3>3. Contract!Forget({d \in Contract!Ids : Contract!Known(d) /\ owner[d] = h})
      BY <2>3, <3>2, SameIds DEF DeleteHook, DeleteRows, Contract!Forget
    <3>4. Contract!RemoveHook(h)
      BY <3>1, <3>3 DEF Contract!RemoveHook
    <3> QED  BY <3>4 DEF Contract!Next
  <2>4. CASE TestHook(h)
    BY <2>4, InsertRefines DEF TestHook
  <2> QED  BY <1>7, <2>1, <2>2, <2>3, <2>4
<1>8. CASE \/ StopBegin \/ StopClose \/ StopReturns \/ Crash \/ Start
           \/ UNCHANGED vars
  BY <1>1, <1>8 DEF StopBegin, StopClose, StopReturns, Crash, Start, LoseMemory, vars
<1> QED
  BY <1>2, <1>3, <1>4, <1>5, <1>6, <1>7, <1>8 DEF Next, Admin

(* The detailed specification implements the promise of docs/webhooks.md. *)
THEOREM Refinement == Spec => ImplementsContract
<1>1. Init => Contract!Init
  BY DEF Init, Contract!Init, Contract!Ids, Ids, Contract!NoHook, NoHook,
         Existing, HookExists
<1>2. IndInv /\ [Next]_vars => [Contract!Next]_Contract!contractVars
  BY StepRefines
<1> QED
  BY <1>1, <1>2, Invariance, PTL DEF Spec, ImplementsContract, Contract!Spec

-----------------------------------------------------------------------------
(* What the contract gives for one delivery *)

LEMMA RowIsKept ==
  ASSUME TypeOK, Contract!Next, NEW d \in Ids
  PROVE  /\ status[d] = "pending" /\ status'[d] # "pending" =>
              \/ status'[d] \in {"delivered", "dead"} /\ Contract!Recorded(d)
              \/ status'[d] = "gone" /\ owner[d] \in Existing /\ owner[d] \notin Existing'
         /\ status[d] # "none" => status'[d] # "none" /\ owner'[d] = owner[d]
         /\ status[d] = "gone" => status'[d] = "gone"
<1> USE DEF Contract!Recorded
<1>1. /\ status \in [Ids -> Statuses] /\ recorded \in [Ids -> Nat]
      /\ owner \in [Ids -> Hooks \cup {NoHook}]
  BY DEF TypeOK, RowTypes
<1>2. ASSUME NEW h \in Hooks, Contract!AddHook(h)
      PROVE  status' = status /\ owner' = owner
  BY <1>2 DEF Contract!AddHook
<1>3. ASSUME NEW h \in Hooks, Contract!RemoveHook(h)
      PROVE  /\ owner' = owner
             /\ \/ status'[d] = status[d]
                \/ /\ status'[d] = "gone" /\ status[d] \in {"pending", "delivered", "dead"}
                   /\ owner[d] \in Existing /\ owner[d] \notin Existing'
  BY <1>3, SameIds DEF Contract!RemoveHook, Contract!Forget, Contract!Known
<1>4. ASSUME NEW h \in Hooks, NEW e \in Ids, Contract!Accept(e, h)
      PROVE  \/ status[d] = "none"
             \/ status'[d] = status[d] /\ owner'[d] = owner[d]
  BY <1>1, <1>4 DEF Contract!Accept
<1>5. ASSUME NEW e \in Ids, NEW st \in {"pending", "delivered", "dead"}, NEW why,
             Contract!Known(e), Contract!Outcome(e, st, why)
      PROVE  /\ owner' = owner
             /\ \/ status'[d] = status[d]
                \/ /\ recorded'[d] = recorded[d] + 1 /\ status'[d] = st
                   /\ status[d] \in {"pending", "delivered", "dead"}
  BY <1>1, <1>5 DEF Contract!Outcome, Contract!Known
<1>6. ASSUME NEW e \in Ids,
             \/ Contract!Confirm(e) \/ Contract!Postpone(e)
             \/ \E why \in {"rejected", "exhausted", "disabled"} : Contract!GiveUp(e, why)
      PROVE  /\ owner' = owner
             /\ \/ status'[d] = status[d]
                \/ /\ recorded'[d] = recorded[d] + 1
                   /\ status'[d] \in {"pending", "delivered", "dead"}
                   /\ status[d] \in {"pending", "delivered", "dead"}
  BY <1>5, <1>6 DEF Contract!Confirm, Contract!Postpone, Contract!GiveUp
<1>7. ASSUME NEW e \in Ids, Contract!Requeue(e)
      PROVE  /\ owner' = owner
             /\ \/ status'[d] = status[d]
                \/ status'[d] = "pending" /\ status[d] \in {"pending", "delivered", "dead"}
  BY <1>1, <1>7 DEF Contract!Requeue, Contract!Known
<1>8. ASSUME NEW e \in Ids, Contract!Ack(e)
      PROVE  status' = status /\ owner' = owner
  BY <1>8 DEF Contract!Ack
<1>9. ASSUME NEW S \in SUBSET Ids, Contract!Purge(S)
      PROVE  /\ owner' = owner
             /\ \/ status'[d] = status[d]
                \/ status'[d] = "gone" /\ status[d] \in {"delivered", "dead"}
  BY <1>9, SameIds DEF Contract!Purge, Contract!Forget
<1>10. CASE \E h \in Hooks : \/ Contract!AddHook(h) \/ Contract!RemoveHook(h)
                             \/ \E e \in Ids : Contract!Accept(e, h)
  BY <1>2, <1>3, <1>4, <1>10
<1>11. CASE \E e \in Ids :
              \/ Contract!Ack(e) \/ Contract!Confirm(e) \/ Contract!Postpone(e)
              \/ \E why \in {"rejected", "exhausted", "disabled"} : Contract!GiveUp(e, why)
              \/ Contract!Requeue(e)
  BY <1>6, <1>7, <1>8, <1>11
<1>12. CASE \E S \in SUBSET Ids : Contract!Purge(S)
  BY <1>9, <1>12
<1> QED
  BY <1>10, <1>11, <1>12, SameIds DEF Contract!Next

(* delivery.go:50-156 and webhooks.sql: a delivery stops being pending only with an
   outcome on record or with its webhook, whatever crashes, is lost or runs twice;
   it stays with its webhook, and a row that is gone never returns. *)
THEOREM PendingIsNotLost == Spec => Contract!NothingIsLost
<1> DEFINE Kept == \A d \in Contract!Ids :
       /\ status[d] = "pending" /\ status'[d] # "pending" =>
            \/ status'[d] \in {"delivered", "dead"} /\ Contract!Recorded(d)
            \/ status'[d] = "gone" /\ owner[d] \in Existing /\ owner[d] \notin Existing'
       /\ status[d] # "none" => status'[d] # "none" /\ owner'[d] = owner[d]
       /\ status[d] = "gone" => status'[d] = "gone"
<1>1. IndInv /\ [Next]_vars => [Kept]_Contract!contractVars
  <2> SUFFICES ASSUME IndInv, Contract!Next PROVE Kept
    BY StepRefines
  <2> QED  BY RowIsKept, SameIds DEF IndInv
<1> QED
  BY <1>1, Invariance, PTL DEF Spec, Contract!NothingIsLost

=============================================================================

---------------------------- MODULE TaskRuns_proofs ----------------------------
(***************************************************************************)
(* Proofs about TaskRuns: type correctness, that a pending row has one     *)
(* goroutine that will write its verdict, and that the module implements   *)
(* RunHistory.                                                             *)
(***************************************************************************)
EXTENDS TaskRuns, TLAPS

(* A goroutine that waits or writes has a row of its task, and has not run   *)
(* longer than the timeout.  The row is pending as long as its task exists.  *)
RowInv ==
  \A w \in Workers : Running(w) =>
    /\ worker[w].run \in Runs
    /\ run[worker[w].run].task = worker[w].task
    /\ run[worker[w].run].state \in {"pending", "gone"}
    /\ worker[w].task \in exists => run[worker[w].run].state = "pending"
    /\ now <= run[worker[w].run].started + Timeout

OwnRow ==
  \A v, w \in Workers : v # w /\ Running(v) /\ Running(w) => worker[v].run # worker[w].run

Owned ==
  \A n \in Runs : run[n].state = "pending" =>
     n \in abandoned \/ \E w \in Workers : Running(w) /\ worker[w].run = n

HasTask == \A n \in Runs : run[n].state \in Kept => run[n].task \in exists

IInv == TypeOK /\ RowInv /\ OwnRow /\ Owned /\ HasTask

-----------------------------------------------------------------------------
(* Types *)

LEMMA SomeTaskIsTask == SomeTask \in Tasks
  BY TaskRunsAssumption DEF SomeTask

LEMMA RowTypes == NoRow \in Run /\ Idle \in Worker /\ Idle.pc = "idle"
  BY SomeTaskIsTask, TaskRunsAssumption DEF NoRow, Run, Idle, Worker

LEMMA WorkerFields ==
  ASSUME TypeOK, NEW w \in Workers
  PROVE  /\ worker[w] \in Worker
         /\ worker[w].task \in Tasks
         /\ worker[w].run \in Runs \cup {NoRun}
         /\ worker[w].by \in {"cron", "trigger"}
  BY DEF TypeOK, Worker

LEMMA RunFields ==
  ASSUME TypeOK, NEW n \in Runs
  PROVE  /\ run[n] \in Run
         /\ run[n].state \in Kept \cup {"none", "gone"}
         /\ run[n].task \in Tasks
         /\ run[n].started \in 0 .. MaxNow
  BY DEF TypeOK, Run

LEMMA LaunchType ==
  ASSUME TypeOK, NEW w \in Workers, NEW t \in Tasks, NEW by \in {"cron", "trigger"},
         Launch(w, t, by)
  PROVE  worker' \in [Workers -> Worker]
  BY DEF TypeOK, Launch, Worker

LEMMA FinishType ==
  ASSUME TypeOK, NEW w \in Workers, Finish(w)
  PROVE  worker' \in [Workers -> Worker]
  BY RowTypes DEF TypeOK, Finish

LEMMA UpsetType ==
  ASSUME TypeOK, Upset
  PROVE  upsets' \in 0 .. MaxUpsets
  BY TaskRunsAssumption DEF TypeOK, Upset

(* A row that is deleted stays a row. *)
LEMMA GoneType ==
  ASSUME TypeOK, NEW D \in SUBSET Runs,
         run' = [n \in Runs |-> IF n \in D THEN [run[n] EXCEPT !.state = "gone"] ELSE run[n]]
  PROVE  /\ run' \in [Runs -> Run]
         /\ \A n \in Runs : /\ run'[n].task = run[n].task
                            /\ run'[n].started = run[n].started
                            /\ run'[n].state = IF n \in D THEN "gone" ELSE run[n].state
<1>1. \A n \in Runs : [run[n] EXCEPT !.state = "gone"] \in Run
  BY DEF TypeOK, Run
<1>2. \A n \in Runs : run[n] \in Run
  BY DEF TypeOK
<1> QED
  BY <1>1, <1>2 DEF Run

-----------------------------------------------------------------------------
(* Steps that leave the rows, and the goroutines with a row, as they are *)

LEMMA SameRunners ==
  ASSUME IInv, TypeOK',
         run' = run, exists' = exists, now' = now, abandoned' = abandoned,
         \A w \in Workers : /\ Running(w)' <=> Running(w)
                            /\ Running(w) => /\ worker'[w].run = worker[w].run
                                             /\ worker'[w].task = worker[w].task
  PROVE  IInv'
<1>1. RowInv'
  BY DEF IInv, RowInv
<1>2. OwnRow'
  BY DEF IInv, OwnRow
<1>3. Owned'
  BY DEF IInv, Owned
<1>4. HasTask'
  BY DEF IInv, HasTask
<1> QED
  BY <1>1, <1>2, <1>3, <1>4 DEF IInv

LEMMA FireStep ==
  ASSUME IInv, NEW w \in Workers, NEW t \in Tasks, Fire(w, t)
  PROVE  IInv'
<1>1. TypeOK /\ worker \in [Workers -> Worker]
  BY DEF IInv, TypeOK
<1>2. worker' \in [Workers -> Worker]
  BY <1>1, LaunchType DEF Fire
<1>3. TypeOK'
  BY <1>1, <1>2 DEF Fire, TypeOK
<1>4. ~Running(w) /\ ~Running(w)'
  BY <1>1 DEF Fire, At, Running, Launch
<1>5. \A v \in Workers : v # w => worker'[v] = worker[v]
  BY <1>1 DEF Fire, Launch
<1> QED
  BY <1>3, <1>4, <1>5, SameRunners DEF Fire, Running

LEMMA TriggerStep ==
  ASSUME IInv, NEW w \in Workers, NEW t \in Tasks, Trigger(w, t)
  PROVE  IInv'
<1>1. TypeOK /\ worker \in [Workers -> Worker]
  BY DEF IInv, TypeOK
<1>2. worker' \in [Workers -> Worker]
  BY <1>1, LaunchType DEF Trigger
<1>3. now + TriggerGap \in Nat
  BY <1>1, TaskRunsAssumption DEF TypeOK
<1>4. allowed' \in [Tasks -> Nat]
  BY <1>1, <1>3 DEF TypeOK, Trigger
<1>5. TypeOK'
  BY <1>1, <1>2, <1>4 DEF Trigger, TypeOK
<1>6. ~Running(w) /\ ~Running(w)'
  BY <1>1 DEF Trigger, At, Running, Launch
<1>7. \A v \in Workers : v # w => worker'[v] = worker[v]
  BY <1>1 DEF Trigger, Launch
<1> QED
  BY <1>5, <1>6, <1>7, SameRunners DEF Trigger, Running

LEMMA CreateRefusedStep ==
  ASSUME IInv, NEW w \in Workers, CreateRefused(w)
  PROVE  IInv'
<1>1. TypeOK /\ worker \in [Workers -> Worker]
  BY DEF IInv, TypeOK
<1>2. worker' \in [Workers -> Worker]
  BY <1>1, FinishType DEF CreateRefused
<1>3. upsets' \in 0 .. MaxUpsets
  BY <1>1, UpsetType DEF CreateRefused, TypeOK
<1>4. TypeOK'
  BY <1>1, <1>2, <1>3 DEF CreateRefused, TypeOK
<1>5. ~Running(w) /\ ~Running(w)'
  BY <1>1, RowTypes DEF CreateRefused, At, Running, Finish
<1>6. \A v \in Workers : v # w => worker'[v] = worker[v]
  BY <1>1 DEF CreateRefused, Finish
<1> QED
  BY <1>4, <1>5, <1>6, SameRunners DEF CreateRefused, Running

LEMMA AnswerStep ==
  ASSUME IInv, NEW w \in Workers, Answer(w)
  PROVE  IInv'
<1>1. TypeOK /\ worker \in [Workers -> Worker]
  BY DEF IInv, TypeOK
<1>2. PICK verdict \in {"success", "failed"} :
        worker' = [worker EXCEPT ![w].pc = verdict]
  BY DEF Answer
<1>3. worker' \in [Workers -> Worker]
  BY <1>1, <1>2 DEF Worker
<1>4. TypeOK'
  BY <1>1, <1>3 DEF Answer, TypeOK
<1>5. Running(w) /\ Running(w)'
  BY <1>1, <1>2 DEF Answer, At, Running
<1>6. worker'[w].run = worker[w].run /\ worker'[w].task = worker[w].task
  BY <1>1, <1>2 DEF Worker
<1>7. \A v \in Workers : v # w => worker'[v] = worker[v]
  BY <1>1, <1>2
<1> QED
  BY <1>4, <1>5, <1>6, <1>7, SameRunners DEF Answer, Running

LEMMA StopStep ==
  ASSUME IInv, Stop
  PROVE  IInv'
<1>1. TypeOK'
  BY UpsetType DEF IInv, Stop, TypeOK
<1> QED
  BY <1>1, SameRunners DEF Stop, Running

LEMMA StartStep ==
  ASSUME IInv, Start
  PROVE  IInv'
<1>1. TypeOK'
  BY DEF IInv, Start, TypeOK
<1> QED
  BY <1>1, SameRunners DEF Start, Running

-----------------------------------------------------------------------------
(* Steps that write a row *)

LEMMA CreateRunStep ==
  ASSUME IInv, NEW w \in Workers, NEW n \in Runs, CreateRun(w, n)
  PROVE  IInv'
<1> DEFINE row == [state |-> "pending", task |-> worker[w].task, started |-> now]
<1>1. TypeOK /\ worker \in [Workers -> Worker] /\ run \in [Runs -> Run]
  BY DEF IInv, TypeOK
<1>2. worker[w].task \in Tasks /\ now \in 0 .. MaxNow
  BY <1>1, WorkerFields DEF TypeOK
<1>3. /\ row \in Run /\ row.state = "pending"
      /\ row.task = worker[w].task /\ row.started = now
  BY <1>2 DEF Run, Kept
<1>4. run' = [run EXCEPT ![n] = row]
  BY DEF CreateRun
<1> HIDE DEF row
<1>5. run' \in [Runs -> Run] /\ run'[n] = row
  BY <1>1, <1>3, <1>4
<1>6. \A k \in Runs : k # n => run'[k] = run[k]
  BY <1>1, <1>4
<1>7. worker' = [worker EXCEPT ![w].pc = "request", ![w].run = n]
  BY DEF CreateRun
<1>8. worker' \in [Workers -> Worker]
  BY <1>1, <1>7 DEF Worker
<1>9. /\ worker'[w].pc = "request" /\ worker'[w].run = n
      /\ worker'[w].task = worker[w].task
  BY <1>1, <1>7 DEF Worker
<1>10. \A v \in Workers : v # w => worker'[v] = worker[v]
  BY <1>1, <1>7
<1>11. ~Running(w) /\ Running(w)'
  BY <1>9 DEF CreateRun, At, Running
<1>12. \A v \in Workers : v # w => (Running(v)' <=> Running(v))
  BY <1>10 DEF Running
<1>13. /\ run[n].state = "none" /\ worker[w].task \in exists
       /\ exists' = exists /\ now' = now /\ abandoned' = abandoned
  BY DEF CreateRun
<1>14. TypeOK'
  BY <1>1, <1>5, <1>8 DEF CreateRun, TypeOK
<1>15. \A v \in Workers : v # w /\ Running(v) => worker[v].run \in Runs /\ worker[v].run # n
  BY <1>13 DEF IInv, RowInv
<1>16. RowInv'
  <2> SUFFICES ASSUME NEW v \in Workers, Running(v)'
               PROVE  /\ worker'[v].run \in Runs
                      /\ run'[worker'[v].run].task = worker'[v].task
                      /\ run'[worker'[v].run].state \in {"pending", "gone"}
                      /\ worker'[v].task \in exists => run'[worker'[v].run].state = "pending"
                      /\ now <= run'[worker'[v].run].started + Timeout
    BY <1>13 DEF RowInv
  <2>1. CASE v = w
    <3>1. now <= now + Timeout
      BY <1>2, TaskRunsAssumption
    <3> QED
      BY <2>1, <3>1, <1>3, <1>5, <1>9
  <2>2. CASE v # w
    <3>1. Running(v) /\ worker'[v] = worker[v] /\ run'[worker[v].run] = run[worker[v].run]
      BY <2>2, <1>6, <1>10, <1>12, <1>15
    <3> QED
      BY <3>1 DEF IInv, RowInv
  <2> QED
    BY <2>1, <2>2
<1>17. OwnRow'
  BY <1>9, <1>10, <1>12, <1>15 DEF IInv, OwnRow
<1>18. Owned'
  <2> SUFFICES ASSUME NEW k \in Runs, run'[k].state = "pending"
               PROVE  k \in abandoned \/ \E v \in Workers : Running(v)' /\ worker'[v].run = k
    BY <1>13 DEF Owned
  <2>1. CASE k = n
    BY <2>1, <1>9, <1>11
  <2>2. CASE k # n /\ k \notin abandoned
    <3>1. PICK v \in Workers : Running(v) /\ worker[v].run = k
      BY <2>2, <1>6 DEF IInv, Owned
    <3> QED
      BY <3>1, <1>10, <1>11, <1>12
  <2> QED
    BY <2>1, <2>2
<1>19. HasTask'
  BY <1>3, <1>5, <1>6, <1>13 DEF IInv, HasTask
<1> QED
  BY <1>14, <1>16, <1>17, <1>18, <1>19 DEF IInv

(* A verdict replaces the status of the goroutine's own row. *)
LEMMA SettleStep ==
  ASSUME IInv, NEW w \in Workers, Settle(w)
  PROVE  IInv'
<1> DEFINE own == worker[w].run
<1>1. TypeOK /\ worker \in [Workers -> Worker] /\ run \in [Runs -> Run]
  BY DEF IInv, TypeOK
<1>2. Running(w) /\ own \in Runs
  BY DEF Settle, Running, IInv, RowInv
<1>3. run' \in [Runs -> Run] /\ \A k \in Runs : k # own => run'[k] = run[k]
  BY <1>1, <1>2 DEF Settle, Written, Run, Kept
<1>4. /\ run'[own].task = run[own].task
      /\ run'[own].state # "pending"
      /\ run'[own].state \in Kept => run[own].state \in Kept
  BY <1>1, <1>2 DEF Settle, Written, Run, Kept
<1> HIDE DEF own
<1>5. worker' \in [Workers -> Worker] /\ worker' = [worker EXCEPT ![w] = Idle]
  BY <1>1, FinishType DEF Settle, Finish
<1>6. ~Running(w)'
  BY <1>1, <1>5, RowTypes DEF Running
<1>7. \A v \in Workers : v # w => worker'[v] = worker[v]
  BY <1>1, <1>5
<1>8. \A v \in Workers : v # w => (Running(v)' <=> Running(v))
  BY <1>7 DEF Running
<1>9. exists' = exists /\ now' = now /\ abandoned' = abandoned
  BY DEF Settle
<1>10. TypeOK'
  BY <1>1, <1>3, <1>5 DEF Settle, TypeOK
<1>11. \A v \in Workers : v # w /\ Running(v) =>
          worker[v].run \in Runs /\ run'[worker[v].run] = run[worker[v].run]
  BY <1>2, <1>3 DEF IInv, RowInv, OwnRow, own
<1>12. RowInv'
  BY <1>6, <1>7, <1>8, <1>9, <1>11 DEF IInv, RowInv
<1>13. OwnRow'
  BY <1>6, <1>7, <1>8 DEF IInv, OwnRow
<1>14. Owned'
  <2> SUFFICES ASSUME NEW k \in Runs, run'[k].state = "pending"
               PROVE  k \in abandoned \/ \E v \in Workers : Running(v)' /\ worker'[v].run = k
    BY <1>9 DEF Owned
  <2>1. k # own /\ run[k].state = "pending"
    BY <1>3, <1>4
  <2>2. CASE k \notin abandoned
    <3>1. PICK v \in Workers : Running(v) /\ worker[v].run = k
      BY <2>1, <2>2 DEF IInv, Owned
    <3>2. v # w
      BY <2>1, <3>1 DEF own
    <3> QED
      BY <3>1, <3>2, <1>7, <1>8
  <2> QED
    BY <2>2
<1>15. HasTask'
  BY <1>2, <1>3, <1>4, <1>9 DEF IInv, HasTask
<1> QED
  BY <1>10, <1>12, <1>13, <1>14, <1>15 DEF IInv

(* The goroutine ends without its verdict: its run is abandoned. *)
LEMMA SettleFailsStep ==
  ASSUME IInv, NEW w \in Workers, SettleFails(w)
  PROVE  IInv'
<1>1. TypeOK /\ worker \in [Workers -> Worker]
  BY DEF IInv, TypeOK
<1>2. Running(w) /\ worker[w].run \in Runs
  BY DEF SettleFails, Running, IInv, RowInv
<1>3. worker' \in [Workers -> Worker] /\ worker' = [worker EXCEPT ![w] = Idle]
  BY <1>1, FinishType DEF SettleFails, Finish
<1>4. ~Running(w)'
  BY <1>1, <1>3, RowTypes DEF Running
<1>5. \A v \in Workers : v # w => worker'[v] = worker[v]
  BY <1>1, <1>3
<1>6. \A v \in Workers : v # w => (Running(v)' <=> Running(v))
  BY <1>5 DEF Running
<1>7. /\ exists' = exists /\ now' = now /\ run' = run
      /\ abandoned' = abandoned \cup {worker[w].run}
  BY DEF SettleFails
<1>8. upsets' \in 0 .. MaxUpsets
  BY <1>1, UpsetType DEF SettleFails
<1>9. TypeOK'
  BY <1>1, <1>2, <1>3, <1>8 DEF SettleFails, TypeOK
<1>10. RowInv'
  BY <1>4, <1>5, <1>6, <1>7 DEF IInv, RowInv
<1>11. OwnRow'
  BY <1>4, <1>5, <1>6 DEF IInv, OwnRow
<1>12. Owned'
  <2> SUFFICES ASSUME NEW k \in Runs, run[k].state = "pending", k \notin abandoned'
               PROVE  \E v \in Workers : Running(v)' /\ worker'[v].run = k
    BY <1>7 DEF Owned
  <2>1. PICK v \in Workers : Running(v) /\ worker[v].run = k
    BY <1>7 DEF IInv, Owned
  <2> QED
    BY <2>1, <1>5, <1>6, <1>7
<1>13. HasTask'
  BY <1>7 DEF IInv, HasTask
<1> QED
  BY <1>9, <1>10, <1>11, <1>12, <1>13 DEF IInv

-----------------------------------------------------------------------------
(* Steps that delete rows *)

LEMMA DeleteTaskStep ==
  ASSUME IInv, NEW t \in Tasks, DeleteTask(t)
  PROVE  IInv'
<1> DEFINE D == {n \in Runs : run[n].state \in Kept /\ run[n].task = t}
<1>1. run' = [n \in Runs |-> IF n \in D THEN [run[n] EXCEPT !.state = "gone"] ELSE run[n]]
  BY DEF DeleteTask
<1>2. TypeOK /\ D \in SUBSET Runs
  BY DEF IInv
<1>3. \A n \in D : run[n].task = t /\ run[n].state \in Kept
  OBVIOUS
<1>4. \A n \in Runs : n \notin D /\ run[n].state \in Kept => run[n].task # t
  OBVIOUS
<1> HIDE DEF D
<1>5. /\ run' \in [Runs -> Run]
      /\ \A n \in Runs : /\ run'[n].task = run[n].task
                         /\ run'[n].started = run[n].started
                         /\ run'[n].state = IF n \in D THEN "gone" ELSE run[n].state
  BY <1>1, <1>2, GoneType
<1>6. /\ exists' = exists \ {t} /\ worker' = worker /\ now' = now
      /\ abandoned' = abandoned
  BY DEF DeleteTask
<1>7. TypeOK'
  BY <1>2, <1>5, <1>6 DEF DeleteTask, TypeOK
<1>8. \A w \in Workers : Running(w)' <=> Running(w)
  BY <1>6 DEF Running
<1>9. RowInv'
  <2> SUFFICES ASSUME NEW w \in Workers, Running(w)
               PROVE  /\ worker[w].run \in Runs
                      /\ run'[worker[w].run].task = worker[w].task
                      /\ run'[worker[w].run].state \in {"pending", "gone"}
                      /\ worker[w].task \in exists' => run'[worker[w].run].state = "pending"
                      /\ now <= run'[worker[w].run].started + Timeout
    BY <1>6, <1>8 DEF RowInv
  <2>1. /\ worker[w].run \in Runs
        /\ run[worker[w].run].task = worker[w].task
        /\ run[worker[w].run].state \in {"pending", "gone"}
        /\ worker[w].task \in exists => run[worker[w].run].state = "pending"
        /\ now <= run[worker[w].run].started + Timeout
    BY DEF IInv, RowInv
  <2>2. worker[w].task \in exists' => worker[w].run \notin D
    BY <1>3, <1>6, <2>1
  <2> QED
    BY <1>5, <1>6, <2>1, <2>2
<1>10. OwnRow'
  BY <1>6, <1>8 DEF IInv, OwnRow
<1>11. Owned'
  BY <1>5, <1>6, <1>8 DEF IInv, Owned
<1>12. HasTask'
  BY <1>4, <1>5, <1>6 DEF IInv, HasTask, Kept
<1> QED
  BY <1>7, <1>9, <1>10, <1>11, <1>12 DEF IInv

(* A row that the cleanup deletes is older than any goroutine. *)
LEMMA CleanupStep ==
  ASSUME IInv, Cleanup
  PROVE  IInv'
<1>1. TypeOK /\ Old \in SUBSET Runs
  BY DEF IInv, Old
<1>2. run' = [n \in Runs |-> IF n \in Old THEN [run[n] EXCEPT !.state = "gone"] ELSE run[n]]
  BY DEF Cleanup
<1>3. /\ run' \in [Runs -> Run]
      /\ \A n \in Runs : /\ run'[n].task = run[n].task
                         /\ run'[n].started = run[n].started
                         /\ run'[n].state = IF n \in Old THEN "gone" ELSE run[n].state
  BY <1>1, <1>2, GoneType
<1>4. exists' = exists /\ worker' = worker /\ now' = now /\ abandoned' = abandoned
  BY DEF Cleanup
<1>5. TypeOK'
  BY <1>1, <1>3, <1>4 DEF Cleanup, TypeOK
<1>6. \A w \in Workers : Running(w)' <=> Running(w)
  BY <1>4 DEF Running
<1>7. \A w \in Workers : Running(w) => worker[w].run \notin Old
  <2> SUFFICES ASSUME NEW w \in Workers, Running(w), worker[w].run \in Old
               PROVE  FALSE
    OBVIOUS
  <2> DEFINE started == run[worker[w].run].started
  <2>1. worker[w].run \in Runs /\ now <= started + Timeout
    BY DEF IInv, RowInv
  <2>2. started \in Nat /\ now \in Nat
    BY <1>1, <2>1, RunFields DEF TypeOK
  <2>3. started + Retention < now
    BY DEF Old
  <2> QED
    BY <2>1, <2>2, <2>3, TaskRunsAssumption
<1>8. RowInv'
  BY <1>3, <1>4, <1>6, <1>7 DEF IInv, RowInv
<1>9. OwnRow'
  BY <1>4, <1>6 DEF IInv, OwnRow
<1>10. Owned'
  BY <1>3, <1>4, <1>6 DEF IInv, Owned
<1>11. HasTask'
  BY <1>3, <1>4 DEF IInv, HasTask, Kept
<1> QED
  BY <1>5, <1>8, <1>9, <1>10, <1>11 DEF IInv

-----------------------------------------------------------------------------
(* Time, and the end of the process *)

LEMMA TickStep ==
  ASSUME IInv, Tick
  PROVE  IInv'
<1>1. TypeOK /\ now' = now + 1 /\ now < MaxNow
  BY DEF IInv, Tick
<1>2. exists' = exists /\ worker' = worker /\ run' = run /\ abandoned' = abandoned
  BY DEF Tick
<1>3. now' \in 0 .. MaxNow
  BY <1>1, TaskRunsAssumption DEF TypeOK
<1>4. TypeOK'
  BY <1>1, <1>2, <1>3 DEF Tick, TypeOK
<1>5. \A w \in Workers : Running(w)' <=> Running(w)
  BY <1>2 DEF Running
<1>6. \A w \in Workers : Running(w) => now' <= run[worker[w].run].started + Timeout
  <2> SUFFICES ASSUME NEW w \in Workers, Running(w)
               PROVE  now + 1 <= run[worker[w].run].started + Timeout
    BY <1>1
  <2>1. worker[w].run \in Runs
    BY DEF IInv, RowInv
  <2>2. run[worker[w].run].started \in Nat /\ now \in Nat
    BY <1>1, <2>1, RunFields DEF TypeOK
  <2>3. now < run[worker[w].run].started + Timeout
    BY DEF Tick
  <2> QED
    BY <2>2, <2>3, TaskRunsAssumption
<1>7. RowInv'
  BY <1>2, <1>5, <1>6 DEF IInv, RowInv
<1>8. OwnRow' /\ Owned' /\ HasTask'
  BY <1>2, <1>5 DEF IInv, OwnRow, Owned, HasTask
<1> QED
  BY <1>4, <1>7, <1>8 DEF IInv

(* Every run that has a goroutine is abandoned. *)
LEMMA EndStep ==
  ASSUME IInv, NEW lost \in SUBSET Workers, EndWith(lost),
         \A w \in Workers : Running(w) => w \in lost,
         upsets' \in 0 .. MaxUpsets, fired' = fired
  PROVE  IInv'
<1>1. /\ worker' = [w \in Workers |-> Idle]
      /\ abandoned' = abandoned \cup {worker[w].run : w \in {v \in lost : Running(v)}}
      /\ exists' = exists /\ run' = run /\ now' = now /\ allowed' = allowed
      /\ phase' = "down"
  BY DEF EndWith
<1>2. worker' \in [Workers -> Worker]
  BY <1>1, RowTypes
<1>3. \A w \in Workers : ~Running(w)'
  BY <1>1, RowTypes DEF Running
<1>4. abandoned' \subseteq Runs
  BY <1>1 DEF IInv, TypeOK, RowInv
<1>5. TypeOK'
  BY <1>1, <1>2, <1>4 DEF IInv, TypeOK
<1>6. RowInv' /\ OwnRow'
  BY <1>3 DEF RowInv, OwnRow
<1>7. Owned'
  BY <1>1 DEF IInv, Owned
<1>8. HasTask'
  BY <1>1 DEF IInv, HasTask
<1> QED
  BY <1>5, <1>6, <1>7, <1>8 DEF IInv

(* Once Stop has waited for the jobs of cron, only triggers have goroutines. *)
LEMMA ExitStep ==
  ASSUME IInv, Exit
  PROVE  IInv'
<1>1. \A w \in Workers : Running(w) => worker[w].by = "trigger"
  BY DEF Exit, CronDone, Running, Busy
<1>2. upsets' \in 0 .. MaxUpsets /\ fired' = fired
  BY DEF Exit, EndWith, IInv, TypeOK
<1> QED
  BY <1>1, <1>2, EndStep DEF Exit

LEMMA CrashStep ==
  ASSUME IInv, Crash
  PROVE  IInv'
<1>1. upsets' \in 0 .. MaxUpsets /\ fired' = fired
  BY UpsetType DEF Crash, EndWith, IInv
<1> QED
  BY <1>1, EndStep DEF Crash

-----------------------------------------------------------------------------

LEMMA InitHolds == Init => IInv
<1> SUFFICES ASSUME Init PROVE IInv
  OBVIOUS
<1>1. run \in [Runs -> Run] /\ \A n \in Runs : run[n].state = "none"
  BY RowTypes DEF Init, NoRow
<1>2. worker \in [Workers -> Worker] /\ \A w \in Workers : ~Running(w)
  BY RowTypes DEF Init, Running
<1>3. now \in 0 .. MaxNow /\ upsets \in 0 .. MaxUpsets
  BY TaskRunsAssumption DEF Init
<1>4. TypeOK
  BY <1>1, <1>2, <1>3 DEF Init, TypeOK
<1>5. RowInv /\ OwnRow /\ Owned /\ HasTask
  BY <1>1, <1>2 DEF RowInv, OwnRow, Owned, HasTask, Kept
<1> QED
  BY <1>4, <1>5 DEF IInv

LEMMA StutterStep == IInv /\ UNCHANGED vars => IInv'
<1> SUFFICES ASSUME IInv, UNCHANGED vars PROVE IInv'
  OBVIOUS
<1>1. TypeOK'
  BY DEF IInv, TypeOK, vars
<1> QED
  BY <1>1, SameRunners DEF vars, Running

LEMMA NextHolds == IInv /\ [Next]_vars => IInv'
<1> SUFFICES ASSUME IInv, Next PROVE IInv'
  BY StutterStep
<1>1. ASSUME NEW w \in Workers, NEW t \in Tasks, Fire(w, t) \/ Trigger(w, t) PROVE IInv'
  BY <1>1, FireStep, TriggerStep
<1>2. ASSUME NEW w \in Workers, Goroutine(w) PROVE IInv'
  BY <1>2, CreateRunStep, CreateRefusedStep, AnswerStep, SettleStep, SettleFailsStep
     DEF Goroutine
<1>3. ASSUME NEW t \in Tasks, DeleteTask(t) PROVE IInv'
  BY <1>3, DeleteTaskStep
<1> QED
  BY <1>1, <1>2, <1>3, CleanupStep, TickStep, StopStep, ExitStep, CrashStep, StartStep
     DEF Next

THEOREM Invariance == Spec => []IInv
  BY InitHolds, NextHolds, PTL DEF Spec

(* Every variable keeps its type, and every status written to a row is one that   *)
(* the table knows (executeTask, the queries of scheduled_task_runs).             *)
THEOREM TypeCorrect == Spec => []TypeOK
<1>1. IInv => TypeOK
  BY DEF IInv
<1> QED
  BY <1>1, Invariance, PTL

(* For any number of tasks, runs and goroutines, a pending row has exactly one    *)
(* goroutine that will write its verdict, unless the run was abandoned, and every *)
(* row has its task: this needs that the timeout of a task is shorter than the    *)
(* retention, or the cleanup would delete the row of a run (executeTask,          *)
(* TaskDelete, RegisterCleanupJob).                                               *)
THEOREM Ownership == Spec => []RunsOwned
<1>1. IInv => RunsOwned
  BY DEF IInv, RowInv, OwnRow, Owned, HasTask, RunsOwned
<1> QED
  BY <1>1, Invariance, PTL

-----------------------------------------------------------------------------
(* TaskRuns implements RunHistory: every step is one of its steps, or leaves the *)
(* table, the tasks and the time alone.                                          *)

LEMMA SameRuns == History!Runs = Runs
  BY DEF History!Runs, Runs

LEMMA BeginStep ==
  ASSUME IInv, NEW w \in Workers, NEW n \in Runs, CreateRun(w, n)
  PROVE  History!Next
<1>1. worker[w].task \in Tasks
  BY WorkerFields DEF IInv
<1>2. History!Begin(n, worker[w].task)
  BY SameRuns DEF CreateRun, History!Begin
<1> QED
  BY <1>1, <1>2, SameRuns DEF History!Next

(* The UPDATE looks at the id only; that the row is gone, or pending and younger *)
(* than the timeout, is RowInv.                                                  *)
LEMMA ConcludeStep ==
  ASSUME IInv, NEW w \in Workers, Settle(w)
  PROVE  History!Next \/ UNCHANGED History!historyVars
<1> DEFINE own == worker[w].run
           verdict == worker[w].pc
<1>1. /\ own \in Runs /\ run[own].state \in {"pending", "gone"}
      /\ now <= run[own].started + Timeout
      /\ verdict \in {"success", "failed"}
  BY DEF IInv, RowInv, Settle, Running
<1>2. exists' = exists /\ now' = now
  BY DEF Settle
<1>3. CASE run[own].state = "pending"
  <2>1. run' = [run EXCEPT ![own].state = verdict]
    BY <1>3 DEF Settle, Kept, Written
  <2>2. History!Conclude(own, verdict)
    BY <1>1, <1>2, <1>3, <2>1 DEF History!Conclude
  <2> QED
    BY <1>1, <2>2, SameRuns DEF History!Next, History!Verdicts
<1>4. CASE run[own].state = "gone"
  <2>1. run' = run
    BY <1>4 DEF Settle, Kept
  <2> QED
    BY <1>2, <2>1 DEF History!historyVars
<1> QED
  BY <1>1, <1>3, <1>4

LEMMA SameListed ==
  ASSUME NEW n
  PROVE  History!Listed(n) <=> run[n].state \in Kept
  BY DEF History!Listed, History!Verdicts, Kept

LEMMA ForgetStep ==
  ASSUME NEW t \in Tasks, DeleteTask(t)
  PROVE  History!Next
<1> DEFINE D == {n \in Runs : run[n].state \in Kept /\ run[n].task = t}
<1>1. run' = [n \in Runs |-> IF n \in D THEN [run[n] EXCEPT !.state = "gone"] ELSE run[n]]
  BY DEF DeleteTask
<1>2. D = {n \in History!Runs : History!Listed(n) /\ run[n].task = t}
  BY SameRuns, SameListed
<1> HIDE DEF D
<1>3. History!Remove(D)
  BY <1>1, SameRuns DEF History!Remove
<1>4. History!Forget(t)
  BY <1>2, <1>3 DEF DeleteTask, History!Forget
<1> QED
  BY <1>4 DEF History!Next

LEMMA ExpireStep ==
  ASSUME Cleanup
  PROVE  History!Next
<1>1. Old \in SUBSET History!Runs
  BY SameRuns DEF Old
<1>2. \A n \in Old : History!Listed(n) /\ run[n].started + Retention < now
  BY SameListed DEF Old
<1>3. History!Remove(Old)
  BY SameRuns DEF Cleanup, History!Remove
<1>4. History!Expire(Old)
  BY <1>2, <1>3 DEF Cleanup, History!Expire
<1> QED
  BY <1>1, <1>4 DEF History!Next

LEMMA HistoryStep == IInv /\ [Next]_vars => [History!Next]_History!historyVars
<1> SUFFICES ASSUME IInv, [Next]_vars
             PROVE  History!Next \/ UNCHANGED History!historyVars
  OBVIOUS
<1>1. ASSUME NEW w \in Workers, NEW t \in Tasks, Fire(w, t) \/ Trigger(w, t)
      PROVE  UNCHANGED History!historyVars
  BY <1>1 DEF Fire, Trigger, History!historyVars
<1>2. ASSUME NEW w \in Workers, Goroutine(w)
      PROVE  History!Next \/ UNCHANGED History!historyVars
  <2>1. CASE CreateRefused(w) \/ Answer(w) \/ SettleFails(w)
    BY <2>1 DEF CreateRefused, Answer, SettleFails, History!historyVars
  <2>2. CASE \E n \in Runs : CreateRun(w, n)
    BY <2>2, BeginStep
  <2>3. CASE Settle(w)
    BY <2>3, ConcludeStep
  <2> QED
    BY <1>2, <2>1, <2>2, <2>3 DEF Goroutine
<1>3. ASSUME NEW t \in Tasks, DeleteTask(t) PROVE History!Next
  BY <1>3, ForgetStep
<1>4. CASE Cleanup
  BY <1>4, ExpireStep
<1>5. CASE Tick
  BY <1>5 DEF Tick, History!Pass, History!Next
<1>6. CASE Stop \/ Exit \/ Crash \/ Start
  BY <1>6 DEF Stop, Exit, Crash, Start, EndWith, History!historyVars
<1>7. CASE UNCHANGED vars
  BY <1>7 DEF vars, History!historyVars
<1> QED
  BY <1>1, <1>2, <1>3, <1>4, <1>5, <1>6, <1>7 DEF Next

(* Whoever reads the table of runs sees no goroutine: a run of an existing task   *)
(* gets one verdict at most and within its timeout, and its row is removed with   *)
(* its task or when it is old (executeTask, TaskDelete, DeleteAllOldTaskRuns).    *)
THEOREM Refinement == Spec => ImplementsHistory
<1>1. Init => History!Init
  BY SameRuns DEF Init, History!Init
<1> QED
  BY <1>1, HistoryStep, Invariance, PTL DEF Spec, ImplementsHistory, History!Spec

(* What a step of the table leaves of a row that was written. *)
LEMMA RowStands ==
  ASSUME TypeOK, History!Next, NEW n \in Runs
  PROVE  /\ run[n].state \in History!Verdicts => run'[n].state \in {run[n].state, "gone"}
         /\ run[n].state = "gone" => run'[n].state = "gone"
         /\ run[n].state # "none" => /\ run'[n].task = run[n].task
                                     /\ run'[n].started = run[n].started
<1>1. run \in [Runs -> Run] /\ run[n] \in Run
  BY DEF TypeOK
<1>2. ASSUME NEW k \in Runs, NEW t \in Tasks, History!Begin(k, t)
      PROVE  run[n].state # "none" => run'[n] = run[n]
  <2> DEFINE row == [state |-> "pending", task |-> t, started |-> now]
  <2>1. run[k].state = "none" /\ run' = [run EXCEPT ![k] = row]
    BY <1>2 DEF History!Begin
  <2> HIDE DEF row
  <2> QED
    BY <1>1, <2>1
<1>3. ASSUME NEW k \in Runs, NEW verdict \in History!Verdicts, History!Conclude(k, verdict)
      PROVE  /\ run[n].state # "pending" => run'[n] = run[n]
             /\ run'[n].task = run[n].task /\ run'[n].started = run[n].started
  <2>1. run[k].state = "pending" /\ run' = [run EXCEPT ![k].state = verdict]
    BY <1>3 DEF History!Conclude
  <2>2. k # n => run'[n] = run[n]
    BY <1>1, <2>1
  <2>3. k = n => run'[n] = [run[n] EXCEPT !.state = verdict]
    BY <1>1, <2>1
  <2> QED
    BY <1>1, <2>1, <2>2, <2>3 DEF Run
<1>4. ASSUME NEW S, \A k \in S : History!Listed(k), History!Remove(S)
      PROVE  /\ run'[n] = run[n] \/ run'[n].state = "gone"
             /\ run'[n].task = run[n].task /\ run'[n].started = run[n].started
  <2>1. run'[n] = IF n \in S THEN [run[n] EXCEPT !.state = "gone"] ELSE run[n]
    BY <1>4, SameRuns DEF History!Remove
  <2> QED
    BY <1>1, <2>1 DEF Run
<1>5. ASSUME NEW t \in Tasks, History!Forget(t)
      PROVE  /\ run'[n] = run[n] \/ run'[n].state = "gone"
             /\ run'[n].task = run[n].task /\ run'[n].started = run[n].started
  BY <1>4, <1>5 DEF History!Forget
<1>6. ASSUME NEW S \in SUBSET Runs, History!Expire(S)
      PROVE  /\ run'[n] = run[n] \/ run'[n].state = "gone"
             /\ run'[n].task = run[n].task /\ run'[n].started = run[n].started
  BY <1>4, <1>6 DEF History!Expire
<1>7. CASE History!Pass
  BY <1>7 DEF History!Pass
<1> QED
  BY <1>2, <1>3, <1>5, <1>6, <1>7, SameRuns DEF History!Next, History!Verdicts

(* A verdict that was written stands until its row is removed, no row returns, *)
(* and none changes its task or its start (executeTask, the queries on         *)
(* scheduled_task_runs).                                                       *)
THEOREM VerdictsStand == Spec => History!HistoryStands
<1> DEFINE Stands == \A n \in History!Runs :
             /\ run[n].state \in History!Verdicts => run'[n].state \in {run[n].state, "gone"}
             /\ run[n].state = "gone" => run'[n].state = "gone"
             /\ run[n].state # "none" => /\ run'[n].task = run[n].task
                                         /\ run'[n].started = run[n].started
<1>1. IInv /\ [Next]_vars => [Stands]_History!historyVars
  <2> SUFFICES ASSUME IInv, History!Next PROVE Stands
    BY HistoryStep
  <2> QED
    BY RowStands, SameRuns DEF IInv
<1> QED
  BY <1>1, Invariance, PTL DEF Spec, History!HistoryStands

=============================================================================

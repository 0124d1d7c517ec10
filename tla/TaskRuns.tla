------------------------------- MODULE TaskRuns -------------------------------
(***************************************************************************)
(* The runs of scheduled tasks: executeTask, TriggerTask and the cleanup   *)
(* job of internal/scheduler/task_executor.go, with their rows in          *)
(* scheduled_task_runs, the end of the process and its start.              *)
(*                                                                         *)
(* A run is a goroutine of cron or of a trigger: it inserts its row as     *)
(* pending, waits for the answer of the task's URL and writes the verdict  *)
(* to the row.  Its task may be deleted meanwhile, which deletes its rows  *)
(* too, and nothing waits for the runs of a trigger when the process ends. *)
(* Which cron entries a task has is the subject of SchedulerTasks: here an *)
(* entry may fire for any task, even one whose row is gone.                *)
(***************************************************************************)
EXTENDS Naturals, FiniteSets

CONSTANTS
  Tasks,       \* ids of tasks
  Workers,     \* bound: goroutines that run tasks
  MaxRuns,     \* bound: runs
  Timeout,     \* the longest time from the row of a run to its verdict
  Retention,   \* age at which the cleanup job deletes a row
  TriggerGap,  \* time between two triggers of a task
  MaxNow,      \* bound: time
  MaxUpsets    \* bound: ends of the process and failed statements

Runs == 1 .. MaxRuns
NoRun == 0

ASSUME TaskRunsAssumption ==
  /\ Tasks # {}
  /\ MaxRuns \in Nat /\ MaxNow \in Nat /\ MaxUpsets \in Nat
  /\ Timeout \in Nat /\ TriggerGap \in Nat
  /\ Retention \in Nat /\ Timeout < Retention

VARIABLES
  exists,    \* tasks with a row in scheduled_tasks
  run,       \* the table scheduled_task_runs
  worker,    \* what a goroutine is doing
  allowed,   \* triggerLimiters: when a task may be triggered again
  fired,     \* tasks that cron has fired at this time
  phase,     \* of the process
  now,
  upsets,
  abandoned  \* history: runs that lost their goroutine or their verdict

vars == <<exists, run, worker, allowed, fired, phase, now, upsets, abandoned>>

Kept == {"pending", "success", "failed"}
Run == [state : Kept \cup {"none", "gone"}, task : Tasks, started : 0 .. MaxNow]
Worker == [pc : {"idle", "create", "request", "success", "failed"}, task : Tasks,
           run : Runs \cup {NoRun}, by : {"cron", "trigger"}]

SomeTask == CHOOSE t \in Tasks : TRUE
NoRow == [state |-> "none", task |-> SomeTask, started |-> 0]
Idle == [pc |-> "idle", task |-> SomeTask, run |-> NoRun, by |-> "cron"]

Init ==
  /\ exists = Tasks
  /\ run = [n \in Runs |-> NoRow]
  /\ worker = [w \in Workers |-> Idle]
  /\ allowed = [t \in Tasks |-> 0]
  /\ fired = {}
  /\ phase = "up"
  /\ now = 0
  /\ upsets = 0
  /\ abandoned = {}

-----------------------------------------------------------------------------
At(w, pc) == worker[w].pc = pc
Finish(w) == worker' = [worker EXCEPT ![w] = Idle]
Launch(w, t, by) == worker' = [worker EXCEPT ![w] =
                      [pc |-> "create", task |-> t, run |-> NoRun, by |-> by]]

Upset == upsets < MaxUpsets /\ upsets' = upsets + 1

(* A goroutine that has a row to write a verdict to. *)
Running(w) == worker[w].pc \in {"request", "success", "failed"}
Busy(w) == worker[w].pc # "idle"

(* The bounds: a row for every run, and time for the row to grow old. *)
Room ==
  /\ now + Retention < MaxNow
  /\ Cardinality({w \in Workers : At(w, "create")}) < Cardinality({n \in Runs : run[n].state = "none"})

(* An entry of cron fires, once at a time; it has the task as it was when it was *)
(* added.                                                                       *)
Fire(w, t) ==
  /\ phase = "up" /\ Room
  /\ At(w, "idle")
  /\ t \notin fired
  /\ fired' = fired \cup {t}
  /\ Launch(w, t, "cron")
  /\ UNCHANGED <<exists, run, allowed, phase, now, upsets, abandoned>>

(* TriggerTask: the limiter counts a trigger even if the task is not found. *)
Trigger(w, t) ==
  /\ phase # "down" /\ Room
  /\ At(w, "idle")
  /\ now >= allowed[t]
  /\ allowed' = [allowed EXCEPT ![t] = now + TriggerGap]
  /\ IF t \in exists THEN Launch(w, t, "trigger") ELSE UNCHANGED worker
  /\ UNCHANGED <<exists, run, fired, phase, now, upsets, abandoned>>

(* executeTask: the INSERT gives the run the next id. *)
CreateRun(w, n) ==
  /\ At(w, "create")
  /\ run[n].state = "none" /\ \A k \in Runs : k < n => run[k].state # "none"
  /\ worker[w].task \in exists
  /\ run' = [run EXCEPT ![n] = [state |-> "pending", task |-> worker[w].task,
                                started |-> now]]
  /\ worker' = [worker EXCEPT ![w].pc = "request", ![w].run = n]
  /\ UNCHANGED <<exists, allowed, fired, phase, now, upsets, abandoned>>

(* The INSERT fails: the foreign key of the row, or the database. *)
CreateRefused(w) ==
  /\ At(w, "create")
  /\ \/ worker[w].task \notin exists /\ UNCHANGED upsets
     \/ Upset
  /\ Finish(w)
  /\ UNCHANGED <<exists, run, allowed, fired, phase, now, abandoned>>

(* executeTask: an answer, or any of its errors - the URL, the request, the time *)
(* it took, the body.                                                            *)
Answer(w) ==
  /\ At(w, "request")
  /\ \E verdict \in {"success", "failed"} :
        worker' = [worker EXCEPT ![w].pc = verdict]
  /\ UNCHANGED <<exists, run, allowed, fired, phase, now, upsets, abandoned>>

(* Seeded fault: a failure is written as a status that the table does not know. *)
WrittenAsError(verdict) == IF verdict = "failed" THEN "error" ELSE verdict

Written(verdict) == verdict

(* UpdateScheduledTaskRunSuccess, UpdateScheduledTaskRunFailed: by id; no row *)
(* is no error.                                                               *)
Settle(w) ==
  LET n == worker[w].run IN
  /\ worker[w].pc \in {"success", "failed"}
  /\ IF run[n].state \in Kept
     THEN run' = [run EXCEPT ![n].state = Written(worker[w].pc)]
     ELSE UNCHANGED run
  /\ Finish(w)
  /\ UNCHANGED <<exists, allowed, fired, phase, now, upsets, abandoned>>

(* The UPDATE fails: it is logged and the run stays pending. *)
SettleFails(w) ==
  /\ worker[w].pc \in {"success", "failed"}
  /\ Upset
  /\ abandoned' = abandoned \cup {worker[w].run}
  /\ Finish(w)
  /\ UNCHANGED <<exists, run, allowed, fired, phase, now>>

(* TaskDelete: the rows of its runs go with the row of the task. *)
DeleteTask(t) ==
  /\ phase # "down"
  /\ t \in exists
  /\ exists' = exists \ {t}
  /\ run' = [n \in Runs |-> IF run[n].state \in Kept /\ run[n].task = t
                            THEN [run[n] EXCEPT !.state = "gone"] ELSE run[n]]
  /\ UNCHANGED <<worker, allowed, fired, phase, now, upsets, abandoned>>

(* Seeded fault: the cleanup spares runs that are pending. *)
OldAndSettled == {n \in Runs : run[n].state \in {"success", "failed"}
                               /\ run[n].started + Retention < now}

(* DeleteAllOldTaskRuns: whatever the status. *)
Old == {n \in Runs : run[n].state \in Kept /\ run[n].started + Retention < now}

(* RegisterCleanupJob: the job of cron, or a trigger of it. *)
Cleanup ==
  /\ phase = "up"
  /\ Old # {}
  /\ run' = [n \in Runs |-> IF n \in Old THEN [run[n] EXCEPT !.state = "gone"] ELSE run[n]]
  /\ UNCHANGED <<exists, worker, allowed, fired, phase, now, upsets, abandoned>>

(* Seeded fault: a request without a timeout. *)
TickWithoutTimeout ==
  /\ now < MaxNow
  /\ \A w \in Workers : ~At(w, "create")
  /\ now' = now + 1
  /\ fired' = {}
  /\ UNCHANGED <<exists, run, worker, allowed, phase, upsets, abandoned>>

(* Time does not pass the timeout of a run. *)
Tick ==
  /\ now < MaxNow
  /\ \A w \in Workers : /\ ~At(w, "create")
                        /\ Running(w) => now < run[worker[w].run].started + Timeout
  /\ now' = now + 1
  /\ fired' = {}
  /\ UNCHANGED <<exists, run, worker, allowed, phase, upsets, abandoned>>

-----------------------------------------------------------------------------
(* The process *)

(* Seeded fault: Stop does not wait for the jobs of cron. *)
WaitsForNone == TRUE

CronDone == \A w \in Workers : Busy(w) => worker[w].by = "trigger"

(* Scheduler.Stop: cron fires no more. *)
Stop ==
  /\ phase = "up"
  /\ Upset
  /\ phase' = "stopping"
  /\ UNCHANGED <<exists, run, worker, allowed, fired, now, abandoned>>

(* The goroutines end with the process. *)
EndWith(lost) ==
  /\ phase' = "down"
  /\ worker' = [w \in Workers |-> Idle]
  /\ abandoned' = abandoned \cup {worker[w].run : w \in {v \in lost : Running(v)}}
  /\ UNCHANGED <<exists, run, allowed, fired, now>>

(* Stop has waited for the jobs of cron, and main returns. *)
Exit ==
  /\ phase = "stopping"
  /\ CronDone
  /\ EndWith({w \in Workers : worker[w].by = "trigger"})
  /\ UNCHANGED upsets

Crash ==
  /\ phase # "down"
  /\ Upset
  /\ EndWith(Workers)

(* The limiters are new.  No run of the last process is looked at. *)
Start ==
  /\ phase = "down"
  /\ phase' = "up"
  /\ allowed' = [t \in Tasks |-> 0]
  /\ UNCHANGED <<exists, run, worker, fired, now, upsets, abandoned>>

Goroutine(w) ==
  \/ \E n \in Runs : CreateRun(w, n)
  \/ CreateRefused(w)
  \/ Answer(w)
  \/ Settle(w)
  \/ SettleFails(w)

Next ==
  \/ \E w \in Workers, t \in Tasks : Fire(w, t) \/ Trigger(w, t)
  \/ \E w \in Workers : Goroutine(w)
  \/ \E t \in Tasks : DeleteTask(t)
  \/ Cleanup
  \/ Tick
  \/ Stop \/ Exit \/ Crash \/ Start

(* A goroutine goes on, the answer of a request or its timeout comes, time  *)
(* passes; main returns when Stop does, the process is started again, and   *)
(* the cleanup job runs every day.                                          *)
Fairness ==
  /\ \A w \in Workers : WF_vars(Goroutine(w))
  /\ WF_vars(Tick) /\ WF_vars(Exit) /\ WF_vars(Start) /\ WF_vars(Cleanup)

Spec == Init /\ [][Next]_vars /\ Fairness

-----------------------------------------------------------------------------
(* Type correctness of every variable, with the statuses that the table knows. *)
TypeOK ==
  /\ exists \subseteq Tasks
  /\ run \in [Runs -> Run]
  /\ worker \in [Workers -> Worker]
  /\ allowed \in [Tasks -> Nat]
  /\ fired \subseteq Tasks
  /\ phase \in {"up", "stopping", "down"}
  /\ now \in 0 .. MaxNow
  /\ upsets \in 0 .. MaxUpsets
  /\ abandoned \subseteq Runs

(* A row is pending exactly while one goroutine is going to write its verdict -   *)
(* whatever is deleted, cleaned up or run besides - unless the process crashed,   *)
(* the verdict could not be written, or Stop did not wait for a trigger; a row    *)
(* has a task (executeTask, TaskDelete, RegisterCleanupJob, Stop).                *)
RunsOwned ==
  /\ \A n \in Runs : run[n].state = "pending" =>
        n \in abandoned \/ \E w \in Workers : Running(w) /\ worker[w].run = n
  /\ \A w \in Workers : Running(w) /\ worker[w].task \in exists =>
        /\ run[worker[w].run].state = "pending"
        /\ run[worker[w].run].task = worker[w].task
  /\ \A v, w \in Workers : v # w /\ Running(v) /\ Running(w) => worker[v].run # worker[w].run
  /\ \A n \in Runs : run[n].state \in Kept => run[n].task \in exists

(* No row stays pending for ever: its verdict comes, or it is deleted - even a    *)
(* row that lost its goroutine, though nobody looks for those at the start, since *)
(* the cleanup job deletes old rows whatever their status (executeTask,           *)
(* DeleteAllOldTaskRuns).                                                         *)
NothingPendingForever ==
  \A n \in Runs : run[n].state = "pending" ~> run[n].state # "pending"

(* To a reader of the table goroutines, cron, triggers and the process do not     *)
(* exist: a run of an existing task gets one verdict at most, within its timeout, *)
(* which stands - though the UPDATE of a verdict looks at neither status nor time *)
(* - and a row is removed with its task or after the retention (executeTask,      *)
(* TaskDelete, DeleteAllOldTaskRuns).                                             *)
History == INSTANCE RunHistory
ImplementsHistory == History!Spec
=============================================================================

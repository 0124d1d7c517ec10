------------------------------ MODULE RunHistory ------------------------------
(***************************************************************************)
(* The table scheduled_task_runs as an administrator reads it, with no     *)
(* goroutines, no cron and no process.  TaskRuns implements it.            *)
(*                                                                         *)
(* A run begins for a task that exists (Begin), gets one verdict, and that *)
(* within the timeout (Conclude), and its row is there until its task goes *)
(* (Forget) or it is older than the retention (Expire).                    *)
(***************************************************************************)
EXTENDS Naturals

CONSTANTS
  Tasks,      \* ids of tasks
  MaxRuns,    \* ids of runs are 1 .. MaxRuns
  Timeout,    \* the longest time from the row of a run to its verdict
  Retention,  \* age at which a row may be removed
  MaxNow,     \* bound: time
  NoRow       \* the entry of a run that has not begun

Runs == 1 .. MaxRuns
Verdicts == {"success", "failed"}

VARIABLES
  exists,  \* the tasks there are
  run,     \* the rows: state, task and time of the start of a run
  now

historyVars == <<exists, run, now>>

Init ==
  /\ exists = Tasks
  /\ run = [n \in Runs |-> NoRow]
  /\ now = 0

Listed(n) == run[n].state \in {"pending"} \cup Verdicts

Remove(S) == run' = [n \in Runs |-> IF n \in S THEN [run[n] EXCEPT !.state = "gone"] ELSE run[n]]

(* Runs are numbered in the order in which they begin. *)
Begin(n, t) ==
  /\ run[n].state = "none" /\ \A k \in Runs : k < n => run[k].state # "none"
  /\ t \in exists
  /\ run' = [run EXCEPT ![n] = [state |-> "pending", task |-> t, started |-> now]]
  /\ UNCHANGED <<exists, now>>

(* One verdict, while it is awaited. *)
Conclude(n, verdict) ==
  /\ run[n].state = "pending"
  /\ now <= run[n].started + Timeout
  /\ run' = [run EXCEPT ![n].state = verdict]
  /\ UNCHANGED <<exists, now>>

(* A task takes its runs with it, and no other. *)
Forget(t) ==
  /\ t \in exists
  /\ exists' = exists \ {t}
  /\ Remove({n \in Runs : Listed(n) /\ run[n].task = t})
  /\ UNCHANGED now

Expire(S) ==
  /\ \A n \in S : Listed(n) /\ run[n].started + Retention < now
  /\ Remove(S)
  /\ UNCHANGED <<exists, now>>

Pass ==
  /\ now' = now + 1
  /\ UNCHANGED <<exists, run>>

Next ==
  \/ \E n \in Runs :
       \/ \E t \in Tasks : Begin(n, t)
       \/ \E verdict \in Verdicts : Conclude(n, verdict)
  \/ \E t \in Tasks : Forget(t)
  \/ \E S \in SUBSET Runs : Expire(S)
  \/ Pass

Spec == Init /\ [][Next]_historyVars

(* A verdict that was written stands as long as the row does, and so does what the *)
(* row says of its task and its start; a row that is gone does not return.         *)
HistoryStands ==
  [][\A n \in Runs :
       /\ run[n].state \in Verdicts => run'[n].state \in {run[n].state, "gone"}
       /\ run[n].state = "gone" => run'[n].state = "gone"
       /\ run[n].state # "none" => /\ run'[n].task = run[n].task
                                   /\ run'[n].started = run[n].started]_historyVars

=============================================================================

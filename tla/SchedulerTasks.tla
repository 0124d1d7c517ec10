---------------------------- MODULE SchedulerTasks ----------------------------
(***************************************************************************)
(* Scheduled tasks of the administrator and the overrides of their         *)
(* schedules: internal/scheduler/task_executor.go and registry.go, driven  *)
(* by the handlers of internal/handler/scheduler.go.                       *)
(*                                                                         *)
(* Four places know of a task: its row in scheduled_tasks, the cron        *)
(* instance, TaskExecutor.taskEntries and Registry.jobs, besides a row in  *)
(* scheduler_overrides.  A handler changes them one after another, under   *)
(* three mutexes and none that spans them; handlers run concurrently.      *)
(* A step is one statement or what happens under one of the mutexes.       *)
(*                                                                         *)
(* Of a task's data only the schedule is kept: it stands for the name and  *)
(* the URL as well, which a cron entry captures when it is added.          *)
(***************************************************************************)
EXTENDS Integers, FiniteSets

CONSTANTS
  MaxTasks,    \* bound: tasks ever created
  Requests,    \* goroutines that serve the administrators
  Schedules,   \* cron expressions
  MaxOps,      \* bound: requests
  MaxUpsets    \* bound: restarts, and statements that fail between them

ASSUME SchedulerAssumption ==
  /\ MaxTasks \in Nat
  /\ MaxOps \in Nat
  /\ MaxUpsets \in Nat
  /\ Schedules # {}

Tasks == 1..MaxTasks
NoEntry == 0
Unset == "unset"
ASSUME UnsetAssumption == Unset \notin Schedules

SomeSchedule == CHOOSE s \in Schedules : TRUE

VARIABLES
  row,         \* of a task: "new" before it exists, active, inactive, deleted
  spec,        \* the schedule in that row
  override,    \* the row of scheduler_overrides, or Unset
  entries,     \* the entries of the cron instance
  nextEntry,   \* the next cron.EntryID
  taskEntry,   \* TaskExecutor.taskEntries, or NoEntry
  job,         \* Registry.jobs; a job without an entry is not registered
  req,         \* what a request is doing
  ops,         \* number of requests so far
  upsets,      \* number of restarts and failures so far
  clashed,     \* history: tasks two handlers worked on at once since the start,
  failed       \* history: and those a statement failed for, in the start or since

tableVars == <<row, spec, override>>
cronVars == <<entries, nextEntry>>
historyVars == <<ops, upsets, clashed, failed>>
vars == <<tableVars, cronVars, taskEntry, job, req, historyVars>>

Entry(id, t, s, data) == [id |-> id, task |-> t, spec |-> s, data |-> data]

Unregistered ==
  [entry |-> NoEntry, default |-> SomeSchedule, schedule |-> SomeSchedule]

Idle == [pc |-> "idle", task |-> 1, then |-> "end", data |-> SomeSchedule,
         effective |-> SomeSchedule, entry |-> NoEntry]

Init ==
  /\ row = [t \in Tasks |-> "new"]
  /\ spec = [t \in Tasks |-> SomeSchedule]
  /\ override = [t \in Tasks |-> Unset]
  /\ entries = {}
  /\ nextEntry = MaxTasks + 1
  /\ taskEntry = [t \in Tasks |-> NoEntry]
  /\ job = [t \in Tasks |-> Unregistered]
  /\ req = [r \in Requests |-> Idle]
  /\ ops = 0
  /\ upsets = 0
  /\ clashed = {}
  /\ failed = {}

-----------------------------------------------------------------------------
(* Helpers *)

Exists(t) == row[t] \in {"active", "inactive"}
Registered(t) == job[t].entry # NoEntry
Busy(r, t) == req[r].pc # "idle" /\ req[r].task = t
Quiet(t) == \A r \in Requests : ~Busy(r, t)

(* GetEffectiveSchedule: the override if there is one, else the default. *)
Effective(t, default) == IF override[t] = Unset THEN default ELSE override[t]

At(r, pc) == req[r].pc = pc
Goto(r, pc) == req' = [req EXCEPT ![r] = [@ EXCEPT !.pc = pc]]
Finish(r) == req' = [req EXCEPT ![r] = Idle]

(* A handler starts on task t, and may be over at once. *)
Begin(r, t, pc, then, data) ==
  /\ At(r, "idle")
  /\ ops < MaxOps
  /\ ops' = ops + 1
  /\ clashed' = IF Quiet(t) THEN clashed ELSE clashed \cup {t}
  /\ IF pc = "idle"
     THEN UNCHANGED req
     ELSE req' = [req EXCEPT ![r] =
            [pc |-> pc, task |-> t, then |-> then, data |-> data,
             effective |-> SomeSchedule, entry |-> NoEntry]]
  /\ UNCHANGED <<upsets, failed>>

(* A statement for task t fails. *)
Fails(t) ==
  /\ upsets < MaxUpsets
  /\ upsets' = upsets + 1
  /\ failed' = failed \cup {t}
  /\ UNCHANGED <<ops, clashed>>

-----------------------------------------------------------------------------
(* The handlers *)

(* TaskCreate: INSERT, then AddTask. *)
TaskCreate(r, t) ==
  /\ row[t] = "new"
  /\ \E s \in Schedules :
        /\ row' = [row EXCEPT ![t] = "active"]
        /\ spec' = [spec EXCEPT ![t] = s]
        /\ Begin(r, t, "effective", "end", s)
  /\ UNCHANGED <<override, cronVars, taskEntry, job>>

(* TaskUpdate: UPDATE ... RETURNING, then RescheduleTask if the task is active. *)
TaskUpdate(r, t) ==
  /\ Exists(t)
  /\ \E s \in Schedules :
        /\ spec' = [spec EXCEPT ![t] = s]
        /\ Begin(r, t, IF row[t] = "active" THEN "remove" ELSE "idle", "add", s)
  /\ UNCHANGED <<row, override, cronVars, taskEntry, job>>

(* TaskToggle reads is_active ... *)
TaskToggle(r, t) ==
  /\ Exists(t)
  /\ Begin(r, t, IF row[t] = "active" THEN "disable" ELSE "enable", "end",
           SomeSchedule)
  /\ UNCHANGED <<tableVars, cronVars, taskEntry, job>>

(* ... and writes the opposite, whatever the row says by now; no row is an
   error.  Then AddTask or RemoveTask. *)
ToggleWrite(r) ==
  LET t == req[r].task IN
  /\ At(r, "enable") \/ At(r, "disable")
  /\ IF Exists(t)
     THEN /\ row' = [row EXCEPT ![t] =
                       IF At(r, "enable") THEN "active" ELSE "inactive"]
          /\ req' = [req EXCEPT ![r] =
                       [@ EXCEPT !.pc = IF At(r, "enable") THEN "effective" ELSE "remove",
                                 !.data = spec[t]]]
     ELSE Finish(r) /\ UNCHANGED row
  /\ UNCHANGED <<spec, override, cronVars, taskEntry, job, historyVars>>

(* TaskDelete reads the row, calls RemoveTask ... *)
TaskDelete(r, t) ==
  /\ Exists(t)
  /\ Begin(r, t, "remove", "delete", SomeSchedule)
  /\ UNCHANGED <<tableVars, cronVars, taskEntry, job>>

(* ... and deletes the row; should that fail, the task stays without a job. *)
DeleteRow(r) ==
  LET t == req[r].task IN
  /\ At(r, "delete")
  /\ \/ row' = [row EXCEPT ![t] = "deleted"] /\ UNCHANGED historyVars
     \/ Fails(t) /\ UNCHANGED row
  /\ Finish(r)
  /\ UNCHANGED <<spec, override, cronVars, taskEntry, job>>

-----------------------------------------------------------------------------
(* RemoveTask *)

(* Under te.mu: the entry the executor knows of goes. *)
RemoveEntry(r) ==
  LET t == req[r].task IN
  /\ At(r, "remove")
  /\ entries' = {e \in entries : e.id # taskEntry[t]}
  /\ taskEntry' = [taskEntry EXCEPT ![t] = NoEntry]
  /\ Goto(r, "unregister")
  /\ UNCHANGED <<tableVars, nextEntry, job, historyVars>>

(* RescheduleTask goes on to scheduleTask, TaskDelete to the row. *)
AfterRemoval(r) ==
  \/ req[r].then = "add" /\ Goto(r, "effective")
  \/ req[r].then = "delete" /\ Goto(r, "delete")
  \/ req[r].then = "end" /\ Finish(r)

(* Seeded fault: the entry that a changed override left behind stays. *)
UnregisterJobOnly(r) ==
  LET t == req[r].task IN
  /\ At(r, "unregister")
  /\ IF Registered(t)
     THEN /\ job' = [job EXCEPT ![t] = Unregistered]
          /\ \/ override' = [override EXCEPT ![t] = Unset] /\ UNCHANGED historyVars
             \/ Fails(t) /\ UNCHANGED override
     ELSE UNCHANGED <<job, override, historyVars>>
  /\ AfterRemoval(r)
  /\ UNCHANGED <<row, spec, entries, nextEntry, taskEntry>>

(* Registry.Unregister, under r.mu: the entry the registry knows of goes, and
   the override with it. *)
Unregister(r) ==
  LET t == req[r].task IN
  /\ At(r, "unregister")
  /\ IF Registered(t)
     THEN /\ entries' = {e \in entries : e.id # job[t].entry}
          /\ job' = [job EXCEPT ![t] = Unregistered]
          /\ \/ override' = [override EXCEPT ![t] = Unset] /\ UNCHANGED historyVars
             \/ Fails(t) /\ UNCHANGED override
     ELSE UNCHANGED <<entries, job, override, historyVars>>
  /\ AfterRemoval(r)
  /\ UNCHANGED <<row, spec, nextEntry, taskEntry>>

-----------------------------------------------------------------------------
(* scheduleTask *)

(* A failed query counts as no override. *)
ReadEffective(r) ==
  LET t == req[r].task
      Take(s) == req' = [req EXCEPT ![r] = [@ EXCEPT !.pc = "cron", !.effective = s]]
  IN /\ At(r, "effective")
     /\ \/ Take(Effective(t, req[r].data)) /\ UNCHANGED historyVars
        \/ Take(req[r].data) /\ Fails(t)
     /\ UNCHANGED <<tableVars, cronVars, taskEntry, job>>

(* cron.AddFunc, with the task captured as the handler has it. *)
AddEntry(r) ==
  /\ At(r, "cron")
  /\ entries' = entries \cup
       {Entry(nextEntry, req[r].task, req[r].effective, req[r].data)}
  /\ nextEntry' = nextEntry + 1
  /\ req' = [req EXCEPT ![r] = [@ EXCEPT !.pc = "keep", !.entry = nextEntry]]
  /\ UNCHANGED <<tableVars, taskEntry, job, historyVars>>

KeepEntry(r) ==
  /\ At(r, "keep")
  /\ taskEntry' = [taskEntry EXCEPT ![req[r].task] = req[r].entry]
  /\ Goto(r, "register")
  /\ UNCHANGED <<tableVars, cronVars, job, historyVars>>

(* Registry.Register, under r.mu; the override is read a second time. *)
Register(r) ==
  LET t == req[r].task
      Take(s) == job' = [job EXCEPT ![t] =
                   [entry |-> req[r].entry, default |-> req[r].data, schedule |-> s]]
  IN /\ At(r, "register")
     /\ \/ Take(Effective(t, req[r].data)) /\ UNCHANGED historyVars
        \/ Take(req[r].data) /\ Fails(t)
     /\ Finish(r)
     /\ UNCHANGED <<tableVars, cronVars, taskEntry>>

-----------------------------------------------------------------------------
(* Registry.UpdateSchedule and ResetSchedule, each under r.mu as a whole *)

(* The job of task t gets a new cron entry with schedule s. *)
Replace(t, s) ==
  /\ entries' = {e \in entries : e.id # job[t].entry} \cup
       {Entry(nextEntry, t, s, job[t].default)}
  /\ nextEntry' = nextEntry + 1
  /\ job' = [job EXCEPT ![t] = [@ EXCEPT !.entry = nextEntry, !.schedule = s]]

(* Counts as a request, and as one that does not disturb the handlers. *)
Override ==
  /\ ops < MaxOps
  /\ ops' = ops + 1
  /\ UNCHANGED clashed

(* Saving the override, or removing it, may fail without an effect on the rest. *)
Save(t, s) ==
  \/ override' = [override EXCEPT ![t] = s] /\ UNCHANGED <<upsets, failed>>
  \/ /\ upsets < MaxUpsets
     /\ upsets' = upsets + 1
     /\ failed' = failed \cup {t}
     /\ UNCHANGED override

(* Seeded fault: the expression is not parsed first. *)
UpdateScheduleUnparsed(t) ==
  /\ Registered(t)
  /\ Override
  /\ \E s \in Schedules \cup {Unset} : Replace(t, s) /\ Save(t, s)
  /\ UNCHANGED <<row, spec, taskEntry, req>>

UpdateSchedule(t) ==
  /\ Registered(t)
  /\ Override
  /\ \E s \in Schedules : Replace(t, s) /\ Save(t, s)
  /\ UNCHANGED <<row, spec, taskEntry, req>>

(* Seeded fault: the override is left in the table. *)
ResetScheduleInMemory(t) ==
  /\ Registered(t)
  /\ job[t].schedule # job[t].default
  /\ Override
  /\ Replace(t, job[t].default)
  /\ UNCHANGED <<row, spec, override, taskEntry, req, upsets, failed>>

(* Nothing happens when the schedule is the default one already. *)
ResetSchedule(t) ==
  /\ Registered(t)
  /\ job[t].schedule # job[t].default
  /\ Override
  /\ Replace(t, job[t].default)
  /\ Save(t, Unset)
  /\ UNCHANGED <<row, spec, taskEntry, req>>

-----------------------------------------------------------------------------
(* The process ends and starts again, and LoadAndScheduleAll runs before any
   request is served.  Entry ids are only compared, so those of the tasks will do.

   The query for the tasks may fail (~listed): the error is logged and the server
   goes on without an entry.  The override of a task is read twice, for cron and
   for the registry, and a failed read counts as no override: cronRead and jobRead
   are the tasks that are read. *)

Active == {t \in Tasks : row[t] = "active"}

(* Seeded fault: the overrides are not looked up at startup. *)
LoadWithDefaults(listed, cronRead, jobRead) ==
  LET loaded == IF listed THEN Active ELSE {}
  IN /\ entries' = {Entry(t, t, spec[t], spec[t]) : t \in loaded}
     /\ taskEntry' = [t \in Tasks |-> IF t \in loaded THEN t ELSE NoEntry]
     /\ job' = [t \in Tasks |-> IF t \in loaded
                  THEN [entry |-> t, default |-> spec[t], schedule |-> spec[t]]
                  ELSE Unregistered]
     /\ failed' = {t \in Active : ~listed \/ t \notin cronRead \cap jobRead}

LoadAndScheduleAll(listed, cronRead, jobRead) ==
  LET loaded == IF listed THEN Active ELSE {}
      Read(t, done) == IF t \in done THEN Effective(t, spec[t]) ELSE spec[t]
  IN /\ entries' = {Entry(t, t, Read(t, cronRead), spec[t]) : t \in loaded}
     /\ taskEntry' = [t \in Tasks |-> IF t \in loaded THEN t ELSE NoEntry]
     /\ job' = [t \in Tasks |-> IF t \in loaded
                  THEN [entry |-> t, default |-> spec[t], schedule |-> Read(t, jobRead)]
                  ELSE Unregistered]
     /\ failed' = {t \in Active : ~listed \/ t \notin cronRead \cap jobRead}

Restart ==
  /\ upsets < MaxUpsets
  /\ upsets' = upsets + 1
  /\ \E listed \in BOOLEAN, cronRead, jobRead \in SUBSET Active :
        LoadAndScheduleAll(listed, cronRead, jobRead)
  /\ nextEntry' = MaxTasks + 1
  /\ req' = [r \in Requests |-> Idle]
  /\ clashed' = {}
  /\ UNCHANGED <<tableVars, ops>>

-----------------------------------------------------------------------------

Step(r) ==
  \/ ToggleWrite(r) \/ DeleteRow(r)
  \/ RemoveEntry(r) \/ Unregister(r)
  \/ ReadEffective(r) \/ AddEntry(r) \/ KeepEntry(r) \/ Register(r)

Handler(r, t) ==
  TaskCreate(r, t) \/ TaskUpdate(r, t) \/ TaskToggle(r, t) \/ TaskDelete(r, t)

Next ==
  \/ \E r \in Requests : Step(r) \/ \E t \in Tasks : Handler(r, t)
  \/ \E t \in Tasks : UpdateSchedule(t) \/ ResetSchedule(t)
  \/ Restart

Spec == Init /\ [][Next]_vars

-----------------------------------------------------------------------------
(* Properties *)

Steps == {"idle", "enable", "disable", "remove", "unregister", "effective",
          "cron", "keep", "register", "delete"}

TypeOK ==
  /\ row \in [Tasks -> {"new", "active", "inactive", "deleted"}]
  /\ spec \in [Tasks -> Schedules]
  /\ override \in [Tasks -> Schedules \cup {Unset}]
  /\ entries \in SUBSET [id : Nat, task : Tasks, spec : Schedules, data : Schedules]
  /\ nextEntry \in Nat
  /\ taskEntry \in [Tasks -> Nat]
  /\ job \in [Tasks -> [entry : Nat, default : Schedules, schedule : Schedules]]
  /\ req \in [Requests -> [pc : Steps, task : Nat, then : {"end", "add", "delete"},
                           data : Schedules, effective : Schedules, entry : Nat]]
  /\ \A r \in Requests : req[r].pc # "idle" => req[r].task \in Tasks
  /\ ops \in 0..MaxOps
  /\ upsets \in 0..MaxUpsets
  /\ clashed \in SUBSET Tasks
  /\ failed \in SUBSET Tasks

(* registry.go:182-312 and docs/scheduler.md:152: what the registry takes for
   the schedule of a job is what the tables will say at the next start,
   whatever handlers work on the task at once. *)
RegistryMatchesTable ==
  \A t \in Tasks \ failed :
    Registered(t) => job[t].schedule = Effective(t, job[t].default)

(* task_executor.go:98-190: a task no handler works on is in the same state
   everywhere.  If it is active, cron has one entry for it, which the registry
   can replace, with the effective schedule and the task as it is in the table;
   if it is not, cron has none.  Excepted are tasks whose handlers overlapped or
   for which a statement failed, of the start or since: a start repairs what was
   before it as far as its own statements succeed. *)
Scheduled(t) ==
  /\ {e \in entries : e.task = t} =
       {Entry(job[t].entry, t, Effective(t, spec[t]), spec[t])}
  /\ job[t].default = spec[t]
  /\ job[t].schedule = Effective(t, spec[t])

NotScheduled(t) ==
  /\ \A e \in entries : e.task # t
  /\ ~Registered(t)

Agreement ==
  \A t \in Tasks \ (clashed \cup failed) :
    Quiet(t) => IF row[t] = "active" THEN Scheduled(t) ELSE NotScheduled(t)

(* docs/scheduler.md:147, "Overrides survive application restarts": a schedule
   the administrator has chosen for a job is in force after a restart, unless a
   statement of that start fails for it. *)
OverridesSurvive ==
  [][ Restart =>
        \A t \in Active \ (failed \cup failed') :
          Registered(t) /\ job[t].schedule # job[t].default =>
            /\ job'[t].schedule = job[t].schedule
            /\ \E e \in entries' : e.task = t /\ e.spec = job[t].schedule ]_vars

(* task_executor.go:103, "RemoveTask stops and unregisters a task": cron does
   not run a task that was switched off or deleted. *)
StoppedMeansStopped ==
  \A t \in Tasks \ failed :
    Quiet(t) /\ row[t] \in {"inactive", "deleted"} => \A e \in entries : e.task # t

=============================================================================

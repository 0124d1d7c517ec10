------------------------ MODULE SchedulerTasks_proofs ------------------------
(* Proofs about SchedulerTasks, for every value of its constants. *)
EXTENDS SchedulerTasks, TLAPS

(* The types, in two halves: what the tables, cron and the registry hold, and
   what the requests are doing. *)
StateTypes ==
  /\ row \in [Tasks -> {"new", "active", "inactive", "deleted"}]
  /\ spec \in [Tasks -> Schedules]
  /\ override \in [Tasks -> Schedules \cup {Unset}]
  /\ entries \in SUBSET [id : Nat, task : Tasks, spec : Schedules, data : Schedules]
  /\ nextEntry \in Nat
  /\ taskEntry \in [Tasks -> Nat]
  /\ job \in [Tasks -> [entry : Nat, default : Schedules, schedule : Schedules]]

RequestTypes ==
  /\ req \in [Requests -> [pc : Steps, task : Nat, then : {"end", "add", "delete"},
                           data : Schedules, effective : Schedules, entry : Nat]]
  /\ \A r \in Requests : req[r].pc # "idle" => req[r].task \in Tasks

HistoryTypes ==
  /\ ops \in 0..MaxOps
  /\ upsets \in 0..MaxUpsets
  /\ clashed \in SUBSET Tasks
  /\ failed \in SUBSET Tasks

LEMMA TypeParts == TypeOK <=> StateTypes /\ RequestTypes /\ HistoryTypes
  BY DEF TypeOK, StateTypes, RequestTypes, HistoryTypes

LEMMA SomeIsSchedule == SomeSchedule \in Schedules
  BY SchedulerAssumption DEF SomeSchedule

LEMMA IdleType ==
  Idle \in [pc : Steps, task : Nat, then : {"end", "add", "delete"},
            data : Schedules, effective : Schedules, entry : Nat]
  BY SomeIsSchedule DEF Idle, Steps, NoEntry

LEMMA EffectiveType ==
  ASSUME StateTypes, NEW t \in Tasks, NEW s \in Schedules
  PROVE  Effective(t, s) \in Schedules
  BY DEF StateTypes, Effective

(* A request moves: the new record only has to be of the type. *)
LEMMA MoveTypes ==
  ASSUME RequestTypes, NEW r \in Requests,
         NEW q \in [pc : Steps, task : Nat, then : {"end", "add", "delete"},
                    data : Schedules, effective : Schedules, entry : Nat],
         q.pc # "idle" => q.task \in Tasks,
         req' = [req EXCEPT ![r] = q]
  PROVE  RequestTypes'
  BY DEF RequestTypes

LEMMA FinishTypes ==
  ASSUME RequestTypes, NEW r \in Requests, Finish(r)
  PROVE  RequestTypes'
<1>1. Idle.pc = "idle"
  BY DEF Idle
<1> QED  BY <1>1, IdleType, MoveTypes DEF Finish

LEMMA GotoTypes ==
  ASSUME RequestTypes, NEW r \in Requests, NEW p \in Steps, ~At(r, "idle"), Goto(r, p)
  PROVE  RequestTypes'
<1> DEFINE q == [req[r] EXCEPT !.pc = p]
<1>1. /\ q \in [pc : Steps, task : Nat, then : {"end", "add", "delete"},
                data : Schedules, effective : Schedules, entry : Nat]
      /\ q.task = req[r].task
  BY DEF RequestTypes
<1>2. req' = [req EXCEPT ![r] = q]
  BY DEF Goto
<1>3. req[r].task \in Tasks
  BY DEF RequestTypes, At
<1> HIDE DEF q
<1> QED  BY <1>1, <1>2, <1>3, MoveTypes

LEMMA BeginTypes ==
  ASSUME RequestTypes, HistoryTypes, NEW r \in Requests, NEW t \in Tasks,
         NEW p \in Steps, NEW then \in {"end", "add", "delete"},
         NEW s \in Schedules, Begin(r, t, p, then, s)
  PROVE  RequestTypes' /\ HistoryTypes'
<1>1. HistoryTypes'
  BY SchedulerAssumption DEF Begin, HistoryTypes
<1> DEFINE q == [pc |-> p, task |-> t, then |-> then, data |-> s,
                 effective |-> SomeSchedule, entry |-> NoEntry]
<1>2. q \in [pc : Steps, task : Nat, then : {"end", "add", "delete"},
             data : Schedules, effective : Schedules, entry : Nat]
  BY SomeIsSchedule, SchedulerAssumption DEF Tasks, NoEntry
<1>3. q.task = t
  OBVIOUS
<1>4. UNCHANGED req \/ req' = [req EXCEPT ![r] = q]
  BY DEF Begin
<1> HIDE DEF q
<1>5. RequestTypes'
  BY <1>2, <1>3, <1>4, MoveTypes DEF RequestTypes
<1> QED  BY <1>1, <1>5

LEMMA FailsTypes ==
  ASSUME HistoryTypes, NEW t \in Tasks, Fails(t) \/ UNCHANGED historyVars
  PROVE  HistoryTypes'
  BY SchedulerAssumption DEF HistoryTypes, Fails, historyVars

LEMMA ReplaceTypes ==
  ASSUME StateTypes, NEW t \in Tasks, NEW s \in Schedules, Replace(t, s)
  PROVE  /\ entries' \in SUBSET [id : Nat, task : Tasks, spec : Schedules, data : Schedules]
         /\ nextEntry' \in Nat
         /\ job' \in [Tasks -> [entry : Nat, default : Schedules, schedule : Schedules]]
<1> USE DEF StateTypes, Replace
<1>1. Entry(nextEntry, t, s, job[t].default)
        \in [id : Nat, task : Tasks, spec : Schedules, data : Schedules]
  BY DEF Entry
<1>2. [job[t] EXCEPT !.entry = nextEntry, !.schedule = s]
        \in [entry : Nat, default : Schedules, schedule : Schedules]
  OBVIOUS
<1> QED  BY <1>1, <1>2

LEMMA OverrideTypes ==
  ASSUME StateTypes, HistoryTypes, NEW t \in Tasks, NEW s \in Schedules,
         NEW o \in Schedules \cup {Unset}, Override, Replace(t, s), Save(t, o),
         UNCHANGED <<row, spec, taskEntry>>
  PROVE  StateTypes' /\ HistoryTypes'
<1>1. HistoryTypes'
  BY SchedulerAssumption DEF HistoryTypes, Override, Save
<1>2. override' \in [Tasks -> Schedules \cup {Unset}]
  BY DEF StateTypes, Save
<1>3. StateTypes'
  BY <1>2, ReplaceTypes DEF StateTypes
<1> QED  BY <1>1, <1>3

(* What a start does to each task: it is loaded or not, and two schedules are read
   for it, the effective one or the default, which are right unless the task is one
   of failed'. *)
Loads(loaded, cron, reg) ==
  /\ entries' = {Entry(t, t, cron[t], spec[t]) : t \in loaded}
  /\ taskEntry' = [t \in Tasks |-> IF t \in loaded THEN t ELSE NoEntry]
  /\ job' = [t \in Tasks |-> IF t \in loaded
               THEN [entry |-> t, default |-> spec[t], schedule |-> reg[t]]
               ELSE Unregistered]
  /\ failed' \subseteq Active
  /\ \A t \in Active \ failed' :
       t \in loaded /\ cron[t] = Effective(t, spec[t]) /\ reg[t] = cron[t]

LEMMA RestartEffect ==
  ASSUME StateTypes, Restart
  PROVE  \E loaded \in SUBSET Active, cron, reg \in [Tasks -> Schedules] :
           Loads(loaded, cron, reg)
<1>1. PICK listed \in BOOLEAN, cronRead \in SUBSET Active, jobRead \in SUBSET Active :
        LoadAndScheduleAll(listed, cronRead, jobRead)
  BY DEF Restart
<1> DEFINE loaded == IF listed THEN Active ELSE {}
           Read(t, done) == IF t \in done THEN Effective(t, spec[t]) ELSE spec[t]
           cron == [t \in Tasks |-> Read(t, cronRead)]
           reg == [t \in Tasks |-> Read(t, jobRead)]
<1>2. \A t \in Tasks : spec[t] \in Schedules /\ Effective(t, spec[t]) \in Schedules
  BY EffectiveType DEF StateTypes
<1>3. cron \in [Tasks -> Schedules] /\ reg \in [Tasks -> Schedules]
  BY <1>2
<1>4. loaded \in SUBSET Active /\ Active \subseteq Tasks
  BY DEF Active
<1>5. entries' = {Entry(t, t, cron[t], spec[t]) : t \in loaded}
  BY <1>1, <1>4 DEF LoadAndScheduleAll
<1>6. taskEntry' = [t \in Tasks |-> IF t \in loaded THEN t ELSE NoEntry]
  BY <1>1 DEF LoadAndScheduleAll
<1>7. job' = [t \in Tasks |-> IF t \in loaded
               THEN [entry |-> t, default |-> spec[t], schedule |-> reg[t]]
               ELSE Unregistered]
  BY <1>1 DEF LoadAndScheduleAll
<1>8. failed' = {t \in Active : ~listed \/ t \notin cronRead \cap jobRead}
  BY <1>1 DEF LoadAndScheduleAll
<1>9. \A t \in Active \ failed' :
        t \in loaded /\ cron[t] = Effective(t, spec[t]) /\ reg[t] = cron[t]
  BY <1>4, <1>8
<1> HIDE DEF loaded, cron, reg
<1> QED  BY <1>3, <1>4, <1>5, <1>6, <1>7, <1>8, <1>9 DEF Loads

LEMMA RestartTypes ==
  ASSUME StateTypes, HistoryTypes, Restart
  PROVE  StateTypes' /\ RequestTypes' /\ HistoryTypes'
<1>0. PICK loaded \in SUBSET Active, cron \in [Tasks -> Schedules], reg \in [Tasks -> Schedules] :
        Loads(loaded, cron, reg)
  BY RestartEffect
<1>1. Tasks \subseteq Nat /\ NoEntry \in Nat /\ MaxTasks + 1 \in Nat
  BY SchedulerAssumption DEF Tasks, NoEntry
<1>2. loaded \subseteq Tasks /\ failed' \subseteq Tasks /\ \A t \in Tasks : spec[t] \in Schedules
  BY <1>0 DEF StateTypes, Active, Loads
<1>3. entries' \in SUBSET [id : Nat, task : Tasks, spec : Schedules, data : Schedules]
  BY <1>0, <1>1, <1>2 DEF Entry, Loads
<1>4. job' \in [Tasks -> [entry : Nat, default : Schedules, schedule : Schedules]]
  <2>1. Unregistered \in [entry : Nat, default : Schedules, schedule : Schedules]
    BY <1>1, SomeIsSchedule DEF Unregistered
  <2> QED  BY <1>0, <1>1, <1>2, <2>1 DEF Loads
<1>5. taskEntry' \in [Tasks -> Nat]
  BY <1>0, <1>1, <1>2 DEF Loads
<1>6. StateTypes'
  BY <1>1, <1>3, <1>4, <1>5 DEF StateTypes, Restart, tableVars
<1>7. RequestTypes'
  <2>1. Idle.pc = "idle"
    BY DEF Idle
  <2> QED  BY <2>1, IdleType DEF Restart, RequestTypes
<1>8. HistoryTypes'
  BY <1>2, SchedulerAssumption DEF Restart, HistoryTypes
<1> QED  BY <1>6, <1>7, <1>8

LEMMA HandlerTypes ==
  ASSUME StateTypes, RequestTypes, HistoryTypes, NEW r \in Requests,
         NEW t \in Tasks, Handler(r, t)
  PROVE  StateTypes' /\ RequestTypes' /\ HistoryTypes'
<1> USE DEF StateTypes, cronVars, tableVars
<1>1. CASE TaskCreate(r, t)
  BY <1>1, BeginTypes DEF TaskCreate, Steps
<1>2. CASE TaskUpdate(r, t)
  BY <1>2, BeginTypes DEF TaskUpdate, Steps
<1>3. CASE TaskToggle(r, t)
  BY <1>3, BeginTypes, SomeIsSchedule DEF TaskToggle, Steps
<1>4. CASE TaskDelete(r, t)
  BY <1>4, BeginTypes, SomeIsSchedule DEF TaskDelete, Steps
<1> QED  BY <1>1, <1>2, <1>3, <1>4 DEF Handler

LEMMA StepTypes ==
  ASSUME StateTypes, RequestTypes, HistoryTypes, NEW r \in Requests, Step(r)
  PROVE  StateTypes' /\ RequestTypes' /\ HistoryTypes'
<1> DEFINE t == req[r].task
           R == [pc : Steps, task : Nat, then : {"end", "add", "delete"},
                 data : Schedules, effective : Schedules, entry : Nat]
<1>1. /\ t \in Tasks /\ req[r] \in R /\ ~At(r, "idle")
      /\ req[r].data \in Schedules /\ req[r].effective \in Schedules
      /\ req[r].entry \in Nat
  BY DEF Step, ToggleWrite, DeleteRow, RemoveEntry, Unregister, ReadEffective,
         AddEntry, KeepEntry, Register, At, RequestTypes
<1>2. UNCHANGED historyVars => HistoryTypes'
  BY <1>1, FailsTypes
<1> HIDE DEF t, R
<1>3. ASSUME NEW p \in Steps, Goto(r, p) PROVE RequestTypes'
  BY <1>1, <1>3, GotoTypes
<1>4. CASE ToggleWrite(r)
  <2>1. StateTypes'
    BY <1>4 DEF ToggleWrite, StateTypes, cronVars
  <2>2. RequestTypes'
    <3>1. CASE Finish(r)
      BY <3>1, FinishTypes
    <3>2. ASSUME NEW q \in R, q.task = t, req' = [req EXCEPT ![r] = q]
          PROVE  RequestTypes'
      BY <1>1, <3>2, MoveTypes DEF R
    <3>3. spec[t] \in Schedules
      BY <1>1 DEF StateTypes
    <3> DEFINE q == [req[r] EXCEPT !.pc = IF At(r, "enable") THEN "effective" ELSE "remove",
                                   !.data = spec[t]]
    <3>4. q \in R /\ q.task = t
      BY <1>1, <3>3 DEF R, Steps, t
    <3>5. Finish(r) \/ req' = [req EXCEPT ![r] = q]
      BY <1>4 DEF ToggleWrite, t
    <3> HIDE DEF q
    <3> QED  BY <3>1, <3>2, <3>4, <3>5
  <2> QED  BY <1>2, <1>4, <2>1, <2>2 DEF ToggleWrite
<1>5. CASE DeleteRow(r)
  BY <1>1, <1>5, FinishTypes, FailsTypes DEF DeleteRow, StateTypes, cronVars, t
<1>6. CASE RemoveEntry(r)
  <2>1. StateTypes'
    BY <1>6 DEF RemoveEntry, StateTypes, tableVars, NoEntry
  <2>2. RequestTypes'
    BY <1>3, <1>6 DEF RemoveEntry, Steps
  <2> QED  BY <1>2, <1>6, <2>1, <2>2 DEF RemoveEntry
<1>7. CASE Unregister(r)
  <2>1. Unregistered \in [entry : Nat, default : Schedules, schedule : Schedules]
    BY SomeIsSchedule DEF Unregistered, NoEntry
  <2>2. StateTypes'
    BY <1>7, <2>1 DEF Unregister, StateTypes
  <2>3. RequestTypes'
    BY <1>3, <1>7, FinishTypes DEF Unregister, AfterRemoval, Steps
  <2>4. HistoryTypes'
    BY <1>1, <1>7, FailsTypes DEF Unregister, t
  <2> QED  BY <2>2, <2>3, <2>4
<1>8. CASE ReadEffective(r)
  <2>1. PICK s \in Schedules :
          /\ req' = [req EXCEPT ![r] = [@ EXCEPT !.pc = "cron", !.effective = s]]
          /\ UNCHANGED historyVars \/ Fails(t)
    BY <1>1, <1>8, EffectiveType DEF ReadEffective, t
  <2>2. StateTypes'
    BY <1>8 DEF ReadEffective, StateTypes, tableVars, cronVars
  <2> DEFINE q == [req[r] EXCEPT !.pc = "cron", !.effective = s]
  <2>3. q \in R /\ q.task = t /\ req' = [req EXCEPT ![r] = q]
    BY <1>1, <2>1 DEF R, Steps, t
  <2> HIDE DEF q
  <2>4. RequestTypes'
    BY <1>1, <2>3, MoveTypes DEF R
  <2> QED  BY <1>1, <2>1, <2>2, <2>4, FailsTypes
<1>9. CASE AddEntry(r)
  <2>1. Entry(nextEntry, t, req[r].effective, req[r].data)
          \in [id : Nat, task : Tasks, spec : Schedules, data : Schedules]
    BY <1>1 DEF Entry, StateTypes
  <2>2. StateTypes'
    BY <1>9, <2>1 DEF AddEntry, StateTypes, tableVars, t
  <2> DEFINE q == [req[r] EXCEPT !.pc = "keep", !.entry = nextEntry]
  <2>3. q \in R /\ q.task = t /\ req' = [req EXCEPT ![r] = q]
    BY <1>1, <1>9 DEF AddEntry, R, Steps, t, StateTypes
  <2> HIDE DEF q
  <2>4. RequestTypes'
    BY <1>1, <2>3, MoveTypes DEF R
  <2> QED  BY <1>2, <1>9, <2>2, <2>4 DEF AddEntry
<1>10. CASE KeepEntry(r)
  <2>1. StateTypes'
    BY <1>1, <1>10 DEF KeepEntry, StateTypes, tableVars, cronVars
  <2>2. RequestTypes'
    BY <1>3, <1>10 DEF KeepEntry, Steps
  <2> QED  BY <1>2, <1>10, <2>1, <2>2 DEF KeepEntry
<1>11. CASE Register(r)
  <2>1. PICK s \in Schedules :
          /\ job' = [job EXCEPT ![t] = [entry |-> req[r].entry,
                                        default |-> req[r].data, schedule |-> s]]
          /\ UNCHANGED historyVars \/ Fails(t)
    BY <1>1, <1>11, EffectiveType DEF Register, t
  <2>2. StateTypes'
    BY <1>1, <1>11, <2>1 DEF Register, StateTypes, tableVars, cronVars
  <2> QED
    BY <1>1, <1>11, <2>1, <2>2, FinishTypes, FailsTypes DEF Register
<1> QED
  BY <1>4, <1>5, <1>6, <1>7, <1>8, <1>9, <1>10, <1>11 DEF Step

LEMMA TypeStep == TypeOK /\ [Next]_vars => TypeOK'
<1> SUFFICES ASSUME StateTypes, RequestTypes, HistoryTypes, [Next]_vars
             PROVE  StateTypes' /\ RequestTypes' /\ HistoryTypes'
  BY TypeParts DEF TypeOK, StateTypes, RequestTypes, HistoryTypes
<1>1. ASSUME NEW t \in Tasks, UpdateSchedule(t)
      PROVE  StateTypes' /\ RequestTypes' /\ HistoryTypes'
  BY <1>1, OverrideTypes DEF UpdateSchedule, RequestTypes
<1>2. ASSUME NEW t \in Tasks, ResetSchedule(t)
      PROVE  StateTypes' /\ RequestTypes' /\ HistoryTypes'
  <2>1. job[t].default \in Schedules
    BY DEF StateTypes
  <2> QED  BY <1>2, <2>1, OverrideTypes DEF ResetSchedule, RequestTypes
<1>3. CASE Restart
  BY <1>3, RestartTypes
<1>4. CASE UNCHANGED vars
  BY <1>4 DEF vars, tableVars, cronVars, historyVars, StateTypes, RequestTypes,
              HistoryTypes
<1> QED
  BY <1>1, <1>2, <1>3, <1>4, HandlerTypes, StepTypes DEF Next

LEMMA InitTypes == Init => TypeOK
<1> SUFFICES ASSUME Init PROVE TypeOK
  OBVIOUS
<1>1. Unregistered \in [entry : Nat, default : Schedules, schedule : Schedules]
  BY SomeIsSchedule DEF Unregistered, NoEntry
<1>2. Idle.pc = "idle"
  BY DEF Idle
<1> QED
  BY <1>1, <1>2, IdleType, SomeIsSchedule, SchedulerAssumption DEF Init, TypeOK, NoEntry

(* Type correctness of every behaviour. *)
THEOREM TypeCorrect == Spec => []TypeOK
  BY InitTypes, TypeStep, PTL DEF Spec

-----------------------------------------------------------------------------
(* The registry and the table of overrides *)

LEMMA MatchStep ==
  ASSUME TypeOK, RegistryMatchesTable, [Next]_vars
  PROVE  RegistryMatchesTable'
<1> USE DEF RegistryMatchesTable
<1>0. StateTypes /\ RequestTypes /\ HistoryTypes
  BY TypeParts
<1>1. CASE UNCHANGED <<job, override>> /\ failed \subseteq failed'
  BY <1>1 DEF Registered, Effective
<1>2. ASSUME NEW r \in Requests, NEW t \in Tasks, Handler(r, t)
      PROVE  RegistryMatchesTable'
  BY <1>1, <1>2 DEF Handler, TaskCreate, TaskUpdate, TaskToggle, TaskDelete,
                    Begin, tableVars
<1>3. ASSUME NEW r \in Requests, Unregister(r) PROVE RegistryMatchesTable'
  <2> DEFINE t == req[r].task
  <2>1. t \in Tasks /\ job \in [Tasks -> [entry : Nat, default : Schedules, schedule : Schedules]]
        /\ override \in [Tasks -> Schedules \cup {Unset}]
    BY <1>0, <1>3 DEF Unregister, At, RequestTypes, StateTypes
  <2>2. CASE ~Registered(t)
    <3>1. UNCHANGED <<job, override, historyVars>>
      BY <1>3, <2>2 DEF Unregister
    <3> QED  BY <1>1, <3>1 DEF historyVars
  <2>3. CASE Registered(t)
    <3>1. job' = [job EXCEPT ![t] = Unregistered]
      BY <1>3, <2>3 DEF Unregister
    <3>2. job'[t].entry = NoEntry /\ \A u \in Tasks \ {t} : job'[u] = job[u]
      BY <2>1, <3>1 DEF Unregistered
    <3>3. \A u \in Tasks \ {t} : override'[u] = override[u]
      <4>1. override' = [override EXCEPT ![t] = Unset] \/ UNCHANGED override
        BY <1>3, <2>3 DEF Unregister
      <4> HIDE DEF t
      <4> QED  BY <2>1, <4>1
    <3>4. failed \subseteq failed'
      BY <1>3, <2>3 DEF Unregister, Fails, historyVars
    <3> HIDE DEF t
    <3> QED  BY <3>2, <3>3, <3>4 DEF Registered, Effective
  <2> QED  BY <2>2, <2>3
<1>4. ASSUME NEW r \in Requests, Register(r) PROVE RegistryMatchesTable'
  <2> DEFINE t == req[r].task
  <2>1. t \in Tasks /\ UNCHANGED override /\ job \in [Tasks -> [entry : Nat, default : Schedules, schedule : Schedules]]
    BY <1>0, <1>4 DEF Register, At, tableVars, RequestTypes, StateTypes
  <2>2. \A u \in Tasks \ {t} : job'[u] = job[u]
    BY <1>4, <2>1 DEF Register
  <2>3. \/ job'[t].schedule = Effective(t, job'[t].default) /\ UNCHANGED failed
        \/ failed' = failed \cup {t}
    BY <1>4, <2>1 DEF Register, Fails, historyVars
  <2> HIDE DEF t
  <2> QED  BY <2>1, <2>2, <2>3 DEF Registered, Effective
<1>5. ASSUME NEW r \in Requests,
             ToggleWrite(r) \/ DeleteRow(r) \/ RemoveEntry(r) \/ ReadEffective(r)
             \/ AddEntry(r) \/ KeepEntry(r)
      PROVE  RegistryMatchesTable'
  BY <1>1, <1>5 DEF ToggleWrite, DeleteRow, RemoveEntry, ReadEffective, AddEntry,
                    KeepEntry, Fails, tableVars, historyVars
<1>6. ASSUME NEW t \in Tasks, UpdateSchedule(t) PROVE RegistryMatchesTable'
  <2>1. PICK s \in Schedules : Replace(t, s) /\ Save(t, s)
    BY <1>6 DEF UpdateSchedule
  <2>2. \A u \in Tasks \ {t} : job'[u] = job[u] /\ override'[u] = override[u]
    BY <1>0, <2>1 DEF Replace, Save, StateTypes
  <2>3. \/ job'[t].schedule = s /\ override'[t] = s /\ UNCHANGED failed
        \/ failed' = failed \cup {t}
    BY <1>0, <2>1 DEF Replace, Save, StateTypes
  <2> QED  BY <2>2, <2>3, UnsetAssumption DEF Registered, Effective
<1>7. ASSUME NEW t \in Tasks, ResetSchedule(t) PROVE RegistryMatchesTable'
  <2>1. Replace(t, job[t].default) /\ Save(t, Unset)
    BY <1>7 DEF ResetSchedule
  <2>2. \A u \in Tasks \ {t} : job'[u] = job[u] /\ override'[u] = override[u]
    BY <1>0, <2>1 DEF Replace, Save, StateTypes
  <2>3. \/ /\ job'[t].schedule = job[t].default /\ job'[t].default = job[t].default
           /\ override'[t] = Unset /\ UNCHANGED failed
        \/ failed' = failed \cup {t}
    BY <1>0, <2>1 DEF Replace, Save, StateTypes
  <2> QED  BY <2>2, <2>3 DEF Registered, Effective
<1>8. CASE Restart
  <2>1. \A t \in Tasks \ failed' :
          \/ job'[t].entry = NoEntry
          \/ /\ job'[t].default = spec[t]
             /\ job'[t].schedule = Effective(t, spec[t])
    BY <1>0, <1>8, RestartEffect DEF Unregistered, Loads, Active
  <2> QED  BY <1>8, <2>1 DEF Restart, Registered, Effective, tableVars
<1>9. CASE UNCHANGED vars
  BY <1>1, <1>9 DEF vars, tableVars, historyVars
<1> QED
  BY <1>2, <1>3, <1>4, <1>5, <1>6, <1>7, <1>8, <1>9 DEF Next, Step

(* registry.go: however the handlers interleave, what the registry takes for the
   schedule of a job is what the tables say. *)
THEOREM RegistryAgreesWithTable == Spec => []RegistryMatchesTable
<1>1. Init => RegistryMatchesTable
  BY DEF Init, RegistryMatchesTable, Registered, Unregistered
<1>2. TypeOK /\ RegistryMatchesTable /\ [Next]_vars => RegistryMatchesTable'
  BY MatchStep
<1> QED  BY <1>1, <1>2, TypeCorrect, PTL DEF Spec

(* docs/scheduler.md:147: the chosen schedule of an active task is in force
   after a restart, because the table had it, unless a statement of that start
   fails for the task. *)
THEOREM OverridesAreKept == Spec => OverridesSurvive
<1> DEFINE Kept ==
      Restart =>
        \A t \in Active \ (failed \cup failed') :
          Registered(t) /\ job[t].schedule # job[t].default =>
            /\ job'[t].schedule = job[t].schedule
            /\ \E e \in entries' : e.task = t /\ e.spec = job[t].schedule
<1>1. TypeOK /\ RegistryMatchesTable => Kept
  <2> SUFFICES ASSUME TypeOK, RegistryMatchesTable, Restart,
                      NEW t \in Active \ (failed \cup failed'),
                      Registered(t), job[t].schedule # job[t].default
               PROVE  /\ job'[t].schedule = job[t].schedule
                      /\ \E e \in entries' : e.task = t /\ e.spec = job[t].schedule
    OBVIOUS
  <2>1. job[t].schedule = override[t] /\ override[t] # Unset
    BY DEF RegistryMatchesTable, Effective, Active
  <2>2. Effective(t, spec[t]) = job[t].schedule
    BY <2>1 DEF Effective
  <2>3. PICK loaded \in SUBSET Active, cron \in [Tasks -> Schedules], reg \in [Tasks -> Schedules] :
          Loads(loaded, cron, reg)
    BY RestartEffect, TypeParts
  <2>4. t \in loaded /\ cron[t] = Effective(t, spec[t]) /\ reg[t] = cron[t]
    BY <2>3 DEF Loads
  <2>5. job'[t].schedule = reg[t]
    BY <2>3, <2>4 DEF Active, Loads
  <2>6. Entry(t, t, cron[t], spec[t]) \in entries'
    BY <2>3, <2>4 DEF Loads
  <2> QED  BY <2>2, <2>4, <2>5, <2>6 DEF Entry
<1> QED
  BY <1>1, TypeCorrect, RegistryAgreesWithTable, PTL DEF OverridesSurvive

-----------------------------------------------------------------------------
(* Table, cron and registry agree: the inductive invariant *)

(* An id of cron belongs to one task.  Whoever holds an id, be it out of date,
   removes no entry of another task with it. *)
IdInv ==
  /\ nextEntry > 0
  /\ \A e \in entries : e.id > 0 /\ e.id < nextEntry
  /\ \A t \in Tasks : taskEntry[t] < nextEntry /\ job[t].entry < nextEntry
  /\ \A e \in entries, t \in Tasks : e.id = taskEntry[t] \/ e.id = job[t].entry => e.task = t
  /\ \A r \in Requests : req[r].pc \in {"keep", "register"} =>
        /\ req[r].entry > 0 /\ req[r].entry < nextEntry
        /\ \A e \in entries : e.id = req[r].entry => e.task = req[r].task

EntriesOf(t) == {e \in entries : e.task = t}

(* The registry knows of everything that cron has of a task. *)
Held(t) == \A e \in EntriesOf(t) : Registered(t) /\ e.id = job[t].entry

InForce(t) ==
  /\ Registered(t)
  /\ EntriesOf(t) = {Entry(job[t].entry, t, job[t].schedule, job[t].default)}
  /\ job[t].default = spec[t]

Settled(t) == IF row[t] = "active" THEN InForce(t) ELSE NotScheduled(t)

(* How far handler r of task t has come, which it has for itself. *)
Phase(r, t) ==
  LET q == req[r] IN
  /\ q.pc = "enable" => row[t] = "inactive" /\ NotScheduled(t)
  /\ q.pc = "disable" => row[t] = "active" /\ q.then = "end"
  /\ q.pc \in {"disable", "remove", "unregister"} => Held(t)
  /\ q.pc \in {"remove", "unregister"} /\ q.then = "end" => row[t] = "inactive"
  /\ q.pc \in {"remove", "unregister"} /\ q.then = "add" => row[t] = "active" /\ q.data = spec[t]
  /\ q.pc \in {"effective", "cron", "keep", "register"} =>
        row[t] = "active" /\ q.data = spec[t] /\ ~Registered(t)
  /\ q.pc \in {"effective", "cron", "delete"} => NotScheduled(t)
  /\ q.pc \in {"cron", "keep", "register"} => q.effective = Effective(t, q.data)
  /\ q.pc \in {"keep", "register"} =>
        EntriesOf(t) = {Entry(q.entry, t, q.effective, q.data)}

Calm(t) == t \notin clashed \cup failed

TaskInv(t) ==
  Calm(t) =>
    /\ Quiet(t) => Settled(t)
    /\ \A r, s \in Requests : Busy(r, t) /\ Busy(s, t) => r = s
    /\ \A r \in Requests : Busy(r, t) => Phase(r, t)

AgreeInv == \A t \in Tasks : TaskInv(t)

-----------------------------------------------------------------------------
(* Ids *)

(* What a handler has at hand when it takes a step. *)
LEMMA Hand ==
  ASSUME TypeOK, NEW r \in Requests, req[r].pc # "idle"
  PROVE  /\ req[r].task \in Tasks
         /\ Busy(r, req[r].task)
  BY DEF TypeOK, Busy

LEMMA ToggleMove ==
  ASSUME TypeOK, NEW r \in Requests, ToggleWrite(r)
  PROVE  /\ \A s \in Requests : s # r => req'[s] = req[s]
         /\ ~Exists(req[r].task) => req'[r].pc = "idle" /\ UNCHANGED row
         /\ Exists(req[r].task) =>
              /\ req'[r].pc = IF At(r, "enable") THEN "effective" ELSE "remove"
              /\ req'[r].task = req[r].task
              /\ req'[r].then = req[r].then
              /\ req'[r].data = spec[req[r].task]
<1>1. CASE ~Exists(req[r].task)
  BY <1>1 DEF ToggleWrite, Finish, Idle, TypeOK
<1>2. CASE Exists(req[r].task)
  <2> DEFINE pc == IF At(r, "enable") THEN "effective" ELSE "remove"
             q == [req[r] EXCEPT !.pc = pc, !.data = spec[req[r].task]]
  <2>1. req' = [req EXCEPT ![r] = q]
    BY <1>2 DEF ToggleWrite
  <2> HIDE DEF pc
  <2>2. /\ q.pc = pc /\ q.task = req[r].task /\ q.then = req[r].then
        /\ q.data = spec[req[r].task]
    BY DEF TypeOK
  <2> HIDE DEF q
  <2>3. req \in [Requests -> [pc : Steps, task : Nat, then : {"end", "add", "delete"},
                              data : Schedules, effective : Schedules, entry : Nat]]
    BY DEF TypeOK
  <2> QED  BY <1>2, <2>1, <2>2, <2>3 DEF pc
<1> QED  BY <1>1, <1>2

LEMMA ReadMove ==
  ASSUME TypeOK, NEW r \in Requests, ReadEffective(r)
  PROVE  /\ \A s \in Requests : s # r => req'[s] = req[s]
         /\ req'[r].pc = "cron" /\ req'[r].task = req[r].task
         /\ req'[r].data = req[r].data
         /\ \/ req'[r].effective = Effective(req[r].task, req[r].data)
            \/ Fails(req[r].task)
<1> DEFINE t == req[r].task
           E == Effective(t, req[r].data)
<1>1. PICK s \in {E, req[r].data} :
        /\ req' = [req EXCEPT ![r] = [@ EXCEPT !.pc = "cron", !.effective = s]]
        /\ s = E \/ Fails(t)
  BY DEF ReadEffective
<1> DEFINE q == [req[r] EXCEPT !.pc = "cron", !.effective = s]
<1> HIDE DEF E, t
<1>2. /\ q.pc = "cron" /\ q.task = req[r].task /\ q.data = req[r].data
      /\ q.effective = s
  BY DEF TypeOK
<1>3. req' = [req EXCEPT ![r] = q]
  BY <1>1
<1> HIDE DEF q
<1>4. \A u \in Requests : u # r => req'[u] = req[u]
  BY <1>3 DEF TypeOK
<1>5. req'[r] = q
  BY <1>3 DEF TypeOK
<1> QED  BY <1>1, <1>2, <1>4, <1>5 DEF E, t

LEMMA EntryFields ==
  ASSUME NEW i, NEW t, NEW s, NEW d
  PROVE  /\ Entry(i, t, s, d).id = i /\ Entry(i, t, s, d).task = t
         /\ Entry(i, t, s, d).spec = s /\ Entry(i, t, s, d).data = d
  BY DEF Entry

(* Steps that touch no id: cron and its holders stay, and a handler that holds
   an id after the step held the same one before. *)
LEMMA IdsQuiet ==
  ASSUME IdInv, UNCHANGED <<nextEntry, taskEntry>>, entries' \subseteq entries,
         \A t \in Tasks : job'[t] = job[t] \/ job'[t].entry = NoEntry,
         \A r \in Requests : req'[r].pc \in {"keep", "register"} =>
            /\ req[r].pc \in {"keep", "register"}
            /\ req'[r].entry = req[r].entry /\ req'[r].task = req[r].task
  PROVE  IdInv'
<1>1. \A e \in entries : e.id # NoEntry
  BY DEF IdInv, NoEntry
<1> QED  BY <1>1 DEF IdInv, NoEntry

LEMMA HandlerIds ==
  ASSUME TypeOK, IdInv, NEW r \in Requests, NEW t \in Tasks, Handler(r, t)
  PROVE  IdInv'
<1>1. /\ UNCHANGED <<entries, nextEntry, taskEntry, job>>
      /\ \E pc \in Steps \ {"keep", "register"} : \E then, data : Begin(r, t, pc, then, data)
  BY DEF Handler, TaskCreate, TaskUpdate, TaskToggle, TaskDelete, cronVars, Steps
<1>2. \A s \in Requests : req'[s].pc \in {"keep", "register"} => req'[s] = req[s]
  BY <1>1 DEF Begin, TypeOK
<1> QED  BY <1>1, <1>2, IdsQuiet

LEMMA StepIds ==
  ASSUME TypeOK, IdInv, NEW r \in Requests, Step(r)
  PROVE  IdInv'
<1> DEFINE t == req[r].task
<1>1. t \in Tasks
  BY Hand DEF Step, ToggleWrite, DeleteRow, RemoveEntry, Unregister, ReadEffective,
              AddEntry, KeepEntry, Register, At
<1>2. Idle.pc = "idle"
  BY DEF Idle
<1>3. CASE ToggleWrite(r)
  <2>1. \A s \in Requests : req'[s].pc \in {"keep", "register"} => req'[s] = req[s]
    BY <1>3, ToggleMove
  <2> QED  BY <1>3, <2>1, IdsQuiet DEF ToggleWrite, cronVars
<1>4. CASE DeleteRow(r)
  <2>1. \A s \in Requests : req'[s].pc \in {"keep", "register"} => req'[s] = req[s]
    BY <1>2, <1>4 DEF DeleteRow, Finish, TypeOK
  <2> QED  BY <1>4, <2>1, IdsQuiet DEF DeleteRow, cronVars
<1>5. CASE RemoveEntry(r)
  <2>1. \A s \in Requests : req'[s].pc \in {"keep", "register"} => req'[s] = req[s]
    BY <1>5 DEF RemoveEntry, Goto, TypeOK
  <2>2. /\ entries' \subseteq entries
        /\ nextEntry' = nextEntry /\ job' = job
        /\ \A u \in Tasks : taskEntry'[u] = taskEntry[u] \/ taskEntry'[u] = NoEntry
    BY <1>5 DEF RemoveEntry, TypeOK
  <2>3. \A e \in entries : e.id # NoEntry
    BY DEF IdInv, NoEntry
  <2> QED  BY <2>1, <2>2, <2>3 DEF IdInv, NoEntry
<1>6. CASE Unregister(r)
  <2>1. \A s \in Requests : req'[s].pc \in {"keep", "register"} => req'[s] = req[s]
    BY <1>2, <1>6 DEF Unregister, AfterRemoval, Goto, Finish, TypeOK
  <2>2. \A u \in Tasks : job'[u] = job[u] \/ job'[u].entry = NoEntry
    BY <1>6 DEF Unregister, Unregistered, TypeOK
  <2> QED  BY <1>6, <2>1, <2>2, IdsQuiet DEF Unregister
<1>7. CASE ReadEffective(r)
  <2>1. \A s \in Requests : req'[s].pc \in {"keep", "register"} => req'[s] = req[s]
    BY <1>7, ReadMove
  <2> QED  BY <1>7, <2>1, IdsQuiet DEF ReadEffective, cronVars
<1>8. CASE AddEntry(r)
  <2> DEFINE new == Entry(nextEntry, t, req[r].effective, req[r].data)
  <2>1. new.id = nextEntry /\ new.task = t
    BY EntryFields
  <2>2. entries' = entries \cup {new}
    BY <1>8 DEF AddEntry
  <2> HIDE DEF new
  <2>3. nextEntry \in Nat /\ nextEntry' = nextEntry + 1 /\ UNCHANGED <<taskEntry, job>>
    BY <1>8 DEF AddEntry, TypeOK
  <2>4. /\ req'[r].entry = nextEntry /\ req'[r].task = t
        /\ \A s \in Requests : s # r => req'[s] = req[s]
    BY <1>8 DEF AddEntry, TypeOK
  <2>5. /\ \A e \in entries : e.id \in Nat
        /\ \A u \in Tasks : taskEntry[u] \in Nat /\ job[u].entry \in Nat
        /\ \A s \in Requests : req[s].entry \in Nat
    BY DEF TypeOK
  <2>6. nextEntry' > 0 /\ \A e \in entries' : e.id > 0 /\ e.id < nextEntry'
    BY <2>1, <2>2, <2>3, <2>5 DEF IdInv
  <2>7. \A u \in Tasks : taskEntry'[u] < nextEntry' /\ job'[u].entry < nextEntry'
    BY <2>3, <2>5 DEF IdInv
  <2>8. \A e \in entries', u \in Tasks :
           e.id = taskEntry'[u] \/ e.id = job'[u].entry => e.task = u
    BY <2>1, <2>2, <2>3, <2>5 DEF IdInv
  <2>9. \A s \in Requests : req'[s].pc \in {"keep", "register"} =>
           /\ req'[s].entry > 0 /\ req'[s].entry < nextEntry'
           /\ \A e \in entries' : e.id = req'[s].entry => e.task = req'[s].task
    <3>1. CASE TRUE
      <4> SUFFICES ASSUME NEW s \in Requests, req'[s].pc \in {"keep", "register"}
                   PROVE  /\ req'[s].entry > 0 /\ req'[s].entry < nextEntry'
                          /\ \A e \in entries' : e.id = req'[s].entry => e.task = req'[s].task
        OBVIOUS
      <4>1. CASE s = r
        <5>1. \A e \in entries : e.id # nextEntry
          BY <2>3, <2>5 DEF IdInv
        <5> QED  BY <4>1, <5>1, <2>1, <2>2, <2>3, <2>4 DEF IdInv
      <4>2. CASE s # r
        BY <4>2, <2>1, <2>2, <2>3, <2>4, <2>5 DEF IdInv
      <4> QED  BY <4>1, <4>2
    <3> QED  BY <3>1
  <2> QED  BY <2>6, <2>7, <2>8, <2>9 DEF IdInv
<1>9. CASE KeepEntry(r)
  <2>1. /\ UNCHANGED <<entries, nextEntry, job>>
        /\ taskEntry'[t] = req[r].entry /\ \A u \in Tasks \ {t} : taskEntry'[u] = taskEntry[u]
    BY <1>1, <1>9 DEF KeepEntry, cronVars, TypeOK
  <2>2. /\ req[r].pc = "keep" /\ req'[r].entry = req[r].entry /\ req'[r].task = t
        /\ \A s \in Requests : s # r => req'[s] = req[s]
    BY <1>9 DEF KeepEntry, At, Goto, TypeOK
  <2>3. req[r].entry > 0 /\ req[r].entry < nextEntry
        /\ \A e \in entries : e.id = req[r].entry => e.task = t
    BY <2>2 DEF IdInv
  <2> HIDE DEF t
  <2> QED  BY <2>1, <2>2, <2>3 DEF IdInv
<1>10. CASE Register(r)
  <2>1. /\ UNCHANGED <<entries, nextEntry, taskEntry>>
        /\ job'[t].entry = req[r].entry /\ \A u \in Tasks \ {t} : job'[u] = job[u]
    BY <1>1, <1>10 DEF Register, cronVars, TypeOK
  <2>2. \A s \in Requests : req'[s].pc \in {"keep", "register"} => req'[s] = req[s]
    BY <1>2, <1>10 DEF Register, Finish, TypeOK
  <2>3. req[r].entry > 0 /\ req[r].entry < nextEntry
        /\ \A e \in entries : e.id = req[r].entry => e.task = t
    BY <1>10 DEF Register, At, IdInv
  <2> HIDE DEF t
  <2> QED  BY <2>1, <2>2, <2>3 DEF IdInv
<1> QED
  BY <1>3, <1>4, <1>5, <1>6, <1>7, <1>8, <1>9, <1>10 DEF Step

LEMMA ReplaceIds ==
  ASSUME TypeOK, IdInv, NEW t \in Tasks, NEW s \in Schedules, Replace(t, s),
         UNCHANGED <<taskEntry, req>>
  PROVE  IdInv'
<1> DEFINE new == Entry(nextEntry, t, s, job[t].default)
<1>1. new.id = nextEntry /\ new.task = t
  BY EntryFields
<1>2. entries' \subseteq entries \cup {new}
  BY DEF Replace
<1> HIDE DEF new
<1>3. /\ nextEntry \in Nat /\ nextEntry' = nextEntry + 1
      /\ job'[t].entry = nextEntry /\ \A u \in Tasks \ {t} : job'[u] = job[u]
  BY DEF Replace, TypeOK
<1>4. /\ \A e \in entries : e.id \in Nat
      /\ \A u \in Tasks : taskEntry[u] \in Nat /\ job[u].entry \in Nat
      /\ \A q \in Requests : req[q].entry \in Nat
  BY DEF TypeOK
<1>5. nextEntry' > 0 /\ \A e \in entries' : e.id > 0 /\ e.id < nextEntry'
  BY <1>1, <1>2, <1>3, <1>4 DEF IdInv
<1>6. \A u \in Tasks : taskEntry'[u] < nextEntry' /\ job'[u].entry < nextEntry'
  BY <1>3, <1>4 DEF IdInv
<1>7. \A e \in entries', u \in Tasks :
         e.id = taskEntry'[u] \/ e.id = job'[u].entry => e.task = u
  BY <1>1, <1>2, <1>3, <1>4 DEF IdInv
<1>8. \A q \in Requests : req'[q].pc \in {"keep", "register"} =>
         /\ req'[q].entry > 0 /\ req'[q].entry < nextEntry'
         /\ \A e \in entries' : e.id = req'[q].entry => e.task = req'[q].task
  BY <1>1, <1>2, <1>3, <1>4 DEF IdInv
<1> QED  BY <1>5, <1>6, <1>7, <1>8 DEF IdInv

LEMMA RestartIds ==
  ASSUME TypeOK, Restart
  PROVE  IdInv'
<1>1. /\ nextEntry' = MaxTasks + 1 /\ MaxTasks \in Nat
      /\ \A t \in Tasks : t > 0 /\ t < MaxTasks + 1
  BY SchedulerAssumption DEF Restart, Tasks
<1>2. PICK loaded \in SUBSET Active, cron \in [Tasks -> Schedules], reg \in [Tasks -> Schedules] :
        Loads(loaded, cron, reg)
  BY RestartEffect, TypeParts
<1>3. \A e \in entries' : e.id \in Tasks /\ e.task = e.id
  BY <1>2, EntryFields DEF Active, Loads
<1>4. \A t \in Tasks : taskEntry'[t] \in {t, NoEntry} /\ job'[t].entry \in {t, NoEntry}
  BY <1>2 DEF Unregistered, Loads
<1>5. \A r \in Requests : req'[r].pc = "idle"
  BY DEF Restart, Idle
<1> QED  BY <1>1, <1>3, <1>4, <1>5 DEF IdInv, NoEntry

LEMMA IdStep == TypeOK /\ IdInv /\ [Next]_vars => IdInv'
<1> SUFFICES ASSUME TypeOK, IdInv, [Next]_vars PROVE IdInv'
  OBVIOUS
<1>1. ASSUME NEW t \in Tasks, UpdateSchedule(t) PROVE IdInv'
  BY <1>1, ReplaceIds DEF UpdateSchedule
<1>2. ASSUME NEW t \in Tasks, ResetSchedule(t) PROVE IdInv'
  <2>1. job[t].default \in Schedules
    BY DEF TypeOK
  <2> QED  BY <1>2, <2>1, ReplaceIds DEF ResetSchedule
<1>3. CASE UNCHANGED vars
  BY <1>3 DEF vars, cronVars, IdInv
<1> QED
  BY <1>1, <1>2, <1>3, HandlerIds, StepIds, RestartIds DEF Next

LEMMA InitIds == Init => IdInv
  BY SchedulerAssumption DEF Init, IdInv, Unregistered, Idle, NoEntry

-----------------------------------------------------------------------------
(* One task *)

LEMMA NotScheduledIs ==
  ASSUME NEW t \in Tasks
  PROVE  NotScheduled(t) <=> EntriesOf(t) = {} /\ ~Registered(t)
  BY DEF NotScheduled, EntriesOf

LEMMA SettledIsHeld ==
  ASSUME NEW t \in Tasks, Settled(t)
  PROVE  Held(t)
  BY EntryFields DEF Settled, InForce, NotScheduled, Held, EntriesOf

(* What TaskInv(t) speaks of stays as it is. *)
LEMMA Frame ==
  ASSUME NEW t \in Tasks, TaskInv(t), Calm(t)' => Calm(t),
         row'[t] = row[t], spec'[t] = spec[t], override'[t] = override[t], job'[t] = job[t],
         EntriesOf(t)' = EntriesOf(t),
         \A r \in Requests : /\ Busy(r, t)' <=> Busy(r, t)
                             /\ Busy(r, t) => req'[r] = req[r]
  PROVE  TaskInv(t)'
<1> SUFFICES ASSUME Calm(t)'
             PROVE  /\ Quiet(t)' => Settled(t)'
                    /\ \A r, s \in Requests : Busy(r, t)' /\ Busy(s, t)' => r = s
                    /\ \A r \in Requests : Busy(r, t)' => Phase(r, t)'
  BY DEF TaskInv
<1>1. /\ Registered(t)' <=> Registered(t)
      /\ NotScheduled(t)' <=> NotScheduled(t)
      /\ Held(t)' <=> Held(t)
      /\ InForce(t)' <=> InForce(t)
  BY NotScheduledIs DEF Registered, NotScheduled, EntriesOf, Held, InForce
<1>2. Quiet(t)' => Settled(t)'
  BY <1>1 DEF TaskInv, Quiet, Settled
<1>3. ASSUME NEW r \in Requests, Busy(r, t)' PROVE Phase(r, t)'
  <2>1. Phase(r, t) /\ req'[r] = req[r]
    BY <1>3 DEF TaskInv
  <2>2. \A d : Effective(t, d)' = Effective(t, d)
    BY DEF Effective
  <2> QED  BY <1>1, <2>1, <2>2 DEF Phase, Effective
<1> QED  BY <1>2, <1>3 DEF TaskInv

(* A handler is alone on a calm task; it is enough to see to what becomes of it. *)
LEMMA Alone ==
  ASSUME NEW r \in Requests, NEW t \in Tasks, TaskInv(t), Calm(t)' => Calm(t), Busy(r, t),
         \A s \in Requests : s # r => req'[s] = req[s],
         Calm(t)' /\ req'[r].pc = "idle" => Settled(t)',
         Calm(t)' /\ req'[r].pc # "idle" => req'[r].task = t /\ Phase(r, t)'
  PROVE  TaskInv(t)'
<1> SUFFICES ASSUME Calm(t)'
             PROVE  /\ Quiet(t)' => Settled(t)'
                    /\ \A q, s \in Requests : Busy(q, t)' /\ Busy(s, t)' => q = s
                    /\ \A s \in Requests : Busy(s, t)' => Phase(s, t)'
  BY DEF TaskInv
<1>1. \A s \in Requests : s # r => ~Busy(s, t)'
  BY DEF TaskInv, Busy
<1>2. Quiet(t)' => req'[r].pc = "idle"
  BY DEF Quiet, Busy
<1>3. Busy(r, t)' => Phase(r, t)'
  BY DEF Busy
<1> QED  BY <1>1, <1>2, <1>3

(* Nobody is on the task of a handler that begins, or the task is not calm. *)
LEMMA Fresh ==
  ASSUME NEW r \in Requests, NEW t \in Tasks, TaskInv(t), req[r].pc = "idle",
         Calm(t)' => Calm(t) /\ Quiet(t),
         \A s \in Requests : s # r => req'[s] = req[s],
         Calm(t)' /\ req'[r].pc = "idle" => Settled(t)',
         Calm(t)' /\ req'[r].pc # "idle" => req'[r].task = t /\ Phase(r, t)'
  PROVE  TaskInv(t)'
<1> SUFFICES ASSUME Calm(t)'
             PROVE  /\ Quiet(t)' => Settled(t)'
                    /\ \A q, s \in Requests : Busy(q, t)' /\ Busy(s, t)' => q = s
                    /\ \A s \in Requests : Busy(s, t)' => Phase(s, t)'
  BY DEF TaskInv
<1>1. \A s \in Requests : s # r => ~Busy(s, t)'
  BY DEF Quiet, Busy
<1>2. Quiet(t)' => req'[r].pc = "idle"
  BY DEF Quiet, Busy
<1>3. Busy(r, t)' => Phase(r, t)'
  BY DEF Busy
<1> QED  BY <1>1, <1>2, <1>3

(* A step of a handler of task t leaves the other tasks alone. *)
LEMMA Others ==
  ASSUME NEW r \in Requests, NEW t \in Tasks, NEW u \in Tasks \ {t}, TaskInv(u),
         clashed \subseteq clashed', failed \subseteq failed',
         row'[u] = row[u], spec'[u] = spec[u], override'[u] = override[u], job'[u] = job[u],
         EntriesOf(u)' = EntriesOf(u),
         \A s \in Requests : s # r => req'[s] = req[s],
         ~Busy(r, u), ~Busy(r, u)'
  PROVE  TaskInv(u)'
<1>1. Calm(u)' => Calm(u)
  BY DEF Calm
<1>2. \A s \in Requests : /\ Busy(s, u)' <=> Busy(s, u)
                          /\ Busy(s, u) => req'[s] = req[s]
  BY DEF Busy
<1> QED  BY <1>1, <1>2, Frame

LEMMA CalmShrinks ==
  ASSUME NEW t \in Tasks, clashed \subseteq clashed', failed \subseteq failed'
  PROVE  Calm(t)' => Calm(t)
  BY DEF Calm

-----------------------------------------------------------------------------
(* The handlers begin *)

LEMMA HandlerAgrees ==
  ASSUME TypeOK, AgreeInv, NEW r \in Requests, NEW t \in Tasks, Handler(r, t)
  PROVE  AgreeInv'
<1>1. /\ UNCHANGED <<override, entries, job>>
      /\ row \in [Tasks -> {"new", "active", "inactive", "deleted"}]
      /\ \A u \in Tasks \ {t} : row'[u] = row[u] /\ spec'[u] = spec[u]
      /\ req[r].pc = "idle"
      /\ clashed' = IF Quiet(t) THEN clashed ELSE clashed \cup {t}
      /\ failed' = failed
      /\ \A s \in Requests : s # r => req'[s] = req[s]
      /\ req'[r].pc = "idle" \/ req'[r].task = t
  BY DEF Handler, TaskCreate, TaskUpdate, TaskToggle, TaskDelete, Begin, At, TypeOK,
         tableVars, cronVars
<1>2. ASSUME NEW u \in Tasks \ {t} PROVE TaskInv(u)'
  <2>1. EntriesOf(u)' = EntriesOf(u)
    BY <1>1 DEF EntriesOf
  <2> QED  BY <1>1, <2>1, Others DEF AgreeInv, Busy
<1>3. /\ Registered(t)' <=> Registered(t)
      /\ NotScheduled(t)' <=> NotScheduled(t)
      /\ EntriesOf(t)' = EntriesOf(t)
      /\ Held(t)' <=> Held(t)
  BY <1>1 DEF Registered, NotScheduled, EntriesOf, Held
<1>4. Calm(t)' => Calm(t) /\ Quiet(t) /\ Settled(t)
  BY <1>1 DEF Calm, AgreeInv, TaskInv
<1>5. CASE TaskCreate(r, t)
  <2>1. /\ row[t] = "new" /\ row'[t] = "active"
        /\ req'[r].pc = "effective" /\ req'[r].task = t /\ req'[r].data = spec'[t]
    BY <1>5 DEF TaskCreate, Begin, TypeOK
  <2>2. Calm(t)' => Phase(r, t)'
    BY <1>3, <1>4, <2>1, NotScheduledIs DEF Settled, Phase
  <2> QED  BY <1>1, <1>2, <1>4, <2>1, <2>2, Fresh DEF AgreeInv
<1>6. CASE TaskUpdate(r, t)
  <2>1. row' = row /\ Exists(t)
    BY <1>6 DEF TaskUpdate
  <2>2. CASE row[t] = "active"
    <3>1. /\ req'[r].pc = "remove" /\ req'[r].task = t /\ req'[r].then = "add"
          /\ req'[r].data = spec'[t]
      BY <1>6, <2>2 DEF TaskUpdate, Begin, TypeOK
    <3>2. Calm(t)' => Phase(r, t)'
      BY <1>3, <1>4, <2>1, <2>2, <3>1, SettledIsHeld DEF Phase
    <3> QED  BY <1>1, <1>2, <1>4, <3>1, <3>2, Fresh DEF AgreeInv
  <2>3. CASE row[t] # "active"
    <3>1. req' = req
      BY <1>6, <2>3 DEF TaskUpdate, Begin
    <3>2. Calm(t)' => Settled(t)'
      BY <1>3, <1>4, <2>1, <2>3 DEF Settled
    <3> QED  BY <1>1, <1>2, <1>4, <3>1, <3>2, Fresh DEF AgreeInv
  <2> QED  BY <2>2, <2>3
<1>7. CASE TaskToggle(r, t)
  <2>1. row' = row /\ (row[t] = "active" \/ row[t] = "inactive")
    BY <1>7 DEF TaskToggle, Exists, tableVars
  <2>2. /\ req'[r].pc = IF row[t] = "active" THEN "disable" ELSE "enable"
        /\ req'[r].task = t /\ req'[r].then = "end"
    BY <1>7 DEF TaskToggle, Begin, TypeOK
  <2>3. Calm(t)' => Phase(r, t)'
    <3>1. CASE row[t] = "active"
      BY <1>3, <1>4, <2>1, <2>2, <3>1, SettledIsHeld DEF Phase
    <3>2. CASE row[t] = "inactive"
      BY <1>3, <1>4, <2>1, <2>2, <3>2 DEF Phase, Settled
    <3> QED  BY <2>1, <3>1, <3>2
  <2>4. req'[r].pc # "idle"
    BY <2>2
  <2> QED  BY <1>1, <1>2, <1>4, <2>2, <2>3, <2>4, Fresh DEF AgreeInv
<1>8. CASE TaskDelete(r, t)
  <2>1. req'[r].pc = "remove" /\ req'[r].task = t /\ req'[r].then = "delete"
    BY <1>8 DEF TaskDelete, Begin, TypeOK
  <2>2. Calm(t)' => Phase(r, t)'
    BY <1>3, <1>4, <2>1, SettledIsHeld DEF Phase
  <2> QED  BY <1>1, <1>2, <1>4, <2>1, <2>2, Fresh DEF AgreeInv
<1> QED  BY <1>5, <1>6, <1>7, <1>8 DEF Handler

-----------------------------------------------------------------------------
(* The handlers go on *)

(* A step of the handler of task t, seen from the other tasks. *)
LEMMA Elsewhere ==
  ASSUME AgreeInv, NEW r \in Requests, NEW t \in Tasks, Busy(r, t), TaskInv(t)',
         clashed' = clashed, failed' = failed \/ Fails(t),
         \A u \in Tasks \ {t} : /\ row'[u] = row[u] /\ override'[u] = override[u]
                                /\ job'[u] = job[u] /\ EntriesOf(u)' = EntriesOf(u),
         spec' = spec,
         \A s \in Requests : s # r => req'[s] = req[s],
         req'[r].pc = "idle" \/ req'[r].task = t
  PROVE  AgreeInv'
<1>1. failed \subseteq failed'
  BY DEF Fails
<1>2. ASSUME NEW u \in Tasks \ {t} PROVE TaskInv(u)'
  BY <1>1, Others DEF AgreeInv, Busy
<1> QED  BY <1>2 DEF AgreeInv

(* Failing makes the task one the agreement does not speak of. *)
LEMMA FailedIsNotCalm ==
  ASSUME NEW t \in Tasks, Fails(t)
  PROVE  ~Calm(t)'
  BY DEF Fails, Calm

LEMMA ToggleAgrees ==
  ASSUME TypeOK, AgreeInv, NEW r \in Requests, NEW t \in Tasks, req[r].task = t,
         ToggleWrite(r)
  PROVE  AgreeInv'
<1>1. Busy(r, t) /\ req[r].pc \in {"enable", "disable"}
  BY DEF ToggleWrite, At, Busy
<1>2. /\ UNCHANGED <<spec, override, entries, job, clashed, failed>>
      /\ \A u \in Tasks \ {t} : row'[u] = row[u]
      /\ \A s \in Requests : s # r => req'[s] = req[s]
      /\ req'[r].pc = "idle" \/ req'[r].task = t
  BY ToggleMove DEF ToggleWrite, cronVars, historyVars, TypeOK
<1>3. \A u \in Tasks : EntriesOf(u)' = EntriesOf(u)
  BY <1>2 DEF EntriesOf
<1>4. Calm(t) => Phase(r, t)
  BY <1>1 DEF AgreeInv, TaskInv
<1>5. /\ Registered(t)' <=> Registered(t)
      /\ NotScheduled(t)' <=> NotScheduled(t)
      /\ Held(t)' <=> Held(t)
      /\ Calm(t)' <=> Calm(t)
  BY <1>2 DEF Registered, NotScheduled, EntriesOf, Held, Calm
<1>6. TaskInv(t)'
  <2>1. CASE Exists(t)
    <3>1. /\ req'[r].pc = IF At(r, "enable") THEN "effective" ELSE "remove"
          /\ req'[r].task = t /\ req'[r].then = req[r].then /\ req'[r].data = spec[t]
      BY <2>1, ToggleMove
    <3>2. row'[t] = IF At(r, "enable") THEN "active" ELSE "inactive"
      BY <1>1, <2>1 DEF ToggleWrite, TypeOK
    <3>3. Calm(t) => Phase(r, t)'
      <4>1. CASE req[r].pc = "enable"
        BY <1>2, <1>4, <1>5, <3>1, <3>2, <4>1, NotScheduledIs DEF Phase, At, NotScheduled
      <4>2. CASE req[r].pc = "disable"
        BY <1>4, <1>5, <3>1, <3>2, <4>2 DEF Phase, At
      <4> QED  BY <1>1, <4>1, <4>2
    <3>4. req'[r].pc # "idle"
      BY <3>1
    <3> QED  BY <1>1, <1>2, <1>5, <3>1, <3>3, <3>4, Alone DEF AgreeInv
  <2>2. CASE ~Exists(t)
    <3>1. ~Calm(t)
      BY <1>1, <1>4, <2>2 DEF Phase, Exists
    <3> QED  BY <1>1, <1>2, <1>5, <3>1, Alone DEF AgreeInv
  <2> QED  BY <2>1, <2>2
<1> QED  BY <1>1, <1>2, <1>3, <1>6, Elsewhere

LEMMA DeleteAgrees ==
  ASSUME TypeOK, AgreeInv, NEW r \in Requests, NEW t \in Tasks, req[r].task = t,
         DeleteRow(r)
  PROVE  AgreeInv'
<1>1. Busy(r, t) /\ req[r].pc = "delete"
  BY DEF DeleteRow, At, Busy
<1>2. /\ UNCHANGED <<spec, override, entries, job, clashed>>
      /\ failed' = failed \/ Fails(t)
      /\ \A u \in Tasks \ {t} : row'[u] = row[u]
      /\ \A s \in Requests : s # r => req'[s] = req[s]
      /\ req'[r].pc = "idle"
  BY DEF DeleteRow, cronVars, historyVars, Fails, Finish, Idle, TypeOK
<1>3. \A u \in Tasks : EntriesOf(u)' = EntriesOf(u)
  BY <1>2 DEF EntriesOf
<1>4. Calm(t)' => Calm(t) /\ Phase(r, t)
  BY <1>1, <1>2 DEF AgreeInv, TaskInv, Calm, Fails
<1>5. Calm(t)' => Settled(t)'
  <2>1. Calm(t)' => row'[t] = "deleted"
    BY FailedIsNotCalm DEF DeleteRow, TypeOK
  <2>2. Calm(t)' => NotScheduled(t)'
    BY <1>1, <1>2, <1>4 DEF Phase, NotScheduled, Registered
  <2> QED  BY <2>1, <2>2 DEF Settled
<1>6. TaskInv(t)'
  BY <1>1, <1>2, <1>4, <1>5, Alone DEF AgreeInv
<1> QED  BY <1>1, <1>2, <1>3, <1>6, Elsewhere

LEMMA RemoveAgrees ==
  ASSUME TypeOK, IdInv, AgreeInv, NEW r \in Requests, NEW t \in Tasks,
         req[r].task = t, RemoveEntry(r)
  PROVE  AgreeInv'
<1>1. Busy(r, t) /\ req[r].pc = "remove"
  BY DEF RemoveEntry, At, Busy
<1>2. /\ UNCHANGED <<row, spec, override, job, clashed, failed>>
      /\ entries' = {e \in entries : e.id # taskEntry[t]}
      /\ \A s \in Requests : s # r => req'[s] = req[s]
      /\ req'[r].pc = "unregister" /\ req'[r].task = t
      /\ req'[r].then = req[r].then /\ req'[r].data = req[r].data
  BY DEF RemoveEntry, tableVars, historyVars, Goto, TypeOK
<1>3. \A u \in Tasks \ {t} : EntriesOf(u)' = EntriesOf(u)
  BY <1>2 DEF EntriesOf, IdInv
<1>4. Calm(t)' => Calm(t) /\ Phase(r, t)
  BY <1>1, <1>2 DEF AgreeInv, TaskInv, Calm
<1>5. Calm(t)' => Phase(r, t)'
  <2>1. Calm(t)' => Held(t)'
    BY <1>1, <1>2, <1>4 DEF Phase, Held, EntriesOf, Registered
  <2> QED  BY <1>1, <1>2, <1>4, <2>1 DEF Phase
<1>6. TaskInv(t)'
  BY <1>1, <1>2, <1>4, <1>5, Alone DEF AgreeInv
<1> QED  BY <1>1, <1>2, <1>3, <1>6, Elsewhere

LEMMA UnregisterAgrees ==
  ASSUME TypeOK, IdInv, AgreeInv, NEW r \in Requests, NEW t \in Tasks,
         req[r].task = t, Unregister(r)
  PROVE  AgreeInv'
<1>1. Busy(r, t) /\ req[r].pc = "unregister"
  BY DEF Unregister, At, Busy
<1>2. /\ UNCHANGED <<row, spec, clashed>>
      /\ failed' = failed \/ Fails(t)
      /\ \A u \in Tasks \ {t} : override'[u] = override[u] /\ job'[u] = job[u]
  BY DEF Unregister, historyVars, Fails, TypeOK
<1>3. /\ \A s \in Requests : s # r => req'[s] = req[s]
      /\ \/ req[r].then = "add" /\ req'[r].pc = "effective"
         \/ req[r].then = "delete" /\ req'[r].pc = "delete"
         \/ req[r].then = "end" /\ req'[r].pc = "idle"
      /\ req'[r].pc # "idle" => /\ req'[r].task = t /\ req'[r].data = req[r].data
                                /\ req'[r].then = req[r].then
  BY DEF Unregister, AfterRemoval, Goto, Finish, Idle, TypeOK
<1>4. entries' = entries \/ entries' = {e \in entries : e.id # job[t].entry}
  BY DEF Unregister
<1>5. \A u \in Tasks \ {t} : EntriesOf(u)' = EntriesOf(u)
  BY <1>4 DEF EntriesOf, IdInv
<1>6. Calm(t)' => Calm(t) /\ Phase(r, t)
  BY <1>1, <1>2 DEF AgreeInv, TaskInv, Calm, Fails
<1>7. Held(t) => NotScheduled(t)'
  <2>1. job'[t].entry = NoEntry
    BY DEF Unregister, Registered, Unregistered, TypeOK
  <2>2. Held(t) => \A e \in entries' : e.task # t
    BY DEF Unregister, Held, EntriesOf
  <2> QED  BY <2>1, <2>2 DEF NotScheduled, Registered
<1>8. Calm(t)' => NotScheduled(t)'
  BY <1>1, <1>6, <1>7 DEF Phase
<1>9. Calm(t)' /\ req'[r].pc = "idle" => Settled(t)'
  BY <1>1, <1>2, <1>3, <1>6, <1>8 DEF Phase, Settled
<1>10. Calm(t)' /\ req'[r].pc # "idle" => Phase(r, t)'
  BY <1>1, <1>2, <1>3, <1>6, <1>8 DEF Phase, NotScheduled
<1>11. TaskInv(t)'
  BY <1>1, <1>3, <1>6, <1>9, <1>10, Alone DEF AgreeInv
<1> QED  BY <1>1, <1>2, <1>3, <1>5, <1>11, Elsewhere

LEMMA ReadAgrees ==
  ASSUME TypeOK, AgreeInv, NEW r \in Requests, NEW t \in Tasks,
         req[r].task = t, ReadEffective(r)
  PROVE  AgreeInv'
<1>1. Busy(r, t) /\ req[r].pc = "effective"
  BY DEF ReadEffective, At, Busy
<1>2. /\ UNCHANGED <<row, spec, override, entries, job, clashed>>
      /\ failed' = failed \/ Fails(t)
  BY DEF ReadEffective, tableVars, cronVars, historyVars, Fails
<1>3. /\ \A s \in Requests : s # r => req'[s] = req[s]
      /\ req'[r].pc = "cron" /\ req'[r].task = t /\ req'[r].data = req[r].data
      /\ req'[r].effective = Effective(t, req[r].data) \/ Fails(t)
  BY ReadMove
<1>4. \A u \in Tasks : EntriesOf(u)' = EntriesOf(u)
  BY <1>2 DEF EntriesOf
<1>5. Calm(t)' => Calm(t) /\ Phase(r, t)
  BY <1>1, <1>2 DEF AgreeInv, TaskInv, Calm, Fails
<1>6. Calm(t)' => Phase(r, t)'
  <2>1. Calm(t)' => req'[r].effective = Effective(t, req[r].data)'
    BY <1>2, <1>3, FailedIsNotCalm DEF Effective
  <2>2. Calm(t)' => NotScheduled(t)' /\ ~Registered(t)'
    BY <1>1, <1>2, <1>5 DEF Phase, NotScheduled, Registered
  <2> QED  BY <1>1, <1>2, <1>3, <1>5, <2>1, <2>2 DEF Phase, Effective
<1>7. TaskInv(t)'
  BY <1>1, <1>3, <1>5, <1>6, Alone DEF AgreeInv
<1> QED  BY <1>1, <1>2, <1>3, <1>4, <1>7, Elsewhere

LEMMA AddAgrees ==
  ASSUME TypeOK, IdInv, AgreeInv, NEW r \in Requests, NEW t \in Tasks,
         req[r].task = t, AddEntry(r)
  PROVE  AgreeInv'
<1>1. Busy(r, t) /\ req[r].pc = "cron"
  BY DEF AddEntry, At, Busy
<1> DEFINE new == Entry(nextEntry, t, req[r].effective, req[r].data)
<1>2. /\ UNCHANGED <<row, spec, override, job, clashed, failed>>
      /\ entries' = entries \cup {new}
  BY DEF AddEntry, tableVars, historyVars
<1>3. /\ \A s \in Requests : s # r => req'[s] = req[s]
      /\ req'[r].pc = "keep" /\ req'[r].task = t /\ req'[r].data = req[r].data
      /\ req'[r].effective = req[r].effective /\ req'[r].entry = nextEntry
  BY DEF AddEntry, TypeOK
<1>4. new.task = t
  BY EntryFields
<1>5. Entry(req'[r].entry, t, req'[r].effective, req'[r].data) = new
  BY <1>3
<1> HIDE DEF new
<1>6. \A u \in Tasks \ {t} : EntriesOf(u)' = EntriesOf(u)
  BY <1>2, <1>4 DEF EntriesOf
<1>7. Calm(t)' => Calm(t) /\ Phase(r, t)
  BY <1>1, <1>2 DEF AgreeInv, TaskInv, Calm
<1>8. Calm(t)' => Phase(r, t)'
  <2>1. Calm(t)' => EntriesOf(t)' = {new}
    BY <1>1, <1>2, <1>4, <1>7 DEF Phase, EntriesOf, NotScheduled
  <2>2. Calm(t)' => row'[t] = "active" /\ req'[r].data = spec'[t] /\ ~Registered(t)'
    BY <1>1, <1>2, <1>3, <1>7 DEF Phase, Registered
  <2>3. Calm(t)' => req'[r].effective = Effective(t, req[r].data)'
    BY <1>1, <1>2, <1>3, <1>7 DEF Phase, Effective
  <2> QED  BY <1>3, <1>5, <2>1, <2>2, <2>3 DEF Phase, Effective
<1>9. TaskInv(t)'
  BY <1>1, <1>3, <1>7, <1>8, Alone DEF AgreeInv
<1> QED  BY <1>1, <1>2, <1>3, <1>6, <1>9, Elsewhere

LEMMA KeepAgrees ==
  ASSUME TypeOK, AgreeInv, NEW r \in Requests, NEW t \in Tasks,
         req[r].task = t, KeepEntry(r)
  PROVE  AgreeInv'
<1>1. Busy(r, t) /\ req[r].pc = "keep"
  BY DEF KeepEntry, At, Busy
<1>2. UNCHANGED <<row, spec, override, entries, job, clashed, failed>>
  BY DEF KeepEntry, tableVars, cronVars, historyVars
<1>3. /\ \A s \in Requests : s # r => req'[s] = req[s]
      /\ req'[r].pc = "register" /\ req'[r].task = t /\ req'[r].data = req[r].data
      /\ req'[r].effective = req[r].effective /\ req'[r].entry = req[r].entry
  BY DEF KeepEntry, Goto, TypeOK
<1>4. \A u \in Tasks : EntriesOf(u)' = EntriesOf(u)
  BY <1>2 DEF EntriesOf
<1>5. Calm(t)' => Calm(t) /\ Phase(r, t)
  BY <1>1, <1>2 DEF AgreeInv, TaskInv, Calm
<1>6. Calm(t)' => Phase(r, t)'
  BY <1>1, <1>2, <1>3, <1>4, <1>5 DEF Phase, Effective, Registered
<1>7. TaskInv(t)'
  BY <1>1, <1>3, <1>5, <1>6, Alone DEF AgreeInv
<1> QED  BY <1>1, <1>2, <1>3, <1>4, <1>7, Elsewhere

LEMMA RegisterAgrees ==
  ASSUME TypeOK, IdInv, AgreeInv, NEW r \in Requests, NEW t \in Tasks,
         req[r].task = t, Register(r)
  PROVE  AgreeInv'
<1>1. Busy(r, t) /\ req[r].pc = "register"
  BY DEF Register, At, Busy
<1>2. /\ UNCHANGED <<row, spec, override, entries, clashed>>
      /\ failed' = failed \/ Fails(t)
      /\ \A u \in Tasks \ {t} : job'[u] = job[u]
  BY DEF Register, tableVars, cronVars, historyVars, Fails, TypeOK
<1>3. /\ \A s \in Requests : s # r => req'[s] = req[s]
      /\ req'[r].pc = "idle"
  BY DEF Register, Finish, Idle, TypeOK
<1>4. /\ job'[t].entry = req[r].entry /\ job'[t].default = req[r].data
      /\ job'[t].schedule = Effective(t, req[r].data) \/ Fails(t)
  BY DEF Register, TypeOK
<1>5. \A u \in Tasks : EntriesOf(u)' = EntriesOf(u)
  BY <1>2 DEF EntriesOf
<1>6. Calm(t)' => Calm(t) /\ Phase(r, t)
  BY <1>1, <1>2 DEF AgreeInv, TaskInv, Calm, Fails
<1>7. Calm(t)' => Settled(t)'
  <2>1. req[r].entry > 0
    BY <1>1 DEF IdInv
  <2>2. Calm(t)' => job'[t].schedule = req[r].effective
    BY <1>1, <1>4, <1>6, FailedIsNotCalm DEF Phase
  <2>3. Calm(t)' => EntriesOf(t)' = {Entry(job'[t].entry, t, job'[t].schedule, job'[t].default)}
    BY <1>1, <1>4, <1>5, <1>6, <2>2 DEF Phase
  <2>4. Calm(t)' => row'[t] = "active" /\ job'[t].default = spec'[t]
    BY <1>1, <1>2, <1>4, <1>6 DEF Phase
  <2>5. Registered(t)'
    BY <1>4, <2>1 DEF Registered, NoEntry
  <2> QED  BY <2>3, <2>4, <2>5 DEF Settled, InForce
<1>8. TaskInv(t)'
  BY <1>1, <1>3, <1>6, <1>7, Alone DEF AgreeInv
<1> QED  BY <1>1, <1>2, <1>3, <1>5, <1>8, Elsewhere

LEMMA StepAgrees ==
  ASSUME TypeOK, IdInv, AgreeInv, NEW r \in Requests, Step(r)
  PROVE  AgreeInv'
<1>1. req[r].task \in Tasks
  BY Hand DEF Step, ToggleWrite, DeleteRow, RemoveEntry, Unregister, ReadEffective,
              AddEntry, KeepEntry, Register, At
<1> QED
  BY <1>1, ToggleAgrees, DeleteAgrees, RemoveAgrees, UnregisterAgrees, ReadAgrees,
     AddAgrees, KeepAgrees, RegisterAgrees DEF Step

-----------------------------------------------------------------------------
(* The overrides, the restart and the theorem *)

(* A job that is replaced: cron and the registry change together. *)
LEMMA ReplaceAgrees ==
  ASSUME TypeOK, IdInv, AgreeInv, NEW t \in Tasks, NEW s \in Schedules, NEW o,
         Registered(t), Override, Replace(t, s), Save(t, o),
         UNCHANGED <<row, spec, taskEntry, req>>
  PROVE  AgreeInv'
<1> DEFINE new == Entry(nextEntry, t, s, job[t].default)
<1>1. entries' = {e \in entries : e.id # job[t].entry} \cup {new}
  BY DEF Replace
<1>2. new.task = t /\ new.id = nextEntry
  BY EntryFields
<1>3. /\ job'[t].entry = nextEntry /\ job'[t].schedule = s
      /\ job'[t].default = job[t].default
      /\ \A u \in Tasks \ {t} : job'[u] = job[u] /\ override'[u] = override[u]
  BY DEF Replace, Save, TypeOK
<1>4. new = Entry(job'[t].entry, t, job'[t].schedule, job'[t].default)
  BY <1>3
<1> HIDE DEF new
<1>5. UNCHANGED clashed /\ failed \subseteq failed'
  BY DEF Override, Save
<1>6. \A u \in Tasks : Calm(u)' => Calm(u)
  BY <1>5, CalmShrinks
<1>7. \A u \in Tasks, r \in Requests : Busy(r, u)' <=> Busy(r, u)
  BY DEF Busy
<1>8. ASSUME NEW u \in Tasks \ {t} PROVE TaskInv(u)'
  <2>1. EntriesOf(u)' = EntriesOf(u)
    BY <1>1, <1>2 DEF EntriesOf, IdInv
  <2> QED  BY <1>3, <1>6, <1>7, <2>1, Frame DEF AgreeInv
<1>9. Registered(t)'
  BY <1>3 DEF Registered, NoEntry, IdInv
<1>10. Held(t) => EntriesOf(t)' = {new}
  BY <1>1, <1>2 DEF Held, EntriesOf
<1>11. TaskInv(t)'
  <2> SUFFICES ASSUME Calm(t)'
               PROVE  /\ Quiet(t)' => Settled(t)'
                      /\ \A q, r \in Requests : Busy(q, t)' /\ Busy(r, t)' => q = r
                      /\ \A r \in Requests : Busy(r, t)' => Phase(r, t)'
    BY DEF TaskInv
  <2>1. TaskInv(t) /\ Calm(t)
    BY <1>6 DEF AgreeInv
  <2>2. Quiet(t)' => Settled(t)'
    <3>1. Quiet(t)' => InForce(t) /\ row[t] = "active"
      BY <1>7, <2>1 DEF TaskInv, Quiet, Settled, NotScheduled
    <3>2. InForce(t) => Held(t)
      BY EntryFields DEF InForce, Held
    <3>3. Quiet(t)' => InForce(t)'
      BY <1>3, <1>4, <1>9, <1>10, <3>1, <3>2 DEF InForce
    <3> QED  BY <3>1, <3>3 DEF Settled
  <2>3. ASSUME NEW r \in Requests, Busy(r, t)' PROVE Phase(r, t)'
    <3>1. Phase(r, t) /\ req[r].pc # "idle"
      BY <1>7, <2>1, <2>3 DEF TaskInv, Busy
    <3>2. req[r].pc \in {"disable", "remove", "unregister"}
      BY <3>1 DEF Phase, NotScheduled, TypeOK, Steps
    <3>3. Held(t)'
      BY <1>3, <1>2, <1>9, <1>10, <3>1, <3>2 DEF Held, Phase
    <3> QED  BY <3>1, <3>2, <3>3 DEF Phase
  <2> QED  BY <1>7, <2>1, <2>2, <2>3 DEF TaskInv
<1> QED  BY <1>8, <1>11 DEF AgreeInv

(* A start settles every task none of its statements failed for, and the registry
   holds what cron has of the others. *)
LEMMA RestartSettles ==
  ASSUME TypeOK, Restart, NEW t \in Tasks
  PROVE  /\ t \notin failed' => Settled(t)'
         /\ row[t] # "active" => t \notin failed'
         /\ Held(t)'
<1>1. UNCHANGED <<row, spec, override>>
  BY DEF Restart, tableVars
<1>2. PICK loaded \in SUBSET Active, cron \in [Tasks -> Schedules], reg \in [Tasks -> Schedules] :
        Loads(loaded, cron, reg)
  BY RestartEffect, TypeParts
<1> DEFINE new(u) == Entry(u, u, cron[u], spec[u])
<1>3. \A u : new(u).task = u /\ new(u).id = u
  BY EntryFields
<1>4. entries' = {new(u) : u \in loaded}
  BY <1>2 DEF Loads
<1>5. t \in Nat /\ t # 0
  BY SchedulerAssumption DEF Tasks
<1>6. CASE t \in loaded
  <2>1. /\ job'[t].entry = t /\ job'[t].default = spec[t] /\ job'[t].schedule = reg[t]
        /\ row[t] = "active" /\ t \in Active
    BY <1>2, <1>6 DEF Active, Loads
  <2>2. t \notin failed' => new(t) = Entry(job'[t].entry, t, job'[t].schedule, job'[t].default)
    BY <1>2, <2>1 DEF Loads
  <2> HIDE DEF new
  <2>3. EntriesOf(t)' = {new(t)}
    BY <1>3, <1>4, <1>6 DEF EntriesOf
  <2>4. Registered(t)' /\ Held(t)'
    BY <1>3, <1>5, <2>1, <2>3 DEF Held, Registered, NoEntry
  <2> QED  BY <1>1, <2>1, <2>2, <2>3, <2>4 DEF Settled, InForce
<1>7. CASE t \notin loaded
  <2>1. job'[t].entry = NoEntry
    BY <1>2, <1>7 DEF Unregistered, Loads
  <2>2. row[t] # "active" \/ t \in failed'
    BY <1>2, <1>7 DEF Active, Loads
  <2>3. row[t] # "active" => t \notin failed'
    BY <1>2 DEF Active, Loads
  <2> HIDE DEF new
  <2>4. EntriesOf(t)' = {} /\ NotScheduled(t)'
    BY <1>3, <1>4, <1>7, <2>1 DEF EntriesOf, NotScheduled, Registered
  <2> QED  BY <1>1, <2>2, <2>3, <2>4 DEF Settled, Held
<1> QED  BY <1>6, <1>7

LEMMA RestartAgrees ==
  ASSUME TypeOK, Restart
  PROVE  AgreeInv'
<1>1. \A r \in Requests : req'[r].pc = "idle"
  BY DEF Restart, Idle
<1>2. \A t \in Tasks : t \notin failed' => Settled(t)'
  BY RestartSettles
<1> QED  BY <1>1, <1>2 DEF AgreeInv, TaskInv, Calm, Busy

LEMMA AgreeStep == TypeOK /\ IdInv /\ AgreeInv /\ [Next]_vars => AgreeInv'
<1> SUFFICES ASSUME TypeOK, IdInv, AgreeInv, [Next]_vars PROVE AgreeInv'
  OBVIOUS
<1>1. ASSUME NEW t \in Tasks, UpdateSchedule(t) PROVE AgreeInv'
  BY <1>1, ReplaceAgrees DEF UpdateSchedule
<1>2. ASSUME NEW t \in Tasks, ResetSchedule(t) PROVE AgreeInv'
  <2>1. job[t].default \in Schedules
    BY DEF TypeOK
  <2> QED  BY <1>2, <2>1, ReplaceAgrees DEF ResetSchedule
<1>3. CASE UNCHANGED vars
  <2>1. ASSUME NEW t \in Tasks PROVE TaskInv(t)'
    BY <1>3, Frame DEF AgreeInv, vars, tableVars, cronVars, historyVars, Calm, EntriesOf, Busy
  <2> QED  BY <2>1 DEF AgreeInv
<1> QED
  BY <1>1, <1>2, <1>3, HandlerAgrees, StepAgrees, RestartAgrees DEF Next

LEMMA InitAgrees == Init => AgreeInv
  BY DEF Init, AgreeInv, TaskInv, Quiet, Busy, Idle, Settled, NotScheduled,
         Registered, Unregistered

LEMMA AgreementFollows ==
  ASSUME AgreeInv, RegistryMatchesTable
  PROVE  Agreement
<1> SUFFICES ASSUME NEW t \in Tasks \ (clashed \cup failed), Quiet(t), row[t] = "active"
             PROVE  Scheduled(t)
  BY DEF Agreement, AgreeInv, TaskInv, Calm, Settled
<1>1. InForce(t)
  BY DEF AgreeInv, TaskInv, Calm, Settled
<1>2. job[t].schedule = Effective(t, spec[t])
  BY <1>1 DEF RegistryMatchesTable, InForce
<1> QED  BY <1>1, <1>2 DEF Scheduled, InForce, EntriesOf

(* task_executor.go:98-190: once the handlers of a task are done, and unless two
   of them overlapped or a statement failed since the start, the table, cron and
   the registry say the same of it, whatever was done to the other tasks. *)
THEOREM AllAgree == Spec => []Agreement
<1>1. Spec => []IdInv
  BY InitIds, IdStep, TypeCorrect, PTL DEF Spec
<1>2. Spec => []AgreeInv
  BY <1>1, InitAgrees, AgreeStep, TypeCorrect, PTL DEF Spec
<1> QED
  BY <1>2, AgreementFollows, RegistryAgreesWithTable, PTL

-----------------------------------------------------------------------------
(* What failed statements cannot do *)

(* task_executor.go:75-96, "LoadAndScheduleAll": whatever overlapping handlers and
   failed statements had left behind, a start brings table, cron and registry to
   agree on every task its own statements succeed for.  For the others, too, cron
   has nothing that the registry does not know of, and nothing of a task that is
   not active. *)
RestartRepairs ==
  [][ Restart => \A t \in Tasks :
        /\ row[t] = "active" /\ t \notin failed' => Scheduled(t)'
        /\ row[t] = "active" => Held(t)'
        /\ row[t] # "active" => NotScheduled(t)' ]_vars

(* For one start, from the lemma about Restart and the agreement of the overrides. *)
THEOREM StartRepairs == Spec => RestartRepairs
<1> DEFINE Repaired == \A t \in Tasks :
                         /\ row[t] = "active" /\ t \notin failed' => Scheduled(t)'
                         /\ row[t] = "active" => Held(t)'
                         /\ row[t] # "active" => NotScheduled(t)'
<1>1. TypeOK /\ RegistryMatchesTable' /\ Restart => Repaired
  <2> SUFFICES ASSUME TypeOK, RegistryMatchesTable', Restart, NEW t \in Tasks
               PROVE  /\ row[t] = "active" /\ t \notin failed' => Scheduled(t)'
                      /\ row[t] = "active" => Held(t)'
                      /\ row[t] # "active" => NotScheduled(t)'
    OBVIOUS
  <2>1. /\ t \notin failed' => Settled(t)'
        /\ row[t] # "active" => t \notin failed'
        /\ Held(t)'
    BY RestartSettles
  <2>2. row' = row
    BY DEF Restart, tableVars
  <2>3. ASSUME row[t] = "active", t \notin failed' PROVE Scheduled(t)'
    <3>1. InForce(t)'
      BY <2>1, <2>2, <2>3 DEF Settled
    <3>2. job'[t].schedule = Effective(t, spec[t])'
      BY <2>3, <3>1 DEF RegistryMatchesTable, InForce
    <3> QED  BY <3>1, <3>2 DEF Scheduled, InForce, EntriesOf
  <2> QED  BY <2>1, <2>2, <2>3 DEF Settled
<1> QED
  BY <1>1, TypeCorrect, RegistryAgreesWithTable, PTL DEF RestartRepairs

(* A failed statement leaves a wrong schedule or a missing entry; a task only one
   handler at a time works on still never has an entry nobody would remove.  These
   are the parts of Settled and Phase that survive a failure. *)
AtRest(t) == IF row[t] = "active" THEN Held(t) ELSE NotScheduled(t)

Stage(r, t) ==
  LET q == req[r] IN
  /\ q.pc = "enable" => row[t] = "inactive"
  /\ q.pc = "disable" => row[t] = "active" /\ q.then = "end"
  /\ q.pc \in {"disable", "remove", "unregister"} => Held(t)
  /\ q.pc \in {"remove", "unregister"} /\ q.then = "add" => row[t] = "active"
  /\ q.pc \in {"remove", "unregister"} /\ q.then = "end" => row[t] = "inactive"
  /\ q.pc \in {"enable", "effective", "cron", "delete"} => NotScheduled(t)
  /\ q.pc \in {"effective", "cron", "keep", "register"} => row[t] = "active"
  /\ q.pc \in {"keep", "register"} =>
        ~Registered(t) /\ \A e \in EntriesOf(t) : e.id = q.entry

OneHandler(t) ==
  t \notin clashed =>
    /\ Quiet(t) => AtRest(t)
    /\ \A r, s \in Requests : Busy(r, t) /\ Busy(s, t) => r = s
    /\ \A r \in Requests : Busy(r, t) => Stage(r, t)

OwnInv == \A t \in Tasks : OneHandler(t)

(* What OneHandler(t) speaks of stays as it is. *)
LEMMA OwnFrame ==
  ASSUME NEW t \in Tasks, OneHandler(t), clashed \subseteq clashed',
         row'[t] = row[t], job'[t].entry = job[t].entry, EntriesOf(t)' = EntriesOf(t),
         \A r \in Requests : /\ Busy(r, t)' <=> Busy(r, t)
                             /\ Busy(r, t) => req'[r] = req[r]
  PROVE  OneHandler(t)'
<1>1. /\ Registered(t)' <=> Registered(t)
      /\ NotScheduled(t)' <=> NotScheduled(t)
      /\ Held(t)' <=> Held(t)
  BY NotScheduledIs DEF Registered, NotScheduled, EntriesOf, Held
<1>2. Quiet(t)' <=> Quiet(t)
  BY DEF Quiet
<1>3. \A r \in Requests : Busy(r, t) /\ Stage(r, t) => Stage(r, t)'
  BY <1>1 DEF Stage
<1> QED  BY <1>1, <1>2, <1>3 DEF OneHandler, AtRest

(* The handler that has a task to itself goes on. *)
LEMMA OwnAlone ==
  ASSUME NEW r \in Requests, NEW t \in Tasks, OneHandler(t), clashed' = clashed, Busy(r, t),
         \A s \in Requests : s # r => req'[s] = req[s],
         Stage(r, t) /\ t \notin clashed /\ req'[r].pc = "idle" => AtRest(t)',
         Stage(r, t) /\ t \notin clashed /\ req'[r].pc # "idle" =>
            req'[r].task = t /\ Stage(r, t)'
  PROVE  OneHandler(t)'
<1> SUFFICES ASSUME t \notin clashed
             PROVE  /\ Quiet(t)' => AtRest(t)'
                    /\ \A q, s \in Requests : Busy(q, t)' /\ Busy(s, t)' => q = s
                    /\ \A s \in Requests : Busy(s, t)' => Stage(s, t)'
  BY DEF OneHandler
<1>1. Stage(r, t) /\ \A s \in Requests : s # r => ~Busy(s, t)'
  BY DEF OneHandler, Busy
<1>2. Quiet(t)' => req'[r].pc = "idle"
  BY <1>1 DEF Quiet, Busy
<1>3. Busy(r, t)' => Stage(r, t)'
  BY <1>1 DEF Busy
<1> QED  BY <1>1, <1>2, <1>3

(* A handler begins on a task nobody is at, or shares it from now on. *)
LEMMA OwnFresh ==
  ASSUME NEW r \in Requests, NEW t \in Tasks, OneHandler(t), req[r].pc = "idle",
         t \notin clashed' => t \notin clashed /\ Quiet(t),
         \A s \in Requests : s # r => req'[s] = req[s],
         t \notin clashed' /\ AtRest(t) /\ req'[r].pc = "idle" => AtRest(t)',
         t \notin clashed' /\ AtRest(t) /\ req'[r].pc # "idle" =>
            req'[r].task = t /\ Stage(r, t)'
  PROVE  OneHandler(t)'
<1> SUFFICES ASSUME t \notin clashed'
             PROVE  /\ Quiet(t)' => AtRest(t)'
                    /\ \A q, s \in Requests : Busy(q, t)' /\ Busy(s, t)' => q = s
                    /\ \A s \in Requests : Busy(s, t)' => Stage(s, t)'
  BY DEF OneHandler
<1>1. AtRest(t) /\ \A s \in Requests : s # r => ~Busy(s, t)'
  BY DEF OneHandler, Quiet, Busy
<1>2. Quiet(t)' => req'[r].pc = "idle"
  BY <1>1 DEF Quiet, Busy
<1>3. Busy(r, t)' => Stage(r, t)'
  BY <1>1 DEF Busy
<1> QED  BY <1>1, <1>2, <1>3

(* A step of a handler of task t, seen from the other tasks. *)
LEMMA OwnElsewhere ==
  ASSUME OwnInv, NEW r \in Requests, NEW t \in Tasks, OneHandler(t)',
         clashed \subseteq clashed', Busy(r, t) \/ req[r].pc = "idle",
         \A u \in Tasks \ {t} : /\ row'[u] = row[u] /\ job'[u].entry = job[u].entry
                                /\ EntriesOf(u)' = EntriesOf(u),
         \A s \in Requests : s # r => req'[s] = req[s],
         req'[r].pc = "idle" \/ req'[r].task = t
  PROVE  OwnInv'
<1>1. ASSUME NEW u \in Tasks \ {t} PROVE OneHandler(u)'
  <2>1. \A s \in Requests : /\ Busy(s, u)' <=> Busy(s, u)
                            /\ Busy(s, u) => req'[s] = req[s]
    BY DEF Busy
  <2> QED  BY <2>1, OwnFrame DEF OwnInv
<1> QED  BY <1>1 DEF OwnInv

LEMMA HandlerOwns ==
  ASSUME TypeOK, OwnInv, NEW r \in Requests, NEW t \in Tasks, Handler(r, t)
  PROVE  OwnInv'
<1>1. /\ UNCHANGED <<entries, job>>
      /\ \A u \in Tasks \ {t} : row'[u] = row[u]
      /\ req[r].pc = "idle"
      /\ clashed' = IF Quiet(t) THEN clashed ELSE clashed \cup {t}
      /\ \A s \in Requests : s # r => req'[s] = req[s]
      /\ req'[r].pc = "idle" \/ req'[r].task = t
  BY DEF Handler, TaskCreate, TaskUpdate, TaskToggle, TaskDelete, Begin, At, TypeOK,
         tableVars, cronVars
<1>2. \A u \in Tasks : EntriesOf(u)' = EntriesOf(u)
  BY <1>1 DEF EntriesOf
<1>3. /\ Registered(t)' <=> Registered(t)
      /\ NotScheduled(t)' <=> NotScheduled(t)
      /\ Held(t)' <=> Held(t)
  BY <1>1 DEF Registered, NotScheduled, EntriesOf, Held
<1>4. t \notin clashed' => t \notin clashed /\ Quiet(t)
  BY <1>1
<1>5. AtRest(t) => Held(t)
  BY NotScheduledIs DEF AtRest, Held
<1>6. OneHandler(t)'
  <2>1. CASE TaskCreate(r, t)
    <3>1. row[t] = "new" /\ row'[t] = "active" /\ req'[r].pc = "effective" /\ req'[r].task = t
      BY <2>1 DEF TaskCreate, Begin, TypeOK
    <3>2. AtRest(t) => Stage(r, t)'
      BY <1>3, <3>1 DEF AtRest, Stage
    <3> QED  BY <1>1, <1>4, <3>1, <3>2, OwnFresh DEF OwnInv
  <2>2. CASE TaskUpdate(r, t)
    <3>1. row' = row
      BY <2>2 DEF TaskUpdate
    <3>2. CASE row[t] = "active"
      <4>1. req'[r].pc = "remove" /\ req'[r].task = t /\ req'[r].then = "add"
        BY <2>2, <3>2 DEF TaskUpdate, Begin, TypeOK
      <4>2. AtRest(t) => Stage(r, t)'
        BY <1>3, <1>5, <3>1, <3>2, <4>1 DEF Stage
      <4> QED  BY <1>1, <1>4, <4>1, <4>2, OwnFresh DEF OwnInv
    <3>3. CASE row[t] # "active"
      <4>1. req' = req
        BY <2>2, <3>3 DEF TaskUpdate, Begin
      <4>2. AtRest(t) => AtRest(t)'
        BY <1>3, <3>1 DEF AtRest
      <4> QED  BY <1>1, <1>4, <4>1, <4>2, OwnFresh DEF OwnInv
    <3> QED  BY <3>2, <3>3
  <2>3. CASE TaskToggle(r, t)
    <3>1. row' = row /\ (row[t] = "active" \/ row[t] = "inactive")
      BY <2>3 DEF TaskToggle, Exists, tableVars
    <3>2. /\ req'[r].pc = IF row[t] = "active" THEN "disable" ELSE "enable"
          /\ req'[r].task = t /\ req'[r].then = "end"
      BY <2>3 DEF TaskToggle, Begin, TypeOK
    <3>3. AtRest(t) => Stage(r, t)'
      <4>1. CASE row[t] = "active"
        BY <1>3, <1>5, <3>1, <3>2, <4>1 DEF Stage
      <4>2. CASE row[t] = "inactive"
        BY <1>3, <3>1, <3>2, <4>2 DEF Stage, AtRest
      <4> QED  BY <3>1, <4>1, <4>2
    <3>4. req'[r].pc # "idle"
      BY <3>2
    <3> QED  BY <1>1, <1>4, <3>2, <3>3, <3>4, OwnFresh DEF OwnInv
  <2>4. CASE TaskDelete(r, t)
    <3>1. req'[r].pc = "remove" /\ req'[r].task = t /\ req'[r].then = "delete"
      BY <2>4 DEF TaskDelete, Begin, TypeOK
    <3>2. AtRest(t) => Stage(r, t)'
      BY <1>3, <1>5, <3>1 DEF Stage
    <3> QED  BY <1>1, <1>4, <3>1, <3>2, OwnFresh DEF OwnInv
  <2> QED  BY <2>1, <2>2, <2>3, <2>4 DEF Handler
<1> QED  BY <1>1, <1>2, <1>6, OwnElsewhere

LEMMA StepOwns ==
  ASSUME TypeOK, IdInv, OwnInv, NEW r \in Requests, NEW t \in Tasks,
         req[r].task = t, Step(r)
  PROVE  OwnInv'
<1>1. t \in Tasks /\ Busy(r, t)
  BY Hand DEF Step, ToggleWrite, DeleteRow, RemoveEntry, Unregister, ReadEffective,
              AddEntry, KeepEntry, Register, At
<1>2. t = req[r].task
  OBVIOUS
<1>3. CASE ToggleWrite(r)
  <2>1. /\ UNCHANGED <<entries, job, clashed>>
        /\ \A u \in Tasks \ {t} : row'[u] = row[u]
        /\ \A s \in Requests : s # r => req'[s] = req[s]
        /\ req'[r].pc = "idle" \/ req'[r].task = t
    BY <1>2, <1>3, ToggleMove DEF ToggleWrite, cronVars, historyVars, TypeOK
  <2>2. \A u \in Tasks : EntriesOf(u)' = EntriesOf(u)
    BY <2>1 DEF EntriesOf
  <2>3. Held(t)' <=> Held(t)
    BY <2>1 DEF Held, EntriesOf, Registered
  <2>4. NotScheduled(t)' <=> NotScheduled(t)
    BY <2>1 DEF NotScheduled, Registered
  <2>5. Stage(r, t) => Exists(t)
    BY <1>2, <1>3 DEF Stage, ToggleWrite, At, Exists
  <2>6. CASE Exists(t)
    <3>1. /\ req'[r].pc = IF At(r, "enable") THEN "effective" ELSE "remove"
          /\ req'[r].task = t /\ req'[r].then = req[r].then
          /\ row'[t] = IF At(r, "enable") THEN "active" ELSE "inactive"
      BY <1>1, <1>2, <1>3, <2>6, ToggleMove DEF ToggleWrite, TypeOK
    <3>2. Stage(r, t) => Stage(r, t)'
      <4>1. CASE req[r].pc = "enable"
        BY <2>4, <3>1, <4>1 DEF Stage, At
      <4>2. CASE req[r].pc = "disable"
        BY <2>3, <3>1, <4>2 DEF Stage, At
      <4> QED  BY <1>3, <4>1, <4>2 DEF ToggleWrite, At
    <3>3. req'[r].pc # "idle"
      BY <3>1
    <3>4. OneHandler(t)'
      BY <1>1, <2>1, <3>1, <3>2, <3>3, OwnAlone DEF OwnInv
    <3> QED  BY <1>1, <2>1, <2>2, <3>4, OwnElsewhere
  <2>7. CASE ~Exists(t)
    <3>1. OneHandler(t)'
      <4>1. ~Stage(r, t)
        BY <2>5, <2>7
      <4> QED  BY <1>1, <2>1, <4>1, OwnAlone DEF OwnInv
    <3> QED  BY <1>1, <2>1, <2>2, <3>1, OwnElsewhere
  <2> QED  BY <2>6, <2>7
<1>4. CASE DeleteRow(r)
  <2>1. /\ UNCHANGED <<entries, job, clashed>>
        /\ \A u \in Tasks \ {t} : row'[u] = row[u]
        /\ \A s \in Requests : s # r => req'[s] = req[s]
        /\ req'[r].pc = "idle" /\ req[r].pc = "delete"
    BY <1>2, <1>4 DEF DeleteRow, At, cronVars, historyVars, Fails, Finish, Idle, TypeOK
  <2>2. \A u \in Tasks : EntriesOf(u)' = EntriesOf(u)
    BY <2>1 DEF EntriesOf
  <2>3. Stage(r, t) => AtRest(t)'
    <3>1. Stage(r, t) => NotScheduled(t)'
      BY <2>1 DEF Stage, NotScheduled, Registered
    <3> QED  BY <2>1, <3>1 DEF AtRest, Held, EntriesOf, NotScheduled
  <2>4. OneHandler(t)'
    BY <1>1, <2>1, <2>3, OwnAlone DEF OwnInv
  <2> QED  BY <1>1, <2>1, <2>2, <2>4, OwnElsewhere
<1>5. CASE RemoveEntry(r)
  <2>1. /\ UNCHANGED <<row, job, clashed>>
        /\ entries' = {e \in entries : e.id # taskEntry[t]}
        /\ \A s \in Requests : s # r => req'[s] = req[s]
        /\ req[r].pc = "remove" /\ req'[r].pc = "unregister" /\ req'[r].task = t
        /\ req'[r].then = req[r].then
    BY <1>2, <1>5 DEF RemoveEntry, At, tableVars, historyVars, Goto, TypeOK
  <2>2. \A u \in Tasks \ {t} : EntriesOf(u)' = EntriesOf(u)
    BY <1>1, <2>1 DEF EntriesOf, IdInv
  <2>3. Stage(r, t) => Stage(r, t)'
    <3>1. Stage(r, t) => Held(t)'
      BY <2>1 DEF Stage, Held, EntriesOf, Registered
    <3> QED  BY <2>1, <3>1 DEF Stage
  <2>4. OneHandler(t)'
    BY <1>1, <2>1, <2>3, OwnAlone DEF OwnInv
  <2> QED  BY <1>1, <2>1, <2>2, <2>4, OwnElsewhere
<1>6. CASE Unregister(r)
  <2>1. /\ UNCHANGED <<row, clashed>> /\ req[r].pc = "unregister"
        /\ \A u \in Tasks \ {t} : job'[u] = job[u]
    BY <1>2, <1>6 DEF Unregister, At, historyVars, Fails, TypeOK
  <2>2. /\ \A s \in Requests : s # r => req'[s] = req[s]
        /\ \/ req[r].then = "add" /\ req'[r].pc = "effective"
           \/ req[r].then = "delete" /\ req'[r].pc = "delete"
           \/ req[r].then = "end" /\ req'[r].pc = "idle"
        /\ req'[r].pc # "idle" => req'[r].task = t /\ req'[r].then = req[r].then
    BY <1>2, <1>6 DEF Unregister, AfterRemoval, Goto, Finish, Idle, TypeOK
  <2>3. entries' = entries \/ entries' = {e \in entries : e.id # job[t].entry}
    BY <1>2, <1>6 DEF Unregister
  <2>4. \A u \in Tasks \ {t} : EntriesOf(u)' = EntriesOf(u)
    BY <1>1, <2>3 DEF EntriesOf, IdInv
  <2>5. Held(t) => NotScheduled(t)'
    <3>1. job'[t].entry = NoEntry
      BY <1>1, <1>2, <1>6 DEF Unregister, Registered, Unregistered, TypeOK
    <3>2. Held(t) => \A e \in entries' : e.task # t
      BY <1>2, <1>6 DEF Unregister, Held, EntriesOf
    <3> QED  BY <3>1, <3>2 DEF NotScheduled, Registered
  <2>6. Stage(r, t) => NotScheduled(t)'
    BY <2>1, <2>5 DEF Stage
  <2>7. Stage(r, t) /\ req'[r].pc = "idle" => AtRest(t)'
    BY <2>1, <2>2, <2>6 DEF Stage, AtRest
  <2>8. Stage(r, t) /\ req'[r].pc # "idle" => Stage(r, t)'
    BY <2>1, <2>2, <2>6 DEF Stage
  <2>9. OneHandler(t)'
    BY <1>1, <2>1, <2>2, <2>7, <2>8, OwnAlone DEF OwnInv
  <2> QED  BY <1>1, <2>1, <2>2, <2>4, <2>9, OwnElsewhere
<1>7. CASE ReadEffective(r)
  <2>1. /\ UNCHANGED <<row, entries, job, clashed>> /\ req[r].pc = "effective"
        /\ \A s \in Requests : s # r => req'[s] = req[s]
        /\ req'[r].pc = "cron" /\ req'[r].task = t
    BY <1>2, <1>7, ReadMove DEF ReadEffective, At, tableVars, cronVars, historyVars, Fails
  <2>2. \A u \in Tasks : EntriesOf(u)' = EntriesOf(u)
    BY <2>1 DEF EntriesOf
  <2>3. Stage(r, t) => Stage(r, t)'
    <3>1. NotScheduled(t) => NotScheduled(t)'
      BY <2>1 DEF NotScheduled, Registered
    <3> QED  BY <2>1, <3>1 DEF Stage
  <2>4. OneHandler(t)'
    BY <1>1, <2>1, <2>3, OwnAlone DEF OwnInv
  <2> QED  BY <1>1, <2>1, <2>2, <2>4, OwnElsewhere
<1>8. CASE AddEntry(r)
  <2> DEFINE new == Entry(nextEntry, t, req[r].effective, req[r].data)
  <2>1. new.task = t /\ new.id = nextEntry
    BY EntryFields
  <2>2. /\ UNCHANGED <<row, job, clashed>> /\ req[r].pc = "cron"
        /\ entries' = entries \cup {new}
    BY <1>2, <1>8 DEF AddEntry, At, tableVars, historyVars
  <2>3. /\ \A s \in Requests : s # r => req'[s] = req[s]
        /\ req'[r].pc = "keep" /\ req'[r].task = t /\ req'[r].entry = nextEntry
    BY <1>2, <1>8 DEF AddEntry, TypeOK
  <2> HIDE DEF new
  <2>4. \A u \in Tasks \ {t} : EntriesOf(u)' = EntriesOf(u)
    BY <2>1, <2>2 DEF EntriesOf
  <2>5. Stage(r, t) => Stage(r, t)'
    <3>1. Stage(r, t) => EntriesOf(t)' = {new} /\ ~Registered(t)'
      BY <2>1, <2>2 DEF Stage, EntriesOf, NotScheduled, Registered
    <3> QED  BY <2>1, <2>2, <2>3, <3>1 DEF Stage
  <2>6. OneHandler(t)'
    BY <1>1, <2>2, <2>3, <2>5, OwnAlone DEF OwnInv
  <2> QED  BY <1>1, <2>2, <2>3, <2>4, <2>6, OwnElsewhere
<1>9. CASE KeepEntry(r)
  <2>1. UNCHANGED <<row, entries, job, clashed>> /\ req[r].pc = "keep"
    BY <1>9 DEF KeepEntry, At, tableVars, cronVars, historyVars
  <2>2. /\ \A s \in Requests : s # r => req'[s] = req[s]
        /\ req'[r].pc = "register" /\ req'[r].task = t /\ req'[r].entry = req[r].entry
    BY <1>2, <1>9 DEF KeepEntry, Goto, TypeOK
  <2>3. \A u \in Tasks : EntriesOf(u)' = EntriesOf(u)
    BY <2>1 DEF EntriesOf
  <2>4. Stage(r, t) => Stage(r, t)'
    BY <1>1, <2>1, <2>2, <2>3 DEF Stage, Registered
  <2>5. OneHandler(t)'
    BY <1>1, <2>1, <2>2, <2>4, OwnAlone DEF OwnInv
  <2> QED  BY <1>1, <2>1, <2>2, <2>3, <2>5, OwnElsewhere
<1>10. CASE Register(r)
  <2>1. /\ UNCHANGED <<row, entries, clashed>> /\ req[r].pc = "register"
        /\ \A u \in Tasks \ {t} : job'[u] = job[u]
        /\ job'[t].entry = req[r].entry
    BY <1>1, <1>2, <1>10 DEF Register, At, tableVars, cronVars, historyVars, Fails, TypeOK
  <2>2. /\ \A s \in Requests : s # r => req'[s] = req[s]
        /\ req'[r].pc = "idle"
    BY <1>10 DEF Register, Finish, Idle, TypeOK
  <2>3. \A u \in Tasks : EntriesOf(u)' = EntriesOf(u)
    BY <2>1 DEF EntriesOf
  <2>4. Stage(r, t) => AtRest(t)'
    <3>1. Registered(t)'
      BY <2>1 DEF Registered, NoEntry, IdInv
    <3>2. Stage(r, t) => Held(t)'
      BY <1>1, <2>1, <2>3, <3>1 DEF Stage, Held
    <3> QED  BY <2>1, <3>2 DEF Stage, AtRest
  <2>5. OneHandler(t)'
    BY <1>1, <2>1, <2>2, <2>4, OwnAlone DEF OwnInv
  <2> QED  BY <1>1, <2>1, <2>2, <2>3, <2>5, OwnElsewhere
<1> QED
  BY <1>3, <1>4, <1>5, <1>6, <1>7, <1>8, <1>9, <1>10 DEF Step

LEMMA ReplaceOwns ==
  ASSUME TypeOK, IdInv, OwnInv, NEW t \in Tasks, NEW s \in Schedules,
         Registered(t), Replace(t, s), UNCHANGED <<row, req, clashed>>
  PROVE  OwnInv'
<1> DEFINE new == Entry(nextEntry, t, s, job[t].default)
<1>1. entries' = {e \in entries : e.id # job[t].entry} \cup {new}
  BY DEF Replace
<1>2. new.task = t /\ new.id = nextEntry
  BY EntryFields
<1> HIDE DEF new
<1>3. job'[t].entry = nextEntry /\ \A u \in Tasks \ {t} : job'[u] = job[u]
  BY DEF Replace, TypeOK
<1>4. \A u \in Tasks, r \in Requests : Busy(r, u)' <=> Busy(r, u)
  BY DEF Busy
<1>5. ASSUME NEW u \in Tasks \ {t} PROVE OneHandler(u)'
  <2>1. EntriesOf(u)' = EntriesOf(u)
    BY <1>1, <1>2 DEF EntriesOf, IdInv
  <2> QED  BY <1>3, <1>4, <2>1, OwnFrame DEF OwnInv
<1>6. Held(t) => Held(t)'
  <2>1. Registered(t)'
    BY <1>3 DEF Registered, NoEntry, IdInv
  <2> QED  BY <1>1, <1>2, <1>3, <2>1 DEF Held, EntriesOf
<1>7. AtRest(t) => AtRest(t)'
  BY <1>6 DEF AtRest, NotScheduled
<1>8. ASSUME NEW r \in Requests, Busy(r, t), Stage(r, t) PROVE Stage(r, t)'
  <2>1. req[r].pc \in {"disable", "remove", "unregister"}
    BY <1>8 DEF Stage, Busy, NotScheduled, TypeOK, Steps
  <2> QED  BY <1>6, <1>8, <2>1 DEF Stage
<1>9. OneHandler(t)'
  BY <1>4, <1>7, <1>8 DEF OwnInv, OneHandler, Quiet
<1> QED  BY <1>5, <1>9 DEF OwnInv

LEMMA OwnStep == TypeOK /\ IdInv /\ OwnInv /\ [Next]_vars => OwnInv'
<1> SUFFICES ASSUME TypeOK, IdInv, OwnInv, [Next]_vars PROVE OwnInv'
  OBVIOUS
<1>1. ASSUME NEW t \in Tasks, UpdateSchedule(t) PROVE OwnInv'
  BY <1>1, ReplaceOwns DEF UpdateSchedule, Override
<1>2. ASSUME NEW t \in Tasks, ResetSchedule(t) PROVE OwnInv'
  <2>1. job[t].default \in Schedules
    BY DEF TypeOK
  <2> QED  BY <1>2, <2>1, ReplaceOwns DEF ResetSchedule, Override
<1>3. ASSUME Restart PROVE OwnInv'
  <2>1. row' = row /\ \A r \in Requests : req'[r].pc = "idle"
    BY <1>3 DEF Restart, Idle, tableVars
  <2>2. ASSUME NEW t \in Tasks PROVE AtRest(t)'
    BY <1>3, <2>1, RestartSettles DEF AtRest, Settled
  <2> QED  BY <2>1, <2>2 DEF OwnInv, OneHandler, Busy
<1>4. CASE UNCHANGED vars
  <2>1. ASSUME NEW t \in Tasks PROVE OneHandler(t)'
    BY <1>4, OwnFrame DEF OwnInv, vars, tableVars, cronVars, historyVars, EntriesOf, Busy
  <2> QED  BY <2>1 DEF OwnInv
<1>5. ASSUME NEW r \in Requests, Step(r) PROVE OwnInv'
  <2>1. req[r].task \in Tasks
    BY <1>5, Hand DEF Step, ToggleWrite, DeleteRow, RemoveEntry, Unregister, ReadEffective,
                      AddEntry, KeepEntry, Register, At
  <2> QED  BY <1>5, <2>1, StepOwns
<1> QED
  BY <1>1, <1>2, <1>3, <1>4, <1>5, HandlerOwns DEF Next

LEMMA InitOwns == Init => OwnInv
  BY DEF Init, OwnInv, OneHandler, Quiet, Busy, Idle, AtRest, NotScheduled,
         Registered, Unregistered

LEMMA OwnAlways == Spec => [](TypeOK /\ IdInv /\ OwnInv)
<1>1. Spec => []IdInv
  BY InitIds, IdStep, TypeCorrect, PTL DEF Spec
<1>2. Spec => []OwnInv
  BY <1>1, InitOwns, OwnStep, TypeCorrect, PTL DEF Spec
<1> QED  BY <1>1, <1>2, TypeCorrect, PTL

(* task_executor.go:103-116: as long as the handlers of a task do not overlap,
   failed statements or not, cron has no entry of it that is lost: the registry
   holds its id, or the handler at work does and goes on to register it. *)
NoEntryIsLost ==
  \A e \in entries : e.task \notin clashed =>
    /\ e.id # NoEntry
    /\ \/ e.id = job[e.task].entry
       \/ \E r \in Requests : Busy(r, e.task) /\ At(r, "keep") /\ e.id = req[r].entry
       \/ \E r \in Requests : Busy(r, e.task) /\ At(r, "register") /\ e.id = req[r].entry

(* Whatever fails: an entry of cron that RemoveTask would not find does not exist. *)
THEOREM EntriesAreHeld == Spec => []NoEntryIsLost
<1>1. TypeOK /\ IdInv /\ OwnInv => NoEntryIsLost
  <2> SUFFICES ASSUME TypeOK, IdInv, OwnInv, NEW e \in entries, e.task \notin clashed,
                      e.id # job[e.task].entry
               PROVE  \E r \in Requests : /\ Busy(r, e.task) /\ e.id = req[r].entry
                                          /\ At(r, "keep") \/ At(r, "register")
    BY DEF NoEntryIsLost, IdInv, NoEntry
  <2> DEFINE t == e.task
  <2>1. t \in Tasks /\ e \in EntriesOf(t)
    BY DEF TypeOK, EntriesOf
  <2>2. ~Held(t) /\ ~NotScheduled(t)
    BY <2>1 DEF Held, NotScheduled, EntriesOf
  <2>3. PICK r \in Requests : Busy(r, t) /\ Stage(r, t)
    BY <2>1, <2>2 DEF OwnInv, OneHandler, AtRest, Quiet
  <2>4. req[r].pc \in {"keep", "register"}
    BY <2>2, <2>3 DEF Stage, Busy, TypeOK, Steps
  <2> QED  BY <2>1, <2>3, <2>4 DEF Stage, At
<1> QED  BY <1>1, OwnAlways, PTL

(* task_executor.go:103, the same: a task that was switched off or deleted is not
   run again, failed statements or not. *)
OffMeansOff ==
  \A t \in Tasks \ clashed : Quiet(t) /\ row[t] # "active" => NotScheduled(t)

(* Whatever fails: a task that is not active is not in cron and not registered. *)
THEOREM OffIsOff == Spec => []OffMeansOff
<1>1. OwnInv => OffMeansOff
  BY DEF OwnInv, OneHandler, AtRest, OffMeansOff
<1> QED  BY <1>1, OwnAlways, PTL

(* An id stands for one entry. *)
UniqueIds == \A e, f \in entries : e.id = f.id => e = f

LEMMA UniqueAlways == Spec => []UniqueIds
<1>1. Init => UniqueIds
  BY DEF Init, UniqueIds
<1>2. TypeOK /\ IdInv /\ UniqueIds /\ [Next]_vars => UniqueIds'
  <2> SUFFICES ASSUME TypeOK, IdInv, UniqueIds, [Next]_vars PROVE UniqueIds'
    OBVIOUS
  <2>1. \/ entries' \subseteq entries
        \/ \E new : new.id = nextEntry /\ entries' \subseteq entries \cup {new}
        \/ Restart
    <3>1. ASSUME NEW r \in Requests, AddEntry(r)
          PROVE  \E new : new.id = nextEntry /\ entries' \subseteq entries \cup {new}
      <4>1. Entry(nextEntry, req[r].task, req[r].effective, req[r].data).id = nextEntry
        BY EntryFields
      <4> QED  BY <3>1, <4>1 DEF AddEntry
    <3>2. ASSUME NEW t, NEW s, Replace(t, s)
          PROVE  \E new : new.id = nextEntry /\ entries' \subseteq entries \cup {new}
      <4>1. Entry(nextEntry, t, s, job[t].default).id = nextEntry
        BY EntryFields
      <4> QED  BY <3>2, <4>1 DEF Replace
    <3>3. ASSUME NEW r \in Requests, Step(r), ~AddEntry(r) PROVE entries' \subseteq entries
      BY <3>3 DEF Step, ToggleWrite, DeleteRow, RemoveEntry, Unregister, ReadEffective,
                  KeepEntry, Register, cronVars
    <3>4. ASSUME NEW r \in Requests, NEW t \in Tasks, Handler(r, t)
          PROVE  entries' \subseteq entries
      BY <3>4 DEF Handler, TaskCreate, TaskUpdate, TaskToggle, TaskDelete, cronVars
    <3> QED  BY <3>1, <3>2, <3>3, <3>4 DEF Next, UpdateSchedule, ResetSchedule, vars, cronVars
  <2>2. CASE Restart
    <3>1. PICK loaded \in SUBSET Active, cron \in [Tasks -> Schedules], reg \in [Tasks -> Schedules] :
            Loads(loaded, cron, reg)
      BY <2>2, RestartEffect, TypeParts
    <3> QED  BY <3>1, EntryFields DEF UniqueIds, Loads
  <2>3. \A e \in entries : e.id # nextEntry
    BY DEF IdInv, TypeOK
  <2> QED  BY <2>1, <2>2, <2>3 DEF UniqueIds
<1> QED  BY <1>1, <1>2, OwnAlways, PTL DEF Spec

(* task_executor.go:118-142: a task is not run twice at a time; cron has one entry
   for it at most, while its handlers are at work as well, unless two overlapped. *)
AtMostOneEntry ==
  \A e, f \in entries : e.task = f.task /\ e.task \notin clashed => e = f

(* Whatever fails: two entries of one task take two handlers at once. *)
THEOREM NoDoubleEntry == Spec => []AtMostOneEntry
<1>1. TypeOK /\ OwnInv /\ UniqueIds => AtMostOneEntry
  <2> SUFFICES ASSUME TypeOK, OwnInv, UniqueIds, NEW e \in entries, NEW f \in entries,
                      e.task = f.task, e.task \notin clashed
               PROVE  e.id = f.id
    BY DEF AtMostOneEntry, UniqueIds
  <2> DEFINE t == e.task
  <2>1. t \in Tasks /\ e \in EntriesOf(t) /\ f \in EntriesOf(t)
    BY DEF TypeOK, EntriesOf
  <2>2. ~NotScheduled(t)
    BY DEF NotScheduled
  <2>3. CASE Held(t)
    BY <2>1, <2>3 DEF Held
  <2>4. CASE ~Held(t)
    <3>1. PICK r \in Requests : Busy(r, t) /\ Stage(r, t)
      BY <2>1, <2>2, <2>4 DEF OwnInv, OneHandler, AtRest, Quiet
    <3>2. req[r].pc \in {"keep", "register"}
      BY <2>2, <2>4, <3>1 DEF Stage, Busy, TypeOK, Steps
    <3> QED  BY <2>1, <3>1, <3>2 DEF Stage
  <2> QED  BY <2>3, <2>4
<1> QED  BY <1>1, OwnAlways, UniqueAlways, PTL

=============================================================================

------------------------- MODULE ModuleRegistry_proofs -------------------------
(* Proofs about ModuleRegistry, for every value of its constants. *)
EXTENDS ModuleRegistry, TLAPS

Request == [pc : {"idle", "init", "write"}, module : Modules, active : BOOLEAN,
            needsInit : BOOLEAN]

-----------------------------------------------------------------------------
(* What the operators return *)

LEMMA FirstModule == 1 \in Modules
  BY ModuleRegistryAssumption DEF Modules

LEMMA IdleType == Idle \in Request /\ Idle.pc = "idle" /\ Idle.active = FALSE /\ Idle.needsInit = FALSE
  BY FirstModule DEF Idle, Request

LEMMA RowTypes == NoRow \in Row /\ Unread \in Status
  BY DEF NoRow, Unread, Row, Status

LEMMA OneIsDue ==
  ASSUME TypeOK
  PROVE  \A v, w \in 1 .. Versions[at] : IsDue(v) /\ IsDue(w) => v = w
<1>1. Versions[at] \in Nat
  BY ModuleRegistryAssumption DEF TypeOK
<1> QED  BY <1>1 DEF IsDue, Unrecorded

LEMMA DueIsMigration ==
  ASSUME TypeOK, NEW v \in 1 .. Versions[at]
  PROVE  <<at, v>> \in Migrations
  BY DEF TypeOK, Migrations

LEMMA RecordedOf ==
  ASSUME TypeOK, NEW m \in Modules
  PROVE  \A v \in 1 .. Versions[m] : <<m, v>> \in Migrations
  BY DEF Migrations

LEMMA AdvanceType ==
  ASSUME TypeOK, NEW next \in Phases, Advance(next)
  PROVE  /\ at' \in Modules /\ phase' \in Phases
         /\ \/ at = Count /\ at' = 1 /\ phase' = next
            \/ at < Count /\ at' = at + 1 /\ phase' = phase
<1>1. CASE IsLast(at)
  BY <1>1, FirstModule DEF Advance, IsLast, TypeOK
<1>2. CASE ~IsLast(at)
  BY <1>2, ModuleRegistryAssumption DEF Advance, IsLast, TypeOK, Modules
<1> QED  BY <1>1, <1>2

(* What a request to change the status of a module leaves in memory. *)
LEMMA Asked ==
  ASSUME TypeOK, NEW r \in Admins, NEW m \in Modules, NEW active \in BOOLEAN,
         AskActive(r, m, active)
  PROVE  /\ req' \in [Admins -> Request]
         /\ \A s \in Admins \ {r} : req'[s] = req[s]
         /\ req'[r].module = m /\ req'[r].active = active
         /\ req'[r].needsInit <=> NeedsInit(m, active)
         /\ req'[r].pc = IF req'[r].needsInit THEN "init" ELSE "write"
<1> DEFINE needs == NeedsInit(m, active)
           q == [pc |-> IF needs THEN "init" ELSE "write", module |-> m,
                 active |-> active, needsInit |-> needs]
<1>1. needs \in BOOLEAN
  BY DEF NeedsInit
<1>2. req' = [req EXCEPT ![r] = q]
  BY DEF AskActive, Step
<1> HIDE DEF needs
<1>3. q \in Request /\ q.pc = (IF q.needsInit THEN "init" ELSE "write")
      /\ q.module = m /\ q.active = active /\ q.needsInit = needs
  BY <1>1 DEF Request
<1>4. needs <=> NeedsInit(m, active)
  BY DEF needs
<1> HIDE DEF q
<1>5. req' \in [Admins -> Request] /\ req'[r] = q /\ \A s \in Admins \ {r} : req'[s] = req[s]
  BY <1>2, <1>3 DEF TypeOK, Request
<1> QED  BY <1>3, <1>4, <1>5

(* What the write of a request leaves in memory and in the table. *)
LEMMA Written ==
  ASSUME TypeOK, NEW r \in Admins, WriteActive(r)
  PROVE  LET m == req[r].module IN
         /\ row' \in [Modules -> Row] /\ status' \in [Modules -> Status]
         /\ \A n \in Modules : /\ row'[n].known = row[n].known
                               /\ row'[n].sidebar = row[n].sidebar
                               /\ status'[n].sidebar = status[n].sidebar
         /\ \A n \in Modules \ {m} : row'[n] = row[n] /\ status'[n] = status[n]
         /\ row'[m].active = req[r].active /\ status'[m].active = req[r].active
         /\ status'[m].ready <=> status[m].ready \/ req[r].needsInit
<1> DEFINE m == req[r].module
           ready == status[m].ready \/ req[r].needsInit
           on == req[r].active
<1>1. m \in Modules /\ ready \in BOOLEAN /\ on \in BOOLEAN
  BY DEF TypeOK
<1>2. /\ row' = [row EXCEPT ![m].active = on]
      /\ status' = [status EXCEPT ![m] = [status[m] EXCEPT !.active = on,
                                                           !.ready = ready]]
  <2>1. /\ row' = [row EXCEPT ![m].active = req[r].active]
        /\ status' = [status EXCEPT ![m].active = req[r].active,
                                    ![m].ready = @ \/ req[r].needsInit]
    BY DEF WriteActive
  <2> QED  BY <1>1, <2>1 DEF TypeOK, Status
<1>3. ready <=> status[m].ready \/ req[r].needsInit
  OBVIOUS
<1> HIDE DEF ready, on, m
<1>4. row' \in [Modules -> Row] /\ status' \in [Modules -> Status]
  <2>0. row[m] \in Row /\ status[m] \in Status
    BY <1>1 DEF TypeOK
  <2>1. /\ [row[m] EXCEPT !.active = on] \in Row
        /\ [status[m] EXCEPT !.active = on, !.ready = ready] \in Status
    BY <1>1, <2>0 DEF Row, Status
  <2>2. row' = [row EXCEPT ![m] = [row[m] EXCEPT !.active = on]]
    BY <1>1, <1>2 DEF TypeOK
  <2> QED  BY <1>1, <1>2, <2>1, <2>2 DEF TypeOK
<1>5. status'[m].ready = ready /\ status'[m].active = on
  BY <1>1, <1>2 DEF TypeOK, Status
<1>6. \A n \in Modules : /\ row'[n].known = row[n].known
                          /\ row'[n].sidebar = row[n].sidebar
                          /\ status'[n].sidebar = status[n].sidebar
  BY <1>1, <1>2 DEF TypeOK, Row, Status
<1>7. \A n \in Modules \ {m} : row'[n] = row[n] /\ status'[n] = status[n]
  BY <1>1, <1>2 DEF TypeOK
<1>8. row'[m].active = on
  BY <1>1, <1>2 DEF TypeOK, Row
<1>9. status'[m].ready <=> status[m].ready \/ req[r].needsInit
  BY <1>3, <1>5
<1> QED  BY <1>4, <1>5, <1>6, <1>7, <1>8, <1>9 DEF m, on

(* A request that ends, or moves on with the same module. *)
LEMMA Finished ==
  ASSUME TypeOK, NEW r \in Admins, Finish(r)
  PROVE  /\ req' \in [Admins -> Request]
         /\ \A s \in Admins \ {r} : req'[s] = req[s]
         /\ req'[r] = Idle
  BY IdleType DEF TypeOK, Request, Finish, Step

LEMMA Initialised ==
  ASSUME TypeOK, NEW r \in Admins, InitOnActivation(r)
  PROVE  LET m == req[r].module IN
         /\ req' \in [Admins -> Request]
         /\ \A s \in Admins \ {r} : req'[s] = req[s]
         /\ req'[r] = [req[r] EXCEPT !.pc = "write"]
         /\ m \in Modules /\ inits' \in [Modules -> Nat]
         /\ inits'[m] = inits[m] + 1
         /\ \A n \in Modules \ {m} : inits'[n] = inits[n]
<1>1. req[r] \in Request /\ req[r].module \in Modules
  BY DEF TypeOK, Request
<1>2. [req[r] EXCEPT !.pc = "write"] \in Request
  BY <1>1 DEF Request
<1> QED  BY <1>1, <1>2 DEF TypeOK, Request, InitOnActivation, Step

LEMMA Loaded ==
  ASSUME TypeOK, LoadStatus
  PROVE  /\ row' \in [Modules -> Row] /\ status' \in [Modules -> Status]
         /\ \A n \in Modules \ {at} : row'[n] = row[n] /\ status'[n] = status[n]
         /\ row'[at].known /\ status'[at].ready = FALSE
         /\ row'[at].active = status'[at].active
         /\ row'[at].sidebar = status'[at].sidebar
<1>1. PICK d \in BOOLEAN : d = DefaultActive(at)
  BY DEF DefaultActive
<1> DEFINE loaded == IF row[at].known THEN row[at]
                     ELSE [known |-> TRUE, active |-> d, sidebar |-> FALSE]
           new == [active |-> loaded.active, sidebar |-> loaded.sidebar, ready |-> FALSE]
<1>2. at \in Modules /\ row[at] \in Row
  BY DEF TypeOK
<1>3. loaded \in Row /\ loaded.known = TRUE
  BY <1>1, <1>2 DEF Row
<1>4. new \in Status /\ new.active = loaded.active /\ new.sidebar = loaded.sidebar
      /\ new.ready = FALSE
  BY <1>3 DEF Row, Status
<1>5. row' = [row EXCEPT ![at] = loaded] /\ status' = [status EXCEPT ![at] = new]
  BY <1>1 DEF LoadStatus
<1> HIDE DEF loaded, new
<1> QED  BY <1>2, <1>3, <1>4, <1>5 DEF TypeOK

LEMMA SidebarWritten ==
  ASSUME TypeOK, NEW r \in Admins, NEW m \in Modules, NEW show \in BOOLEAN,
         SetShowInSidebar(r, m, show)
  PROVE  /\ row' \in [Modules -> Row] /\ status' \in [Modules -> Status]
         /\ \A n \in Modules : /\ row'[n].known = row[n].known
                               /\ row'[n].active = row[n].active
                               /\ status'[n].active = status[n].active
                               /\ status'[n].ready = status[n].ready
         /\ \A n \in Modules \ {m} : row'[n] = row[n] /\ status'[n] = status[n]
         /\ row'[m].sidebar = status'[m].sidebar
<1>1. row[m] \in Row /\ status[m] \in Status
  BY DEF TypeOK
<1>2. [row[m] EXCEPT !.sidebar = show] \in Row /\ [status[m] EXCEPT !.sidebar = show] \in Status
  BY <1>1 DEF Row, Status
<1>3. /\ row' = [row EXCEPT ![m] = [row[m] EXCEPT !.sidebar = show]]
      /\ status' = [status EXCEPT ![m] = [status[m] EXCEPT !.sidebar = show]]
  BY DEF SetShowInSidebar
<1> QED  BY <1>1, <1>2, <1>3 DEF TypeOK, Row, Status

-----------------------------------------------------------------------------
(* Types *)

LEMMA InitTyped == Init => TypeOK
  BY FirstModule, RowTypes, IdleType, ModuleRegistryAssumption
     DEF Init, TypeOK, Phases, Boot, Request

(* The steps of a start. *)
StartStep ==
  \/ Begin
  \/ \E v \in 1 .. Versions[at] : ApplyMigration(v) \/ RecordMigration(v)
  \/ Migrated \/ LoadStatus \/ InitModule \/ PreInitialise \/ Audit

AdminStep(r) ==
  \/ \E m \in Modules, on \in BOOLEAN : AskActive(r, m, on) \/ SetShowInSidebar(r, m, on)
  \/ InitOnActivation(r) \/ InitFailed(r) \/ WriteActive(r) \/ WriteFailed(r)

LEMMA Steps == Next <=> StartStep \/ ProcessEnds \/ \E r \in Admins : AdminStep(r)
  BY DEF Next, StartStep, AdminStep

LEMMA InitModuleType ==
  ASSUME TypeOK, InitModule
  PROVE  /\ inits' \in [Modules -> Nat] /\ status' \in [Modules -> Status]
         /\ \A n \in Modules \ {at} : inits'[n] = inits[n] /\ status'[n] = status[n]
         /\ status'[at].active = status[at].active /\ status'[at].sidebar = status[at].sidebar
         /\ status[at].active => inits'[at] = inits[at] + 1 /\ status'[at].ready = TRUE
         /\ ~status[at].active => inits' = inits /\ status' = status
<1>1. at \in Modules /\ status[at] \in Status
  BY DEF TypeOK
<1>2. CASE status[at].active
  <2> DEFINE new == [status[at] EXCEPT !.ready = TRUE]
  <2>1. /\ new \in Status /\ new.ready = TRUE
        /\ new.active = status[at].active /\ new.sidebar = status[at].sidebar
    BY <1>1 DEF Status
  <2>2. /\ status' = [status EXCEPT ![at] = new]
        /\ inits' = [inits EXCEPT ![at] = @ + 1]
    BY <1>2 DEF InitModule
  <2> HIDE DEF new
  <2>3. /\ inits' \in [Modules -> Nat] /\ status' \in [Modules -> Status]
        /\ \A n \in Modules \ {at} : inits'[n] = inits[n] /\ status'[n] = status[n]
        /\ status'[at] = new /\ inits'[at] = inits[at] + 1
    BY <1>1, <2>1, <2>2 DEF TypeOK
  <2> QED  BY <1>2, <2>1, <2>3
<1>3. CASE ~status[at].active
  BY <1>1, <1>3 DEF TypeOK, InitModule
<1> QED  BY <1>2, <1>3

LEMMA StartTyped == TypeOK /\ StartStep => TypeOK'
<1> SUFFICES ASSUME TypeOK, StartStep PROVE TypeOK'
  OBVIOUS
<1>1. CASE Begin
  BY <1>1, ModuleRegistryAssumption DEF Begin, TypeOK, database, historyVars, Phases
<1>2. ASSUME NEW v \in 1 .. Versions[at], ApplyMigration(v) \/ RecordMigration(v) PROVE TypeOK'
  BY <1>2, DueIsMigration DEF ApplyMigration, RecordMigration, TypeOK, historyVars, Phases
<1>3. CASE Migrated
  BY <1>3, AdvanceType DEF Migrated, TypeOK, database, historyVars, Phases
<1>4. CASE LoadStatus
  BY <1>4, AdvanceType, Loaded DEF LoadStatus, TypeOK, historyVars, Phases
<1>5. CASE InitModule
  BY <1>5, AdvanceType, InitModuleType DEF InitModule, TypeOK, database, historyVars, Phases
<1>6. CASE PreInitialise
  BY <1>6, ModuleRegistryAssumption DEF PreInitialise, TypeOK, database, Phases
<1>7. CASE Audit
  BY <1>7 DEF Audit, TypeOK, database, historyVars, Phases
<1> QED  BY <1>1, <1>2, <1>3, <1>4, <1>5, <1>6, <1>7 DEF StartStep

LEMMA EndTyped == TypeOK /\ ProcessEnds => TypeOK'
  BY FirstModule, RowTypes, IdleType DEF ProcessEnds, TypeOK, database, Phases, Boot, Request

LEMMA AdminTyped == ASSUME TypeOK, NEW r \in Admins, AdminStep(r) PROVE TypeOK'
<1>0. Fault => faults' \in 0 .. MaxFaults
  BY ModuleRegistryAssumption DEF Fault, TypeOK
<1>1. ASSUME NEW m \in Modules, NEW on \in BOOLEAN, AskActive(r, m, on) PROVE TypeOK'
  BY <1>1, Asked DEF AskActive, TypeOK, Request, database, start
<1>2. ASSUME NEW m \in Modules, NEW on \in BOOLEAN, SetShowInSidebar(r, m, on) PROVE TypeOK'
  BY <1>2, SidebarWritten DEF SetShowInSidebar, TypeOK, start, historyVars
<1>3. CASE InitOnActivation(r)
  BY <1>3, Initialised DEF InitOnActivation, TypeOK, Request, database, start, historyVars
<1>4. CASE InitFailed(r)
  BY <1>0, <1>4, Finished DEF InitFailed, TypeOK, Request, database, start, historyVars
<1>5. CASE WriteActive(r)
  BY <1>5, Written, Finished DEF WriteActive, TypeOK, Request, start, historyVars
<1>6. CASE WriteFailed(r)
  BY <1>0, <1>6, Finished DEF WriteFailed, TypeOK, Request, database, start
<1> QED  BY <1>1, <1>2, <1>3, <1>4, <1>5, <1>6 DEF AdminStep

LEMMA NextTyped == TypeOK /\ [Next]_vars => TypeOK'
<1>1. TypeOK /\ UNCHANGED vars => TypeOK'
  BY DEF vars, TypeOK
<1> QED  BY <1>1, Steps, StartTyped, EndTyped, AdminTyped

(* Every variable keeps its type, module numbers and counters their bounds. *)
THEOREM TypeCorrect == Spec => []TypeOK
  BY InitTyped, NextTyped, PTL DEF Spec

LEMMA AlwaysTyped == Spec => []TypeOK
  BY TypeCorrect

-----------------------------------------------------------------------------
(* Row and memory *)

Agrees(m) == /\ row[m].known
             /\ row[m].active = status[m].active
             /\ row[m].sidebar = status[m].sidebar

PersistInv ==
  /\ phase \in {"init", "preinit", "audit", "serve"} => \A m \in Modules : Agrees(m)
  /\ phase = "load" => \A m \in Modules : m < at => Agrees(m)

LEMMA NextPersist == TypeOK /\ PersistInv /\ [Next]_vars => PersistInv'
<1> SUFFICES ASSUME TypeOK, PersistInv, [Next]_vars PROVE PersistInv'
  OBVIOUS
<1>a. at \in Modules /\ \A m \in Modules : m \in Nat /\ 1 <= m /\ m <= Count
  BY ModuleRegistryAssumption DEF TypeOK, Modules
<1>1. ASSUME UNCHANGED <<row, status, phase, at>> PROVE PersistInv'
  BY <1>1 DEF PersistInv, Agrees
<1>2. CASE UNCHANGED vars
  BY <1>1, <1>2 DEF vars
<1>3. CASE StartStep
  <2>1. CASE Begin
    BY <2>1 DEF Begin, PersistInv
  <2>2. ASSUME NEW v \in 1 .. Versions[at], ApplyMigration(v) \/ RecordMigration(v)
        PROVE  PersistInv'
    BY <2>2 DEF ApplyMigration, RecordMigration, PersistInv
  <2>3. CASE Migrated
    <3>1. phase = "migrate" /\ phase' \in {"migrate", "load"} /\ (phase' = "load" => at' = 1)
      BY <2>3, AdvanceType DEF Migrated, Phases
    <3> QED  BY <1>a, <3>1 DEF PersistInv
  <2>4. CASE LoadStatus
    <3>1. /\ phase = "load"
          /\ \/ at = Count /\ phase' = "init"
             \/ at' = at + 1 /\ phase' = "load"
      BY <2>4, AdvanceType DEF LoadStatus, Phases
    <3>2. \A m \in Modules : m <= at => Agrees(m)'
      BY <1>a, <2>4, <3>1, Loaded DEF PersistInv, Agrees
    <3> QED  BY <1>a, <3>1, <3>2 DEF PersistInv
  <2>5. CASE InitModule
    <3>1. \A m \in Modules : Agrees(m)
      BY <2>5 DEF InitModule, PersistInv
    <3>2. \A m \in Modules : Agrees(m)'
      BY <2>5, <3>1, InitModuleType DEF InitModule, database, Agrees
    <3>3. phase' # "load"
      BY <2>5, AdvanceType DEF InitModule, Phases
    <3> QED  BY <3>2, <3>3 DEF PersistInv
  <2>6. CASE PreInitialise \/ Audit
    BY <2>6 DEF PreInitialise, Audit, database, PersistInv, Agrees
  <2> QED  BY <1>3, <2>1, <2>2, <2>3, <2>4, <2>5, <2>6 DEF StartStep
<1>4. CASE ProcessEnds
  BY <1>4 DEF ProcessEnds, PersistInv
<1>5. ASSUME NEW r \in Admins, AdminStep(r) PROVE PersistInv'
  <2>1. \A m \in Modules : Agrees(m)
    BY <1>5 DEF AdminStep, AskActive, SetShowInSidebar, InitOnActivation, InitFailed,
                WriteActive, WriteFailed, Serving, PersistInv
  <2>2. phase = "serve" /\ UNCHANGED <<phase, at>>
    BY <1>5 DEF AdminStep, AskActive, SetShowInSidebar, InitOnActivation, InitFailed,
                WriteActive, WriteFailed, Serving, start
  <2>3. ASSUME NEW m \in Modules, NEW on \in BOOLEAN, SetShowInSidebar(r, m, on)
        PROVE  PersistInv'
    BY <2>1, <2>2, <2>3, SidebarWritten DEF PersistInv, Agrees
  <2>4. CASE WriteActive(r)
    BY <2>1, <2>2, <2>4, Written DEF PersistInv, Agrees
  <2> QED  BY <1>1, <1>5, <2>2, <2>3, <2>4
           DEF AdminStep, AskActive, InitOnActivation, InitFailed, WriteFailed, database
<1> QED  BY <1>2, <1>3, <1>4, <1>5, Steps

(* What the process holds of the status of a module is what the table holds. *)
THEOREM Persisted == Spec => []StatusPersisted
<1>1. Init => PersistInv
  BY DEF Init, PersistInv
<1>2. PersistInv => StatusPersisted
  BY DEF PersistInv, StatusPersisted, Agrees
<1> QED  BY <1>1, <1>2, AlwaysTyped, NextPersist, PTL DEF Spec

-----------------------------------------------------------------------------
(* Migrations *)

Recorded(m) == \A v \in 1 .. Versions[m] : <<m, v>> \in recorded

Interrupting(m, v) == phase = "record" /\ m = at /\ IsDue(v)

MigrationInv ==
  /\ phase = "down" => at = 1
  /\ \A g \in recorded : ran[g] > 0
  /\ phase \in {"migrate", "record"} => \A m \in Modules : m < at => Recorded(m)
  /\ phase \in {"load", "init", "preinit", "audit", "serve"} => \A m \in Modules : Recorded(m)
  /\ phase = "record" => \A v \in 1 .. Versions[at] : IsDue(v) => ran[<<at, v>>] > 0
  /\ \A m \in Modules : \A v \in 1 .. Versions[m] :
        ran[<<m, v>>] > 0 /\ <<m, v>> \notin recorded =>
          <<m, v>> \in interrupted \/ Interrupting(m, v)
  /\ \A g \in Migrations : ran[g] > 1 => g \in interrupted

LEMMA MigrationIs ==
  /\ \A g \in Migrations : \E m \in Modules : \E v \in 1 .. Versions[m] : g = <<m, v>>
  /\ \A m \in Modules : \A v \in 1 .. Versions[m] : <<m, v>> \in Migrations
  BY DEF Migrations

LEMMA SameMigrations ==
  ASSUME MigrationInv, UNCHANGED <<recorded, ran, interrupted, phase, at>>
  PROVE  MigrationInv'
  BY DEF MigrationInv, Recorded, Interrupting, IsDue, Unrecorded

LEMMA ApplyKeeps ==
  ASSUME TypeOK, MigrationInv, NEW v \in 1 .. Versions[at], ApplyMigration(v)
  PROVE  MigrationInv'
<1> DEFINE g == <<at, v>>
<1>1. g \in Migrations /\ g \notin recorded /\ at \in Modules /\ IsDue(v)
  BY DueIsMigration DEF ApplyMigration, IsDue, Unrecorded, TypeOK
<1>2. /\ phase = "migrate" /\ phase' = "record"
      /\ UNCHANGED <<recorded, interrupted, at>>
      /\ \A h \in Migrations : ran[h] \in Nat
      /\ ran'[g] = ran[g] + 1 /\ \A h \in Migrations \ {g} : ran'[h] = ran[h]
  BY <1>1 DEF ApplyMigration, historyVars, TypeOK
<1>3. \A w \in 1 .. Versions[at] : IsDue(w)' <=> IsDue(w)
  BY <1>2 DEF IsDue, Unrecorded
<1>4. \A w \in 1 .. Versions[at] : IsDue(w) => w = v
  BY <1>1, OneIsDue
<1>5. \A h \in recorded' : ran'[h] > 0
  BY <1>1, <1>2 DEF MigrationInv, TypeOK
<1>6. \A w \in 1 .. Versions[at'] : IsDue(w)' => ran'[<<at', w>>] > 0
  <2>1. ran[g] \in Nat
    BY <1>1, <1>2
  <2> QED  BY <1>2, <1>3, <1>4, <2>1
<1>7. ASSUME NEW m \in Modules, NEW w \in 1 .. Versions[m],
             ran'[<<m, w>>] > 0, <<m, w>> \notin recorded'
      PROVE  <<m, w>> \in interrupted' \/ Interrupting(m, w)'
  <2>1. CASE <<m, w>> = g
    BY <1>1, <1>2, <1>3, <2>1 DEF Interrupting
  <2>2. CASE <<m, w>> # g
    <3>1. ran[<<m, w>>] > 0 /\ <<m, w>> \notin recorded
      BY <1>2, <1>7, <2>2, MigrationIs
    <3> QED  BY <1>2, <3>1 DEF MigrationInv, Interrupting
  <2> QED  BY <2>1, <2>2
<1>8. ASSUME NEW h \in Migrations, ran'[h] > 1 PROVE h \in interrupted'
  <2>1. CASE h = g
    <3>1. ran[g] > 0
      BY <1>1, <1>2, <1>8, <2>1
    <3>2. g \in interrupted \/ Interrupting(at, v)
      BY <1>1, <3>1 DEF MigrationInv
    <3> QED  BY <1>2, <2>1, <3>2 DEF Interrupting
  <2>2. CASE h # g
    BY <1>2, <1>8, <2>2 DEF MigrationInv
  <2> QED  BY <2>1, <2>2
<1>9. phase' \in {"migrate", "record"} => \A m \in Modules : m < at' => Recorded(m)'
  BY <1>2 DEF MigrationInv, Recorded
<1> QED  BY <1>2, <1>5, <1>6, <1>7, <1>8, <1>9 DEF MigrationInv

LEMMA RecordKeeps ==
  ASSUME TypeOK, MigrationInv, NEW v \in 1 .. Versions[at], RecordMigration(v)
  PROVE  MigrationInv'
<1> DEFINE g == <<at, v>>
<1>1. g \in Migrations /\ at \in Modules /\ IsDue(v) /\ phase = "record" /\ phase' = "migrate"
      /\ recorded' = recorded \cup {g} /\ UNCHANGED <<ran, interrupted, at>>
  BY DueIsMigration DEF RecordMigration, historyVars, TypeOK
<1>2. ran[g] > 0
  BY <1>1 DEF MigrationInv
<1>3. \A h \in recorded' : ran'[h] > 0
  BY <1>1, <1>2 DEF MigrationInv
<1>4. \A m \in Modules : Recorded(m) => Recorded(m)'
  BY <1>1 DEF Recorded
<1>5. ASSUME NEW m \in Modules, NEW w \in 1 .. Versions[m],
             ran'[<<m, w>>] > 0, <<m, w>> \notin recorded'
      PROVE  <<m, w>> \in interrupted'
  <2>1. <<m, w>> \in interrupted \/ Interrupting(m, w)
    BY <1>1, <1>5 DEF MigrationInv
  <2>2. ~Interrupting(m, w)
    <3>1. SUFFICES ASSUME Interrupting(m, w) PROVE FALSE
      OBVIOUS
    <3>2. m = at /\ w = v
      BY <1>1, <3>1, OneIsDue DEF Interrupting
    <3> QED  BY <1>1, <1>5, <3>2
  <2> QED  BY <1>1, <2>1, <2>2
<1> QED  BY <1>1, <1>3, <1>4, <1>5 DEF MigrationInv

LEMMA MigratedKeeps ==
  ASSUME TypeOK, MigrationInv, Migrated
  PROVE  MigrationInv'
<1>1. /\ phase = "migrate" /\ UNCHANGED <<recorded, ran, interrupted>>
      /\ \/ at = Count /\ at' = 1 /\ phase' = "load"
         \/ at < Count /\ at' = at + 1 /\ phase' = "migrate"
  BY AdvanceType DEF Migrated, database, historyVars, Phases
<1>2. Recorded(at)
  BY DEF Migrated, Unrecorded, Recorded
<1>3. at \in Modules /\ Count \in Nat /\ \A m \in Modules : m \in Nat /\ m <= Count
  BY ModuleRegistryAssumption DEF TypeOK, Modules
<1>4. \A m \in Modules : m <= at => Recorded(m)
  <2>1. \A m \in Modules : m < at => Recorded(m)
    BY <1>1 DEF MigrationInv
  <2> QED  BY <1>2, <1>3, <2>1
<1>5. \A m \in Modules : Recorded(m)' <=> Recorded(m)
  BY <1>1 DEF Recorded
<1>6. /\ phase' \in {"migrate", "record"} => \A m \in Modules : m < at' => Recorded(m)'
      /\ phase' = "load" => \A m \in Modules : Recorded(m)'
  BY <1>1, <1>3, <1>4, <1>5
<1>7. \A m \in Modules : \A v \in 1 .. Versions[m] : ~Interrupting(m, v)
  BY <1>1 DEF Interrupting
<1> QED  BY <1>1, <1>6, <1>7 DEF MigrationInv

LEMMA NextMigrations == TypeOK /\ MigrationInv /\ [Next]_vars => MigrationInv'
<1> SUFFICES ASSUME TypeOK, MigrationInv, [Next]_vars PROVE MigrationInv'
  OBVIOUS
<1>a. \A m \in Modules : m \in Nat /\ 1 <= m
  BY DEF Modules
<1>1. CASE UNCHANGED vars
  BY <1>1, SameMigrations DEF vars
(* Steps that leave the tables and the migrations alone. *)
<1>2. ASSUME phase \notin {"migrate", "record"}, UNCHANGED <<recorded, ran, interrupted>>,
             phase' \notin {"record", "down"}, phase = "down" <=> phase' = "migrate",
             phase = "down" => at' = at
      PROVE  MigrationInv'
  <2>1. phase' # "migrate" => \A m \in Modules : Recorded(m)
    BY <1>2 DEF MigrationInv, TypeOK, Phases
  <2>2. \A m \in Modules : Recorded(m)' <=> Recorded(m)
    BY <1>2 DEF Recorded
  <2>3. \A m \in Modules : \A v \in 1 .. Versions[m] : ~Interrupting(m, v)
    BY <1>2 DEF Interrupting
  <2> QED  BY <1>a, <1>2, <2>1, <2>2, <2>3 DEF MigrationInv
<1>3. CASE StartStep
  <2>1. CASE Begin
    BY <1>2, <2>1 DEF Begin, database, historyVars
  <2>2. CASE LoadStatus \/ InitModule
    BY <1>2, <2>2, AdvanceType DEF LoadStatus, InitModule, database, historyVars, Phases
  <2>3. CASE PreInitialise \/ Audit
    BY <1>2, <2>3 DEF PreInitialise, Audit, database, historyVars
  <2> QED  BY <1>3, <2>1, <2>2, <2>3, ApplyKeeps, RecordKeeps, MigratedKeeps DEF StartStep
<1>4. CASE ProcessEnds
  <2>1. /\ phase' = "down" /\ at' = 1 /\ UNCHANGED <<recorded, ran>> /\ interrupted \subseteq interrupted'
        /\ phase = "record" =>
             interrupted' = interrupted \cup {g \in Migrations : g[1] = at /\ IsDue(g[2])}
    BY <1>4 DEF ProcessEnds, database
  <2>2. \A m \in Modules : \A v \in 1 .. Versions[m] :
           Interrupting(m, v) => <<m, v>> \in interrupted'
    BY <2>1, MigrationIs DEF Interrupting
  <2> QED  BY <2>1, <2>2 DEF MigrationInv
<1>5. ASSUME NEW r \in Admins, AdminStep(r) PROVE MigrationInv'
  BY <1>2, <1>5 DEF AdminStep, AskActive, SetShowInSidebar, InitOnActivation, InitFailed,
                    WriteActive, WriteFailed, Serving, database, start, historyVars
<1> QED  BY <1>1, <1>3, <1>4, <1>5, Steps

LEMMA InitMigrations == Init => MigrationInv
  BY MigrationIs DEF Init, MigrationInv

LEMMA AlwaysMigrations == Spec => []MigrationInv
  BY AlwaysTyped, InitMigrations, NextMigrations, PTL DEF Spec

-----------------------------------------------------------------------------
(* Requests and initialisation *)

(* Nobody is served during a start; a request that found a module not *)
(* initialised activates it.                                          *)
ReqInv ==
  /\ phase # "serve" => \A r \in Admins : req[r] = Idle
  /\ \A r \in Admins : /\ req[r].needsInit => req[r].active /\ req[r].pc # "idle"
                       /\ req[r].pc = "init" => req[r].needsInit

LEMMA NextReq == TypeOK /\ ReqInv /\ [Next]_vars => ReqInv'
<1> SUFFICES ASSUME TypeOK, ReqInv, [Next]_vars PROVE ReqInv'
  OBVIOUS
<1>1. ASSUME UNCHANGED req, phase' = "serve" \/ phase # "serve" PROVE ReqInv'
  BY <1>1 DEF ReqInv
<1>2. CASE UNCHANGED vars
  BY <1>1, <1>2 DEF vars
<1>3. CASE StartStep
  BY <1>1, <1>3 DEF StartStep, Begin, ApplyMigration, RecordMigration, Migrated, LoadStatus,
                    InitModule, PreInitialise, Audit
<1>4. CASE ProcessEnds
  BY <1>4, IdleType DEF ProcessEnds, ReqInv
<1>5. ASSUME NEW r \in Admins, AdminStep(r) PROVE ReqInv'
  <2>1. phase = "serve" /\ phase' = "serve"
    BY <1>5 DEF AdminStep, AskActive, SetShowInSidebar, InitOnActivation, InitFailed,
                WriteActive, WriteFailed, Serving, start
  <2>2. ASSUME NEW m \in Modules, NEW on \in BOOLEAN, AskActive(r, m, on) PROVE ReqInv'
    BY <2>1, <2>2, Asked DEF ReqInv, NeedsInit
  <2>3. ASSUME NEW m \in Modules, NEW on \in BOOLEAN, SetShowInSidebar(r, m, on) PROVE ReqInv'
    BY <1>1, <2>1, <2>3 DEF SetShowInSidebar
  <2>4. CASE InitOnActivation(r)
    <3>1. /\ req'[r].needsInit = req[r].needsInit /\ req'[r].active = req[r].active
          /\ req'[r].pc = "write" /\ req[r].pc = "init"
      <4>1. req[r] \in Request /\ req'[r] = [req[r] EXCEPT !.pc = "write"]
        BY <2>4, Initialised DEF TypeOK, Request
      <4>2. req[r].pc = "init"
        BY <2>4 DEF InitOnActivation, Serving
      <4> QED  BY <4>1, <4>2 DEF Request
    <3> QED  BY <2>1, <2>4, <3>1, Initialised DEF ReqInv
  <2>5. CASE InitFailed(r) \/ WriteActive(r) \/ WriteFailed(r)
    BY <2>1, <2>5, Finished, IdleType DEF InitFailed, WriteActive, WriteFailed, ReqInv
  <2> QED  BY <1>5, <2>2, <2>3, <2>4, <2>5 DEF AdminStep
<1> QED  BY <1>2, <1>3, <1>4, <1>5, Steps

LEMMA AlwaysReq == Spec => []ReqInv
<1>1. Init => ReqInv
  BY IdleType DEF Init, ReqInv
<1> QED  BY <1>1, AlwaysTyped, NextReq, PTL DEF Spec

(* How far the initialisation of module m is at each phase. *)
Prepared(m) ==
  /\ status[m].ready => inits[m] > 0
  /\ phase \in {"down", "migrate", "record", "load"} => inits[m] = 0
  /\ phase = "init" /\ at <= m => inits[m] = 0
  /\ phase = "init" /\ m < at /\ status[m].active => status[m].ready
  /\ phase \in {"init", "preinit"} /\ inits[m] > 0 =>
        inits[m] = 1 /\ status[m].active /\ status[m].ready
  /\ phase \in {"preinit", "audit", "serve"} /\ status[m].active => status[m].ready
  /\ phase = "serve" /\ m \in funcs => inits[m] > 0

(* A request that is about to write an activation has a module that is initialised. *)
WriteInv ==
  \A r \in Admins : req[r].pc = "write" =>
    /\ req[r].active => status[req[r].module].ready \/ req[r].needsInit
    /\ req[r].needsInit => inits[req[r].module] > 0

PreparedInv == WriteInv /\ \A m \in Modules : Prepared(m)

LEMMA StartPrepares == TypeOK /\ ReqInv /\ PreparedInv /\ StartStep => PreparedInv'
<1> SUFFICES ASSUME TypeOK, ReqInv, PreparedInv, StartStep PROVE PreparedInv'
  OBVIOUS
<1>a. \A m \in Modules : m \in Nat /\ m <= Count
  BY ModuleRegistryAssumption DEF Modules
<1>b. at \in Modules /\ Count \in Nat /\ inits \in [Modules -> Nat]
  BY ModuleRegistryAssumption DEF TypeOK
<1>1. WriteInv'
  <2>1. phase # "serve" /\ UNCHANGED req
    BY DEF StartStep, Begin, ApplyMigration, RecordMigration, Migrated, LoadStatus,
           InitModule, PreInitialise, Audit
  <2>2. \A r \in Admins : req'[r].pc = "idle"
    BY <2>1, IdleType DEF ReqInv
  <2> QED  BY <2>2 DEF WriteInv
<1>2. ASSUME NEW m \in Modules PROVE Prepared(m)'
  <2>0. Prepared(m)
    BY DEF PreparedInv
  <2>1. CASE Begin
    BY <2>0, <2>1 DEF Begin, Prepared
  <2>2. ASSUME NEW v \in 1 .. Versions[at], ApplyMigration(v) \/ RecordMigration(v)
        PROVE  Prepared(m)'
    BY <2>0, <2>2 DEF ApplyMigration, RecordMigration, Prepared
  <2>3. CASE Migrated
    <3>1. phase = "migrate" /\ phase' \in {"migrate", "load"} /\ UNCHANGED <<status, inits>>
      BY <2>3, AdvanceType DEF Migrated, Phases
    <3> QED  BY <2>0, <3>1 DEF Prepared
  <2>4. CASE LoadStatus
    <3>1. /\ phase = "load" /\ UNCHANGED inits
          /\ (phase' = "init" /\ at' = 1) \/ phase' = "load"
      BY <2>4, AdvanceType DEF LoadStatus, Phases
    <3>2. status'[m].ready => status[m].ready
      BY <2>4, Loaded
    <3> QED  BY <1>a, <2>0, <3>1, <3>2, FirstModule DEF Prepared, Modules
  <2>5. CASE InitModule
    <3>1. /\ phase = "init"
          /\ \/ at = Count /\ phase' = "preinit"
             \/ at' = at + 1 /\ phase' = "init"
      BY <2>5, AdvanceType DEF InitModule, Phases
    <3>2. CASE m = at
      <4>1. inits[m] = 0 /\ (status[m].ready => inits[m] > 0)
        BY <1>a, <2>0, <3>1, <3>2 DEF Prepared
      <4>2. CASE status[m].active
        <5>0. status[at].active
          BY <3>2, <4>2
        <5>1. /\ inits'[m] = 1 /\ status'[m].ready = TRUE
              /\ status'[m].active = status[m].active
          <6>1. inits'[at] = inits[at] + 1 /\ status'[at].ready = TRUE
            BY <2>5, <5>0, InitModuleType
          <6>2. status'[at].active = status[at].active
            BY <2>5, InitModuleType
          <6> QED  BY <3>2, <4>1, <6>1, <6>2
        <5>2. status'[m].active
          BY <4>2, <5>1
        <5> QED  BY <1>a, <3>1, <3>2, <5>1, <5>2 DEF Prepared
      <4>3. CASE ~status[m].active
        <5>1. UNCHANGED <<inits, status>> /\ phase' \in {"init", "preinit"}
          BY <2>5, <3>1, <3>2, <4>3 DEF InitModule
        <5>2. inits'[m] = 0 /\ ~status'[m].ready /\ ~status'[m].active
              /\ (phase' = "init" => ~(at' <= m))
          BY <1>a, <3>1, <3>2, <4>1, <4>3, <5>1
        <5> QED  BY <5>1, <5>2 DEF Prepared
      <4> QED  BY <4>2, <4>3
    <3>3. CASE m # at
      BY <1>a, <1>b, <2>0, <2>5, <3>1, <3>3, InitModuleType DEF Prepared
    <3> QED  BY <3>2, <3>3
  <2>6. CASE PreInitialise
    <3>1. /\ phase = "preinit" /\ phase' = "audit" /\ UNCHANGED status
          /\ inits'[m] \in Nat /\ inits'[m] >= inits[m]
      BY <1>b, <2>6 DEF PreInitialise
    <3> QED  BY <1>b, <2>0, <3>1 DEF Prepared
  <2>7. CASE Audit
    BY <2>0, <2>7 DEF Audit, Prepared
  <2> QED  BY <2>1, <2>2, <2>3, <2>4, <2>5, <2>6, <2>7 DEF StartStep
<1> QED  BY <1>1, <1>2 DEF PreparedInv

(* The phase and what it is at stay the same while administrators are served. *)
LEMMA AdminServes ==
  ASSUME NEW r \in Admins, AdminStep(r)
  PROVE  phase = "serve" /\ UNCHANGED start
  BY DEF AdminStep, AskActive, SetShowInSidebar, InitOnActivation, InitFailed,
         WriteActive, WriteFailed, Serving

(* While administrators are served, a module that is ready stays ready and an *)
(* initialisation is never undone.                                            *)
LEMMA StaysPrepared ==
  ASSUME TypeOK, PreparedInv, NEW r \in Admins, phase = "serve", UNCHANGED start,
         \A m \in Modules : /\ inits'[m] \in Nat /\ inits'[m] >= inits[m]
                            /\ status[m].ready => status'[m].ready
                            /\ status'[m].ready => inits'[m] > 0
                            /\ status'[m].active => status[m].active \/ status'[m].ready
  PROVE  \A m \in Modules : Prepared(m)'
<1> SUFFICES ASSUME NEW m \in Modules PROVE Prepared(m)'
  OBVIOUS
<1>1. Prepared(m) /\ inits[m] \in Nat
  BY DEF PreparedInv, TypeOK
<1>2. phase' = "serve" /\ funcs' = funcs
  BY DEF start
<1> QED  BY <1>1, <1>2 DEF Prepared

LEMMA AdminPrepares ==
  ASSUME TypeOK, ReqInv, PreparedInv, NEW r \in Admins, AdminStep(r)
  PROVE  PreparedInv'
<1>0. phase = "serve" /\ UNCHANGED start
  BY AdminServes
<1>a. \A m \in Modules : /\ inits[m] \in Nat /\ (status[m].ready => inits[m] > 0)
                         /\ status[m].active => status[m].ready
  BY <1>0 DEF TypeOK, PreparedInv, Prepared
<1>b. \A s \in Admins : req[s] \in Request /\ req[s].module \in Modules
  BY DEF TypeOK, Request
<1>c. WriteInv
  BY DEF PreparedInv
<1>1. ASSUME NEW m \in Modules, NEW on \in BOOLEAN, AskActive(r, m, on) PROVE PreparedInv'
  <2>1. UNCHANGED <<status, inits>>
    BY <1>1 DEF AskActive
  <2>2. \A n \in Modules : Prepared(n)'
    BY <1>0, <1>a, <2>1, StaysPrepared
  <2>3. req'[r].pc = "write" => /\ ~req'[r].needsInit
                                /\ req'[r].active => status[req'[r].module].ready
    BY <1>1, Asked DEF NeedsInit
  <2> QED  BY <1>1, <1>c, <2>1, <2>2, <2>3, Asked DEF PreparedInv, WriteInv
<1>2. ASSUME NEW m \in Modules, NEW on \in BOOLEAN, SetShowInSidebar(r, m, on)
      PROVE  PreparedInv'
  <2>1. UNCHANGED <<req, inits>>
    BY <1>2 DEF SetShowInSidebar
  <2>2. \A n \in Modules : Prepared(n)'
    BY <1>0, <1>2, <1>a, <2>1, SidebarWritten, StaysPrepared
  <2> QED  BY <1>2, <1>b, <1>c, <2>1, <2>2, SidebarWritten DEF PreparedInv, WriteInv
<1>3. CASE InitOnActivation(r)
  <2>1. UNCHANGED status /\ req[r].pc = "init" /\ req[r].needsInit
    BY <1>3 DEF InitOnActivation, ReqInv, Serving
  <2>2. \A n \in Modules : inits'[n] \in Nat /\ inits'[n] >= inits[n]
    <3>1. \A n \in Modules : inits'[n] = inits[n] \/ inits'[n] = inits[n] + 1
      BY <1>3, Initialised
    <3> QED  BY <1>a, <3>1
  <2>3. \A n \in Modules : Prepared(n)'
    BY <1>0, <1>a, <2>1, <2>2, StaysPrepared
  <2>4. req'[r].module = req[r].module /\ req'[r].needsInit = req[r].needsInit
    <3>1. req'[r] = [req[r] EXCEPT !.pc = "write"]
      BY <1>3, Initialised
    <3> QED  BY <1>b, <3>1 DEF Request
  <2>5. inits'[req'[r].module] > 0
    <3>1. inits'[req[r].module] = inits[req[r].module] + 1
      BY <1>3, Initialised
    <3> QED  BY <1>a, <1>b, <2>4, <3>1
  <2>6. \A s \in Admins \ {r} : req'[s].pc = "write" /\ req'[s].needsInit =>
           inits'[req'[s].module] > 0
    <3>1. \A s \in Admins \ {r} : req'[s] = req[s]
      BY <1>3, Initialised
    <3> QED  BY <1>a, <1>b, <1>c, <2>2, <3>1 DEF WriteInv
  <2>7. WriteInv'
    BY <1>3, <1>c, <2>1, <2>4, <2>5, <2>6, Initialised DEF WriteInv
  <2> QED  BY <2>3, <2>7 DEF PreparedInv
<1>4. CASE InitFailed(r) \/ WriteFailed(r)
  <2>1. UNCHANGED <<status, inits>> /\ Finish(r)
    BY <1>4 DEF InitFailed, WriteFailed
  <2>2. \A n \in Modules : Prepared(n)'
    BY <1>0, <1>a, <2>1, StaysPrepared
  <2> QED  BY <1>c, <2>1, <2>2, Finished, IdleType DEF PreparedInv, WriteInv
<1>5. CASE WriteActive(r)
  <2>1. UNCHANGED inits /\ Finish(r) /\ req[r].pc = "write" /\ req[r].module \in Modules
    BY <1>5, <1>b DEF WriteActive, Serving
  <2>2. \A n \in Modules : /\ status[n].ready => status'[n].ready
                           /\ status'[n].ready => inits'[n] > 0
                           /\ status'[n].active => status[n].active \/ status'[n].ready
    BY <1>5, <1>a, <1>c, <2>1, Written DEF WriteInv
  <2>3. \A n \in Modules : Prepared(n)'
    BY <1>0, <1>a, <2>1, <2>2, StaysPrepared
  <2> QED  BY <1>b, <1>c, <2>1, <2>2, <2>3, Finished, IdleType DEF PreparedInv, WriteInv
<1> QED  BY <1>1, <1>2, <1>3, <1>4, <1>5 DEF AdminStep

LEMMA AlwaysPrepared == Spec => []PreparedInv
<1>1. Init => PreparedInv
  BY IdleType DEF Init, PreparedInv, WriteInv, Prepared, Unread
<1>2. TypeOK /\ PreparedInv /\ ProcessEnds => PreparedInv'
  BY IdleType DEF ProcessEnds, PreparedInv, WriteInv, Prepared, Unread
<1>3. PreparedInv /\ UNCHANGED vars => PreparedInv'
  BY DEF vars, PreparedInv, WriteInv, Prepared
<1>4. TypeOK /\ ReqInv /\ PreparedInv /\ [Next]_vars => PreparedInv'
  BY <1>2, <1>3, Steps, StartPrepares, AdminPrepares
<1> QED  BY <1>1, <1>4, AlwaysTyped, AlwaysReq, PTL DEF Spec

(* A module in use has been initialised, and over all the migrations. *)
THEOREM Ready == Spec => []ActiveIsReady
<1> SUFFICES ASSUME TypeOK, MigrationInv, PreparedInv PROVE ActiveIsReady
  BY AlwaysTyped, AlwaysMigrations, AlwaysPrepared, PTL
<1>1. ASSUME phase = "serve", NEW m \in Modules, status[m].active \/ m \in funcs
      PROVE  inits[m] > 0
  BY <1>1 DEF PreparedInv, Prepared
<1>2. ASSUME NEW m \in Modules, inits[m] > 0
      PROVE  recorded = Migrations /\ \A g \in Migrations : ran[g] > 0
  <2>1. phase \in {"load", "init", "preinit", "audit", "serve"}
    <3>1. inits[m] # 0 /\ Prepared(m)
      BY <1>2 DEF PreparedInv
    <3> QED  BY <3>1 DEF TypeOK, Phases, Prepared
  <2>2. recorded = Migrations
    <3>1. recorded \subseteq Migrations /\ \A n \in Modules : Recorded(n)
      BY <2>1 DEF MigrationInv, TypeOK
    <3> QED  BY <3>1, MigrationIs DEF Recorded
  <2> QED  BY <2>2 DEF MigrationInv
<1> QED  BY <1>1, <1>2 DEF ActiveIsReady

-----------------------------------------------------------------------------
(* Nothing twice *)

(* A request that is about to write what it has initialised. *)
Pending(r, m) == req[r].pc = "write" /\ req[r].needsInit /\ req[r].module = m

OnceInv ==
  /\ \A m \in Modules : inits[m] > 0 /\ ~status[m].ready =>
        m \in again \/ \E r \in Admins : Pending(r, m)
  /\ \A r, s \in Admins : r # s /\ req[r].needsInit /\ req[s].needsInit
                          /\ req[r].module = req[s].module => req[r].module \in again
  /\ \A r \in Admins : req[r].needsInit /\ status[req[r].module].ready =>
        req[r].module \in again
  /\ \A m \in Modules : inits[m] > 1 => m \in again

LEMMA StartOnce ==
  ASSUME TypeOK, ReqInv, PreparedInv, OnceInv, StartStep
  PROVE  OnceInv'
<1>a. \A m \in Modules : inits[m] \in Nat /\ inits'[m] \in Nat
  BY StartTyped DEF TypeOK
<1>b. phase # "serve" /\ UNCHANGED req
  BY DEF StartStep, Begin, ApplyMigration, RecordMigration, Migrated, LoadStatus,
         InitModule, PreInitialise, Audit
<1>c. \A r \in Admins : ~req[r].needsInit
  BY <1>b, IdleType DEF ReqInv
<1>d. \A m \in Modules : inits[m] > 0 /\ ~status[m].ready => m \in again
  BY <1>c DEF OnceInv, Pending
<1>e. \A m \in Modules : inits[m] > 1 => m \in again
  BY DEF OnceInv
<1>f. SUFFICES ASSUME NEW m \in Modules
               PROVE  /\ inits'[m] > 0 /\ ~status'[m].ready => m \in again'
                      /\ inits'[m] > 1 => m \in again'
  BY <1>b, <1>c DEF OnceInv
<1>1. CASE UNCHANGED <<inits, status, again>>
  BY <1>d, <1>e, <1>1
<1>2. CASE LoadStatus
  <2>1. inits'[m] = 0
    BY <1>2 DEF LoadStatus, PreparedInv, Prepared
  <2> QED  BY <2>1
<1>3. CASE InitModule
  <2>1. phase = "init" /\ again' = again
    BY <1>3 DEF InitModule, historyVars
  <2>2. inits[m] > 0 => inits[m] = 1 /\ status[m].ready
    BY <2>1 DEF PreparedInv, Prepared
  <2>3. CASE m # at
    BY <1>3, <1>a, <2>2, <2>3, InitModuleType
  <2>4. CASE m = at
    <3>1. inits[m] = 0
      <4>1. Prepared(m) /\ at <= m
        BY <2>4 DEF PreparedInv, Modules
      <4> QED  BY <2>1, <4>1 DEF Prepared
    <3>2. CASE status[at].active
      <4>1. inits'[at] = inits[at] + 1 /\ status'[at].ready = TRUE
        BY <1>3, <3>2, InitModuleType
      <4> QED  BY <2>4, <3>1, <4>1
    <3>3. CASE ~status[at].active
      <4>1. inits' = inits
        BY <1>3, <3>3 DEF InitModule
      <4> QED  BY <3>1, <4>1
    <3> QED  BY <3>2, <3>3
  <2> QED  BY <2>3, <2>4
<1>4. CASE PreInitialise
  <2>1. PICK done \in SUBSET {n \in PreInit : ~status[n].active} :
          /\ inits' = [n \in Modules |-> inits[n] + IF n \in done THEN 1 ELSE 0]
          /\ again' = again \cup done
    BY <1>4 DEF PreInitialise
  <2>2. UNCHANGED status
    BY <1>4 DEF PreInitialise
  <2>3. CASE m \in done
    BY <2>1, <2>3
  <2>4. CASE m \notin done
    BY <1>a, <1>d, <1>e, <2>1, <2>2, <2>4
  <2> QED  BY <2>3, <2>4
<1> QED  BY <1>1, <1>2, <1>3, <1>4
         DEF StartStep, Begin, ApplyMigration, RecordMigration, Migrated, Audit, historyVars

LEMMA AdminOnce ==
  ASSUME TypeOK, ReqInv, PreparedInv, OnceInv, NEW r \in Admins, AdminStep(r)
  PROVE  OnceInv'
<1>a. \A m \in Modules : inits[m] \in Nat
  BY DEF TypeOK
<1>b. \A s \in Admins : req[s] \in Request /\ req[s].module \in Modules
  BY DEF TypeOK, Request
<1>1. ASSUME NEW m \in Modules, NEW on \in BOOLEAN, AskActive(r, m, on) PROVE OnceInv'
  <2>0. req[r].pc = "idle" /\ ~req[r].needsInit
    BY <1>1 DEF AskActive, Serving, ReqInv
  <2>1. UNCHANGED <<status, inits>> /\ again \subseteq again'
        /\ (NeedsInit(m, on) /\ Activating(r, m) => m \in again')
    BY <1>1 DEF AskActive
  <2>2. /\ \A s \in Admins \ {r} : req'[s] = req[s]
        /\ req'[r].module = m /\ (req'[r].needsInit <=> NeedsInit(m, on))
    BY <1>1, Asked
  <2>3. \A n \in Modules : \A s \in Admins : Pending(s, n) => Pending(s, n)'
    BY <2>0, <2>2 DEF Pending
  <2>4. ASSUME NEW s \in Admins, NEW t \in Admins, s # t, req'[s].needsInit, req'[t].needsInit,
               req'[s].module = req'[t].module
        PROVE  req'[s].module \in again'
    <3>1. CASE s # r /\ t # r
      BY <2>1, <2>2, <2>4, <3>1 DEF OnceInv
    <3>2. CASE s = r
      BY <2>1, <2>2, <2>4, <3>2 DEF Activating
    <3>3. CASE t = r
      BY <2>1, <2>2, <2>4, <3>3 DEF Activating
    <3> QED  BY <3>1, <3>2, <3>3
  <2>5. ASSUME NEW s \in Admins, req'[s].needsInit, status[req'[s].module].ready
        PROVE  req'[s].module \in again'
    <3>1. CASE s = r
      BY <2>2, <2>5, <3>1 DEF NeedsInit
    <3>2. CASE s # r
      BY <2>1, <2>2, <2>5, <3>2 DEF OnceInv
    <3> QED  BY <3>1, <3>2
  <2> QED  BY <2>1, <2>3, <2>4, <2>5 DEF OnceInv
<1>2. ASSUME NEW m \in Modules, NEW on \in BOOLEAN, SetShowInSidebar(r, m, on) PROVE OnceInv'
  <2>1. UNCHANGED <<req, inits, again>> /\ \A n \in Modules : status'[n].ready = status[n].ready
    BY <1>2, SidebarWritten DEF SetShowInSidebar, historyVars
  <2> QED  BY <1>b, <2>1 DEF OnceInv, Pending
<1>3. CASE InitOnActivation(r)
  <2> DEFINE m == req[r].module
  <2>1. /\ UNCHANGED <<status, again>> /\ req[r].pc = "init" /\ req[r].needsInit
        /\ m \in Modules
    BY <1>3, <1>b DEF InitOnActivation, ReqInv, Serving, historyVars
  <2>2. /\ req'[r].module = m /\ req'[r].needsInit = req[r].needsInit /\ req'[r].pc = "write"
        /\ \A s \in Admins \ {r} : req'[s] = req[s]
    <3>1. req'[r] = [req[r] EXCEPT !.pc = "write"]
          /\ \A s \in Admins \ {r} : req'[s] = req[s]
      BY <1>3, Initialised
    <3> QED  BY <1>b, <3>1 DEF Request
  <2>3. inits'[m] = inits[m] + 1 /\ \A n \in Modules \ {m} : inits'[n] = inits[n]
    BY <1>3, Initialised
  <2>4. inits'[m] > 1 => m \in again
    <3> SUFFICES ASSUME inits'[m] > 1 PROVE m \in again
      OBVIOUS
    <3>1. inits[m] > 0
      BY <1>a, <2>1, <2>3
    <3>2. CASE status[m].ready
      BY <2>1, <3>2 DEF OnceInv
    <3>3. ASSUME NEW s \in Admins, Pending(s, m) PROVE m \in again
      BY <2>1, <3>3 DEF OnceInv, Pending
    <3> QED  BY <2>1, <3>1, <3>2, <3>3 DEF OnceInv
  <2>5. \A n \in Modules : \A s \in Admins : Pending(s, n) => Pending(s, n)'
    BY <2>1, <2>2 DEF Pending
  <2>6. ASSUME NEW n \in Modules
        PROVE  /\ inits'[n] > 0 /\ ~status'[n].ready =>
                    n \in again' \/ \E s \in Admins : Pending(s, n)'
               /\ inits'[n] > 1 => n \in again'
    <3>1. CASE n = m
      <4>1. Pending(r, n)'
        BY <2>1, <2>2, <3>1 DEF Pending
      <4> QED  BY <2>1, <2>4, <3>1, <4>1
    <3>2. CASE n # m
      <4>1. inits'[n] = inits[n] /\ status'[n] = status[n] /\ again' = again
        BY <2>1, <2>3, <3>2
      <4> QED  BY <2>5, <4>1 DEF OnceInv
    <3> QED  BY <3>1, <3>2
  <2>7. \A s \in Admins : req'[s].module = req[s].module /\ req'[s].needsInit = req[s].needsInit
    BY <2>2
  <2> QED  BY <2>1, <2>6, <2>7 DEF OnceInv
<1>4. CASE InitFailed(r)
  <2>1. /\ UNCHANGED <<status, inits, again>> /\ req[r].pc = "init"
        /\ ~req'[r].needsInit /\ \A s \in Admins \ {r} : req'[s] = req[s]
    BY <1>4, Finished, IdleType DEF InitFailed, Serving, historyVars
  <2>2. \A n \in Modules : \A s \in Admins : Pending(s, n) => Pending(s, n)'
    BY <2>1 DEF Pending
  <2> QED  BY <2>1, <2>2 DEF OnceInv
<1>5. ASSUME Finish(r), again \subseteq again', UNCHANGED inits,
             req[r].needsInit => \/ status'[req[r].module].ready
                                 \/ req[r].module \in again',
             \A n \in Modules : status[n].ready => status'[n].ready,
             \A n \in Modules : status'[n].ready =>
                status[n].ready \/ (req[r].needsInit /\ n = req[r].module)
      PROVE  OnceInv'
  <2>1. ~req'[r].needsInit /\ \A s \in Admins \ {r} : req'[s] = req[s]
    BY <1>5, Finished, IdleType
  <2>2. ASSUME NEW n \in Modules, inits'[n] > 0, ~status'[n].ready, n \notin again'
        PROVE  \E s \in Admins : Pending(s, n)'
    <3>1. CASE status[n].ready
      BY <1>5, <2>2, <3>1
    <3>2. CASE ~status[n].ready
      <4>1. PICK s \in Admins : Pending(s, n)
        BY <1>5, <2>2, <3>2 DEF OnceInv
      <4>2. s # r
        BY <1>5, <2>2, <4>1 DEF Pending
      <4> QED  BY <2>1, <4>1, <4>2 DEF Pending
    <3> QED  BY <3>1, <3>2
  <2>3. ASSUME NEW s \in Admins, req'[s].needsInit, status'[req'[s].module].ready
        PROVE  req'[s].module \in again'
    <3>1. s # r /\ req'[s] = req[s]
      BY <2>1, <2>3
    <3>2. CASE status[req[s].module].ready
      BY <1>5, <2>3, <3>1, <3>2 DEF OnceInv
    <3>3. CASE ~status[req[s].module].ready
      <4>1. req[r].needsInit /\ req[s].module = req[r].module
        BY <1>5, <1>b, <2>3, <3>1, <3>3
      <4> QED  BY <1>5, <2>3, <3>1, <4>1 DEF OnceInv
    <3> QED  BY <3>2, <3>3
  <2>4. ASSUME NEW s \in Admins, NEW t \in Admins, s # t, req'[s].needsInit,
               req'[t].needsInit, req'[s].module = req'[t].module
        PROVE  req'[s].module \in again'
    BY <1>5, <2>1, <2>4 DEF OnceInv
  <2> QED  BY <1>5, <2>2, <2>3, <2>4 DEF OnceInv
<1>6. CASE WriteActive(r)
  <2>1. Finish(r) /\ UNCHANGED <<inits, again>>
    BY <1>6 DEF WriteActive, historyVars
  <2>2. \A n \in Modules :
           status'[n].ready <=> status[n].ready \/ (req[r].needsInit /\ n = req[r].module)
    BY <1>6, <1>b, Written
  <2> QED  BY <1>5, <1>b, <2>1, <2>2
<1>7. CASE WriteFailed(r)
  <2>1. /\ Finish(r) /\ UNCHANGED <<inits, status>> /\ again \subseteq again'
        /\ req[r].needsInit => req[r].module \in again'
    BY <1>7 DEF WriteFailed
  <2> QED  BY <1>5, <2>1
<1> QED  BY <1>1, <1>2, <1>3, <1>4, <1>6, <1>7 DEF AdminStep

LEMMA AlwaysOnce == Spec => []OnceInv
<1>1. Init => OnceInv
  BY IdleType DEF Init, OnceInv
<1>2. ProcessEnds => OnceInv'
  BY IdleType DEF ProcessEnds, OnceInv
<1>3. OnceInv /\ UNCHANGED vars => OnceInv'
  BY DEF vars, OnceInv, Pending
<1>4. TypeOK /\ ReqInv /\ PreparedInv /\ OnceInv /\ [Next]_vars => OnceInv'
  BY <1>2, <1>3, Steps, StartOnce, AdminOnce
<1> QED  BY <1>1, <1>4, AlwaysTyped, AlwaysReq, AlwaysPrepared, PTL DEF Spec

(* A module is initialised twice, and a migration runs twice, only when the
   registry could not know that it had been done. *)
THEOREM Once == Spec => []OnceUnless
<1>1. OnceInv /\ MigrationInv => OnceUnless
  BY DEF OnceInv, MigrationInv, OnceUnless
<1> QED  BY <1>1, AlwaysOnce, AlwaysMigrations, PTL

-----------------------------------------------------------------------------
(* The policy *)

PolicyInv ==
  phase = "serve" /\ Strict =>
    /\ \A m \in Guarded : ~status[m].active
    /\ \A r \in Admins : req[r].module \in Guarded => ~req[r].active

LEMMA NextPolicy == TypeOK /\ ReqInv /\ PolicyInv /\ [Next]_vars => PolicyInv'
<1> SUFFICES ASSUME TypeOK, ReqInv, PolicyInv, [Next]_vars PROVE PolicyInv'
  OBVIOUS
<1>1. CASE UNCHANGED vars
  BY <1>1 DEF vars, PolicyInv, Strict
<1>2. CASE StartStep
  <2>1. ~Audit => phase' # "serve"
    BY <1>2, AdvanceType
       DEF StartStep, Begin, ApplyMigration, RecordMigration, Migrated, LoadStatus,
           InitModule, PreInitialise, Phases
  <2>2. CASE Audit
    <3>1. UNCHANGED <<req, status, boot>> /\ (Strict => \A m \in Guarded : ~status[m].active)
      BY <2>2 DEF Audit
    <3>2. \A r \in Admins : ~req[r].active
      BY <2>2, IdleType DEF Audit, ReqInv
    <3> QED  BY <3>1, <3>2 DEF PolicyInv, Strict
  <2> QED  BY <2>1, <2>2 DEF PolicyInv
<1>3. CASE ProcessEnds
  BY <1>3 DEF ProcessEnds, PolicyInv
<1>4. ASSUME NEW r \in Admins, AdminStep(r) PROVE PolicyInv'
  <2>0. phase = "serve" /\ phase' = "serve" /\ (Strict' <=> Strict)
    BY <1>4, AdminServes DEF start, Strict
  <2>a. \A s \in Admins : req[s] \in Request /\ req[s].module \in Modules
    BY DEF TypeOK, Request
  <2>1. ASSUME UNCHANGED status, \A s \in Admins \ {r} : req'[s] = req[s],
               Strict /\ req'[r].module \in Guarded => ~req'[r].active
        PROVE  PolicyInv'
    BY <2>0, <2>1 DEF PolicyInv
  <2>2. ASSUME NEW m \in Modules, NEW on \in BOOLEAN, AskActive(r, m, on) PROVE PolicyInv'
    <3>1. UNCHANGED status /\ ~Refused(m, on)
      BY <2>2 DEF AskActive
    <3> QED  BY <2>1, <2>2, <3>1, Asked DEF Refused
  <2>3. ASSUME NEW m \in Modules, NEW on \in BOOLEAN, SetShowInSidebar(r, m, on)
        PROVE  PolicyInv'
    BY <2>0, <2>3, SidebarWritten, ModuleRegistryAssumption DEF PolicyInv, SetShowInSidebar
  <2>4. CASE InitOnActivation(r)
    <3>1. UNCHANGED status /\ req'[r] = [req[r] EXCEPT !.pc = "write"]
          /\ \A s \in Admins \ {r} : req'[s] = req[s]
      BY <2>4, Initialised DEF InitOnActivation
    <3>2. req'[r].module = req[r].module /\ req'[r].active = req[r].active
      BY <2>a, <3>1 DEF Request
    <3> QED  BY <2>0, <2>1, <3>1, <3>2 DEF PolicyInv
  <2>5. CASE InitFailed(r) \/ WriteFailed(r)
    BY <2>1, <2>5, Finished, IdleType DEF InitFailed, WriteFailed
  <2>6. CASE WriteActive(r)
    <3>1. /\ ~req'[r].active /\ \A s \in Admins \ {r} : req'[s] = req[s]
          /\ \A n \in Modules \ {req[r].module} : status'[n] = status[n]
          /\ status'[req[r].module].active = req[r].active
      BY <2>6, Written, Finished, IdleType DEF WriteActive
    <3>2. \A m \in Guarded : Strict => ~status'[m].active
      BY <2>0, <3>1, ModuleRegistryAssumption DEF PolicyInv
    <3> QED  BY <2>0, <3>1, <3>2 DEF PolicyInv
  <2> QED  BY <1>4, <2>2, <2>3, <2>4, <2>5, <2>6 DEF AdminStep
<1> QED  BY <1>1, <1>2, <1>3, <1>4, Steps

(* A process that is to refuse a guarded module never serves with it active. *)
THEOREM Policy == Spec => []PolicyKept
<1>1. Init => PolicyInv
  BY DEF Init, PolicyInv
<1>2. PolicyInv => PolicyKept
  BY DEF PolicyInv, PolicyKept
<1> QED  BY <1>1, <1>2, AlwaysTyped, AlwaysReq, NextPolicy, PTL DEF Spec

-----------------------------------------------------------------------------
(* The order of migrations *)

(* The order of the start: module by module, and of a module one after the other. *)
Earlier(g, h) == g[1] < h[1] \/ (g[1] = h[1] /\ g[2] < h[2])

(* A migration may rely on all that come before it, those of other modules        *)
(* included: it has not run, not even in a process that ended in the middle of    *)
(* it, before they were recorded.                                                 *)
MigrationsInOrder ==
  \A g, h \in Migrations : Earlier(g, h) /\ ran[h] > 0 => g \in recorded

(* Whatever the process that applies them meets, one that is recorded never runs  *)
(* again and stays recorded.                                                      *)
RecordedIsDone == [][recorded \subseteq recorded' /\ \A g \in recorded : ran'[g] = ran[g]]_vars

(* The steps that do not touch the two tables of migrations. *)
LEMMA OnlyMigrationsWrite ==
  ASSUME [Next]_vars
  PROVE  \/ UNCHANGED <<recorded, ran>>
         \/ \E v \in 1 .. Versions[at] : ApplyMigration(v) \/ RecordMigration(v)
<1>1. CASE UNCHANGED vars
  BY <1>1 DEF vars
<1>2. CASE Begin \/ Migrated \/ LoadStatus \/ InitModule \/ PreInitialise \/ Audit \/ ProcessEnds
  BY <1>2 DEF Begin, Migrated, LoadStatus, InitModule, PreInitialise, Audit, ProcessEnds, database
<1>3. ASSUME NEW r \in Admins, AdminStep(r) PROVE UNCHANGED <<recorded, ran>>
  BY <1>3 DEF AdminStep, AskActive, SetShowInSidebar, InitOnActivation, InitFailed,
              WriteActive, WriteFailed, database
<1> QED  BY <1>1, <1>2, <1>3, Steps DEF StartStep

LEMMA ApplyInOrder ==
  ASSUME TypeOK, MigrationInv, MigrationsInOrder,
         NEW v \in 1 .. Versions[at], ApplyMigration(v)
  PROVE  MigrationsInOrder'
<1> DEFINE due == <<at, v>>
<1>1. /\ at \in Modules /\ phase = "migrate" /\ IsDue(v)
      /\ recorded' = recorded /\ ran' = [ran EXCEPT ![due] = @ + 1]
  BY DEF ApplyMigration, TypeOK
<1> SUFFICES ASSUME NEW g \in Migrations, NEW h \in Migrations, Earlier(g, h), ran'[h] > 0
             PROVE  g \in recorded
  BY <1>1 DEF MigrationsInOrder
<1>2. CASE h # due
  BY <1>1, <1>2 DEF MigrationsInOrder, TypeOK
<1>3. CASE h = due
  <2>0. PICK m \in Modules : \E w \in 1 .. Versions[m] : g = <<m, w>>
    BY MigrationIs
  <2>1. PICK w \in 1 .. Versions[m] : g = <<m, w>>
    BY <2>0
  <2>2. m < at \/ (m = at /\ w < v)
    BY <1>3, <2>1 DEF Earlier
  <2>3. CASE m < at
    BY <1>1, <2>1, <2>3 DEF MigrationInv, Recorded
  <2>4. CASE m = at /\ w < v
    <3>1. v \in Nat /\ w \in Nat
      BY <2>4, ModuleRegistryAssumption
    <3>2. w \notin Unrecorded
      BY <1>1, <2>4, <3>1 DEF IsDue
    <3> QED  BY <2>1, <2>4, <3>2 DEF Unrecorded
  <2> QED  BY <2>2, <2>3, <2>4
<1> QED  BY <1>2, <1>3

(* Across crashes and restarts a migration never runs before all earlier ones -   *)
(* of its module and of the modules before it - are recorded (runAllMigrations).  *)
THEOREM InOrder == Spec => []MigrationsInOrder
<1>1. Init => MigrationsInOrder
  BY DEF Init, MigrationsInOrder
<1>2. TypeOK /\ MigrationInv /\ MigrationsInOrder /\ [Next]_vars => MigrationsInOrder'
  <2> SUFFICES ASSUME TypeOK, MigrationInv, MigrationsInOrder, [Next]_vars
               PROVE  MigrationsInOrder'
    OBVIOUS
  <2>1. CASE UNCHANGED <<recorded, ran>>
    BY <2>1 DEF MigrationsInOrder
  <2>2. ASSUME NEW v \in 1 .. Versions[at], RecordMigration(v) PROVE MigrationsInOrder'
    BY <2>2 DEF RecordMigration, MigrationsInOrder
  <2> QED  BY <2>1, <2>2, ApplyInOrder, OnlyMigrationsWrite
<1> QED  BY <1>1, <1>2, AlwaysTyped, AlwaysMigrations, PTL DEF Spec

(* A migration that is recorded does not run again, in this process or any later  *)
(* one, and no step takes a record away (runAllMigrations, recordMigration).      *)
THEOREM DoneForGood == Spec => RecordedIsDone
<1>1. TypeOK /\ [Next]_vars => [recorded \subseteq recorded' /\ \A g \in recorded : ran'[g] = ran[g]]_vars
  <2> SUFFICES ASSUME TypeOK, [Next]_vars
               PROVE  recorded \subseteq recorded' /\ \A g \in recorded : ran'[g] = ran[g]
    OBVIOUS
  <2>1. ASSUME NEW v \in 1 .. Versions[at], ApplyMigration(v)
        PROVE  recorded' = recorded /\ \A g \in recorded : ran'[g] = ran[g]
    BY <2>1 DEF ApplyMigration, IsDue, Unrecorded, TypeOK
  <2>2. ASSUME NEW v \in 1 .. Versions[at], RecordMigration(v)
        PROVE  recorded \subseteq recorded' /\ ran' = ran
    BY <2>2 DEF RecordMigration
  <2> QED  BY <2>1, <2>2, OnlyMigrationsWrite
<1> QED  BY <1>1, AlwaysTyped, PTL DEF Spec, RecordedIsDone

=============================================================================

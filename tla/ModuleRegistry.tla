---------------------------- MODULE ModuleRegistry ----------------------------
(***************************************************************************)
(* The registry of modules (internal/module/registry.go): the migrations   *)
(* that every start runs, the status of each module in the table modules   *)
(* and in memory, and its initialisation - at the start, on activation,    *)
(* and before either for a module that the middleware needs                *)
(* (cmd/ocms/main.go).                                                     *)
(*                                                                         *)
(* A start does one module after the other and the process may end at any  *)
(* step: an error of a start ends it as a crash does.  Administrators are  *)
(* served afterwards: an activation looks at the module under the lock,    *)
(* initialises it with the lock released and takes the lock again to       *)
(* write.  Modules are numbered in the order of their registration.        *)
(***************************************************************************)
EXTENDS Naturals, FiniteSets

CONSTANTS
  Admins,      \* goroutines that serve administrators
  Count,       \* number of modules
  Versions,    \* number of migrations of each module
  Restricted,  \* modules with an EnvironmentChecker that leaves production out
  Guarded,     \* modules with an ActivationGuard
  PreInit,     \* modules that main initialises when they are inactive
  MaxBoots,    \* bound: starts of the process
  MaxFaults    \* bound: failed initialisations and writes of one activation

Modules == 1 .. Count

ASSUME ModuleRegistryAssumption ==
  /\ Count \in Nat \ {0}
  /\ Versions \in [Modules -> Nat]
  /\ Restricted \subseteq Modules /\ Guarded \subseteq Modules /\ PreInit \subseteq Modules
  /\ MaxBoots \in Nat /\ MaxFaults \in Nat

VARIABLES
  \* the database:
  row,       \* the table modules
  recorded,  \* the table module_migrations
  ran,       \* how often each migration ran
  \* the process:
  phase,     \* of the start; "serve" when it is over
  at,        \* the module a phase is at
  boot,      \* what the configuration of this process says
  status,    \* activeStatus, sidebarStatus and initStatus
  inits,     \* how often each module was initialised
  funcs,     \* modules whose template functions the renderer has
  req,       \* what a request is doing
  boots, faults,
  \* history:
  interrupted,  \* migrations at which the process ended before they were recorded
  again         \* modules that may have been initialised unknown to initStatus

vars == <<row, recorded, ran, phase, at, boot, status, inits, funcs, req, boots, faults,
          interrupted, again>>
database == <<row, recorded, ran>>
start == <<phase, at, boot, funcs, boots>>
historyVars == <<interrupted, again>>

Migrations == UNION {{<<m, v>> : v \in 1 .. Versions[m]} : m \in Modules}

Row == [known : BOOLEAN, active : BOOLEAN, sidebar : BOOLEAN]
Status == [active : BOOLEAN, sidebar : BOOLEAN, ready : BOOLEAN]
Boot == [production : BOOLEAN, bare : BOOLEAN]
Phases == {"down", "migrate", "record", "load", "init", "preinit", "audit", "serve"}

NoRow == [known |-> FALSE, active |-> FALSE, sidebar |-> FALSE]
Unread == [active |-> FALSE, sidebar |-> FALSE, ready |-> FALSE]
Idle == [pc |-> "idle", module |-> 1, active |-> FALSE, needsInit |-> FALSE]

Init ==
  /\ row = [m \in Modules |-> NoRow]
  /\ recorded = {}
  /\ ran = [g \in Migrations |-> 0]
  /\ phase = "down"
  /\ at = 1
  /\ boot = [production |-> FALSE, bare |-> FALSE]
  /\ status = [m \in Modules |-> Unread]
  /\ inits = [m \in Modules |-> 0]
  /\ funcs = {}
  /\ req = [r \in Admins |-> Idle]
  /\ boots = 0
  /\ faults = 0
  /\ interrupted = {}
  /\ again = {}

-----------------------------------------------------------------------------
(* The start *)

(* InitAll begins: checkDependencies has no module to complain of. *)
Begin ==
  /\ phase = "down"
  /\ boots < MaxBoots
  /\ boots' = boots + 1
  /\ boot' \in Boot
  /\ phase' = "migrate"
  /\ UNCHANGED <<database, at, status, inits, funcs, req, faults, historyVars>>

(* Seeded fault: the loop over the modules does not stop at the last one. *)
PastTheLast(m) == m > Count

IsLast(m) == m = Count

(* The loop of a phase goes to the next module, or the next phase begins. *)
Advance(next) ==
  IF IsLast(at) THEN at' = 1 /\ phase' = next
  ELSE at' = at + 1 /\ UNCHANGED phase

Unrecorded == {v \in 1 .. Versions[at] : <<at, v>> \notin recorded}

(* The first migration of the module that is not recorded. *)
IsDue(v) == v \in Unrecorded /\ \A w \in Unrecorded : v <= w

(* runAllMigrations: Up, and then recordMigration. *)
ApplyMigration(v) ==
  /\ phase = "migrate"
  /\ IsDue(v)
  /\ ran' = [ran EXCEPT ![<<at, v>>] = @ + 1]
  /\ phase' = "record"
  /\ UNCHANGED <<row, recorded, at, boot, status, inits, funcs, req, boots, faults,
                 historyVars>>

RecordMigration(v) ==
  /\ phase = "record"
  /\ IsDue(v)
  /\ recorded' = recorded \cup {<<at, v>>}
  /\ phase' = "migrate"
  /\ UNCHANGED <<row, ran, at, boot, status, inits, funcs, req, boots, faults, historyVars>>

Migrated ==
  /\ phase = "migrate"
  /\ Unrecorded = {}
  /\ Advance("load")
  /\ UNCHANGED <<database, boot, status, inits, funcs, req, boots, faults, historyVars>>

DefaultActive(m) == ~(m \in Restricted /\ boot.production)

(* loadActiveStatus: a module without a row gets one. *)
LoadStatus ==
  /\ phase = "load"
  /\ LET m == at
         loaded == IF row[m].known THEN row[m]
                   ELSE [known |-> TRUE, active |-> DefaultActive(m), sidebar |-> FALSE]
     IN /\ row' = [row EXCEPT ![m] = loaded]
        /\ status' = [status EXCEPT ![m] = [active |-> loaded.active,
                                            sidebar |-> loaded.sidebar, ready |-> FALSE]]
  /\ Advance("init")
  /\ UNCHANGED <<recorded, ran, boot, inits, funcs, req, boots, faults, historyVars>>

(* InitAll: inactive modules are skipped. *)
InitModule ==
  /\ phase = "init"
  /\ IF status[at].active
     THEN /\ inits' = [inits EXCEPT ![at] = @ + 1]
          /\ status' = [status EXCEPT ![at].ready = TRUE]
     ELSE UNCHANGED <<inits, status>>
  /\ Advance("preinit")
  /\ UNCHANGED <<database, boot, funcs, req, boots, faults, historyVars>>

(* main initialises some modules that InitAll skipped; an error is logged. *)
PreInitialise ==
  /\ phase = "preinit"
  /\ \E done \in SUBSET {m \in PreInit : ~status[m].active} :
        /\ inits' = [m \in Modules |-> inits[m] + IF m \in done THEN 1 ELSE 0]
        /\ again' = again \cup done
  /\ phase' = "audit"
  /\ UNCHANGED <<database, at, boot, status, funcs, req, boots, faults, interrupted>>

(* What a guarded module asks of the configuration is missing. *)
Strict == boot.production /\ boot.bare

(* runPostModulePostureAudits: a process that would break the policy ends. *)
Audit ==
  /\ phase = "audit"
  /\ ~(Strict /\ \E m \in Guarded : status[m].active)
  /\ funcs' = {m \in Modules : status[m].active}
  /\ phase' = "serve"
  /\ UNCHANGED <<database, at, boot, status, inits, req, boots, faults, historyVars>>

(* An error of the start, a refusal of the audit, a crash or ShutdownAll. *)
ProcessEnds ==
  /\ phase # "down"
  /\ phase' = "down"
  /\ at' = 1
  /\ boot' = [production |-> FALSE, bare |-> FALSE]
  /\ status' = [m \in Modules |-> Unread]
  /\ inits' = [m \in Modules |-> 0]
  /\ funcs' = {}
  /\ req' = [r \in Admins |-> Idle]
  /\ interrupted' = interrupted \cup
       IF phase = "record" THEN {g \in Migrations : g[1] = at /\ IsDue(g[2])} ELSE {}
  /\ again' = {}
  /\ UNCHANGED <<database, boots, faults>>

-----------------------------------------------------------------------------
(* Administrators *)

Serving(r, pc) == phase = "serve" /\ req[r].pc = pc
Step(r, next) == req' = [req EXCEPT ![r] = next]
Finish(r) == Step(r, Idle)
Fault == faults < MaxFaults /\ faults' = faults + 1

(* Seeded fault: only a start initialises modules. *)
InitsAtStartOnly(m, active) == FALSE

NeedsInit(m, active) == active /\ ~status[m].ready

(* Another activation has found module m not initialised. *)
Activating(r, m) == \E s \in Admins \ {r} : req[s].needsInit /\ req[s].module = m

(* Seeded fault: the policy is left to the audit of the start. *)
AuditedAtStartOnly(m, active) == FALSE

(* CheckActivation, asked before every activation. *)
Refused(m, active) == active /\ m \in Guarded /\ Strict

(* SetActive up to the release of the lock, and the guard. *)
AskActive(r, m, active) ==
  /\ Serving(r, "idle")
  /\ ~Refused(m, active)
  /\ Step(r, [pc |-> IF NeedsInit(m, active) THEN "init" ELSE "write", module |-> m,
              active |-> active, needsInit |-> NeedsInit(m, active)])
  /\ again' = again \cup IF NeedsInit(m, active) /\ Activating(r, m) THEN {m} ELSE {}
  /\ UNCHANGED <<database, start, status, inits, faults, interrupted>>

(* SetActive with the lock released. *)
InitOnActivation(r) ==
  /\ Serving(r, "init")
  /\ inits' = [inits EXCEPT ![req[r].module] = @ + 1]
  /\ Step(r, [req[r] EXCEPT !.pc = "write"])
  /\ UNCHANGED <<database, start, status, faults, historyVars>>

InitFailed(r) ==
  /\ Serving(r, "init")
  /\ Fault
  /\ Finish(r)
  /\ UNCHANGED <<database, start, status, inits, historyVars>>

(* Seeded fault: the registry does not remember the initialisation. *)
ForgetsInit(r) ==
  /\ Serving(r, "write")
  /\ row' = [row EXCEPT ![req[r].module].active = req[r].active]
  /\ status' = [status EXCEPT ![req[r].module].active = req[r].active]
  /\ Finish(r)
  /\ UNCHANGED <<recorded, ran, start, inits, faults, historyVars>>

(* SetActive: row and memory in one critical section. *)
WriteActive(r) ==
  /\ Serving(r, "write")
  /\ LET m == req[r].module IN
     /\ row' = [row EXCEPT ![m].active = req[r].active]
     /\ status' = [status EXCEPT ![m].active = req[r].active,
                                 ![m].ready = @ \/ req[r].needsInit]
  /\ Finish(r)
  /\ UNCHANGED <<recorded, ran, start, inits, faults, historyVars>>

(* Seeded fault: the memory is written before the row. *)
WriteFailedLate(r) ==
  /\ Serving(r, "write")
  /\ Fault
  /\ status' = [status EXCEPT ![req[r].module].active = req[r].active]
  /\ Finish(r)
  /\ UNCHANGED <<database, start, inits, historyVars>>

(* SetActive: the UPDATE fails; the module stays initialised, unknown to the registry. *)
WriteFailed(r) ==
  /\ Serving(r, "write")
  /\ Fault
  /\ again' = again \cup IF req[r].needsInit THEN {req[r].module} ELSE {}
  /\ Finish(r)
  /\ UNCHANGED <<database, start, status, inits, interrupted>>

(* SetShowInSidebar, one critical section; when its UPDATE fails it changes nothing. *)
SetShowInSidebar(r, m, show) ==
  /\ Serving(r, "idle")
  /\ row' = [row EXCEPT ![m].sidebar = show]
  /\ status' = [status EXCEPT ![m].sidebar = show]
  /\ UNCHANGED <<recorded, ran, start, inits, req, faults, historyVars>>

Next ==
  \/ Begin
  \/ \E v \in 1 .. Versions[at] : ApplyMigration(v) \/ RecordMigration(v)
  \/ Migrated
  \/ LoadStatus
  \/ InitModule
  \/ PreInitialise
  \/ Audit
  \/ ProcessEnds
  \/ \E r \in Admins, m \in Modules, on \in BOOLEAN :
        AskActive(r, m, on) \/ SetShowInSidebar(r, m, on)
  \/ \E r \in Admins :
        InitOnActivation(r) \/ InitFailed(r) \/ WriteActive(r) \/ WriteFailed(r)

Spec == Init /\ [][Next]_vars

-----------------------------------------------------------------------------
(* Type correctness of every variable, module numbers and counters in their bounds. *)
TypeOK ==
  /\ row \in [Modules -> Row]
  /\ recorded \subseteq Migrations
  /\ ran \in [Migrations -> Nat]
  /\ phase \in Phases
  /\ at \in Modules
  /\ boot \in Boot
  /\ status \in [Modules -> Status]
  /\ inits \in [Modules -> Nat]
  /\ funcs \subseteq Modules
  /\ req \in [Admins -> [pc : {"idle", "init", "write"}, module : Modules,
                         active : BOOLEAN, needsInit : BOOLEAN]]
  /\ boots \in 0 .. MaxBoots
  /\ faults \in 0 .. MaxFaults
  /\ interrupted \subseteq Migrations
  /\ again \subseteq Modules

(* Once the start has loaded it, what the process holds of the status of a module *)
(* is what the table holds - whoever writes, and whatever write fails - so that a *)
(* restart finds the status that administrators were shown (loadActiveStatus,     *)
(* SetActive, SetShowInSidebar).                                                  *)
StatusPersisted ==
  phase \in {"init", "preinit", "audit", "serve"} =>
    \A m \in Modules : /\ row[m].known
                       /\ row[m].active = status[m].active
                       /\ row[m].sidebar = status[m].sidebar

(* A module whose routes, hooks or template functions are in use has been         *)
(* initialised, over tables that every migration of every module has made         *)
(* (InitAll, SetActive, moduleActiveMiddleware, AllTemplateFuncs).                *)
ActiveIsReady ==
  /\ phase = "serve" => \A m \in Modules : status[m].active \/ m \in funcs => inits[m] > 0
  /\ \A m \in Modules : inits[m] > 0 => recorded = Migrations /\ \A g \in Migrations : ran[g] > 0

(* A process that is to refuse a guarded module never serves with it active,      *)
(* whether it was active in the table at the start or an administrator asks for   *)
(* it, and although requests overlap (CheckActivation,                            *)
(* runPostModulePostureAudits).                                                   *)
PolicyKept == phase = "serve" /\ Strict => \A m \in Guarded : ~status[m].active

(* A process initialises a module twice only when activations overlapped, a write *)
(* of one failed, or main had initialised it (each Init registers its hooks once  *)
(* more); a migration runs twice only when a process ended before it was recorded *)
(* (SetActive, runAllMigrations).                                                 *)
OnceUnless ==
  /\ \A m \in Modules : inits[m] > 1 => m \in again
  /\ \A g \in Migrations : ran[g] > 1 => g \in interrupted
=============================================================================

--------------------------- MODULE WebhookDebouncer ---------------------------
(***************************************************************************)
(* Coalescing of webhook events: internal/webhook/debouncer.go, and the    *)
(* part of dispatcher.go it works with (the running flag, Stop, and the    *)
(* entry of Dispatch).                                                     *)
(*                                                                         *)
(* Actors: goroutines that call Dispatch with an event, timers whose       *)
(* callbacks wait for the mutex, the goroutines that hand an event to the  *)
(* dispatcher, and Stop.  Whatever happens under the mutex is one step.    *)
(*                                                                         *)
(* Time is counted in units: of a pending entry it is the age since        *)
(* firstSeen, of a timer what is left of it.  An expired timer and a       *)
(* callback that waits run before time goes on, in any order with other    *)
(* steps of the same instant: delays of the Go runtime count as no time.   *)
(***************************************************************************)
EXTENDS Integers, FiniteSets

CONSTANTS
  Keys,        \* event type and entity, as eventKey makes them
  Interval,    \* DebounceConfig.Interval
  MaxWait,     \* DebounceConfig.MaxWait
  MaxPending,  \* DebounceConfig.MaxPending
  MaxEvents    \* bound: events raised

ASSUME DebounceAssumption ==
  /\ IsFiniteSet(Keys) /\ Keys # {}
  /\ Interval \in Nat \ {0}
  /\ MaxWait \in Nat \ {0}
  /\ MaxPending \in Nat \ {0}
  /\ MaxEvents \in Nat

Events == 1..MaxEvents
None == 0
Off == -1

Fates ==
  {"new",          \* not raised yet
   "pending",      \* the event of a pending entry
   "superseded",   \* replaced by a later event of its key
   "dispatching",  \* a goroutine is about to call Dispatcher.Dispatch
   "admitted",     \* that call has found the dispatcher running
   "accepted",     \* delivery rows exist for it
   "failed",       \* a statement of that call failed: some or all rows are missing
   "dropped"}      \* lost because the dispatcher was stopped

VARIABLES
  entry,     \* Debouncer.pending: the event of a key, or None
  age,       \* time since firstSeen of that entry
  left,      \* time left of that entry's timer, or Off
  firing,    \* keys of the callbacks that wait for the mutex
  keyOf,     \* key of an event that was raised
  fate,      \* what became of an event
  raised,    \* number of events raised so far
  counted,   \* events whose goroutines Debouncer.wg counts
  stage      \* of Dispatcher.Stop: up, stopping, flushed, cancelled, stopped

entryVars == <<entry, age, left>>
eventVars == <<keyOf, fate, raised, counted>>
vars == <<entryVars, firing, eventVars, stage>>

Init ==
  /\ entry = [k \in Keys |-> None]
  /\ age = [k \in Keys |-> 0]
  /\ left = [k \in Keys |-> Off]
  /\ firing = {}
  /\ keyOf = [e \in Events |-> CHOOSE k \in Keys : TRUE]
  /\ fate = [e \in Events |-> "new"]
  /\ raised = 0
  /\ counted = {}
  /\ stage = "up"

Pending == {k \in Keys : entry[k] # None}
Running == stage = "up"
Cancelled == stage \in {"cancelled", "stopped"}

-----------------------------------------------------------------------------
(* Dispatch *)

(* A call of Dispatch brings the next event. *)
Raise(k) ==
  /\ raised < MaxEvents
  /\ raised' = raised + 1
  /\ keyOf' = [keyOf EXCEPT ![raised + 1] = k]

(* dispatchLocked: the entries of S go, their timers are stopped, and for each
   a goroutine starts that hands its event over.  A callback that waits already
   is not stopped by this. *)
Remove(S) ==
  /\ entry' = [k \in Keys |-> IF k \in S THEN None ELSE entry[k]]
  /\ age' = [k \in Keys |-> IF k \in S THEN 0 ELSE age[k]]
  /\ left' = [k \in Keys |-> IF k \in S THEN Off ELSE left[k]]

DispatchLocked(S) ==
  LET going == {entry[k] : k \in S \cap Pending}
  IN /\ Remove(S)
     /\ fate' = [e \in Events |-> IF e \in going THEN "dispatching" ELSE fate[e]]
     /\ counted' = counted \cup going

(* Seeded faults: the timer gets MaxWait; it is stopped and not started again;
   nobody looks at MaxWait; the older event is kept. *)
UpdateEntryLong(k) ==
  /\ entry[k] # None
  /\ age[k] < MaxWait
  /\ Raise(k)
  /\ entry' = [entry EXCEPT ![k] = raised + 1]
  /\ left' = [left EXCEPT ![k] = MaxWait]
  /\ fate' = [fate EXCEPT ![entry[k]] = "superseded", ![raised + 1] = "pending"]
  /\ UNCHANGED <<age, firing, counted, stage>>

UpdateEntryStops(k) ==
  /\ entry[k] # None
  /\ age[k] < MaxWait
  /\ Raise(k)
  /\ entry' = [entry EXCEPT ![k] = raised + 1]
  /\ left' = [left EXCEPT ![k] = Off]
  /\ fate' = [fate EXCEPT ![entry[k]] = "superseded", ![raised + 1] = "pending"]
  /\ UNCHANGED <<age, firing, counted, stage>>

UpdateEntryForever(k) ==
  /\ entry[k] # None
  /\ Raise(k)
  /\ entry' = [entry EXCEPT ![k] = raised + 1]
  /\ left' = [left EXCEPT ![k] = Interval]
  /\ fate' = [fate EXCEPT ![entry[k]] = "superseded", ![raised + 1] = "pending"]
  /\ UNCHANGED <<age, firing, counted, stage>>

UpdateEntryKeepsOld(k) ==
  /\ entry[k] # None
  /\ age[k] < MaxWait
  /\ Raise(k)
  /\ left' = [left EXCEPT ![k] = Interval]
  /\ fate' = [fate EXCEPT ![raised + 1] = "superseded"]
  /\ UNCHANGED <<entry, age, firing, counted, stage>>

(* The key is pending and has not waited too long: newer data, a new timer. *)
UpdateEntry(k) ==
  /\ entry[k] # None
  /\ age[k] < MaxWait
  /\ Raise(k)
  /\ entry' = [entry EXCEPT ![k] = raised + 1]
  /\ left' = [left EXCEPT ![k] = Interval]
  /\ fate' = [fate EXCEPT ![entry[k]] = "superseded", ![raised + 1] = "pending"]
  /\ UNCHANGED <<age, firing, counted, stage>>

(* The key has waited for MaxWait: newer data, and off it goes. *)
DispatchAtMaxWait(k) ==
  /\ entry[k] # None
  /\ age[k] >= MaxWait
  /\ Raise(k)
  /\ Remove({k})
  /\ fate' = [fate EXCEPT ![entry[k]] = "superseded", ![raised + 1] = "dispatching"]
  /\ counted' = counted \cup {raised + 1}
  /\ UNCHANGED <<firing, stage>>

(* Seeded fault: one entry too many. *)
CreateEntryAtLimit(k) ==
  /\ entry[k] = None
  /\ Cardinality(Pending) <= MaxPending
  /\ Raise(k)
  /\ entry' = [entry EXCEPT ![k] = raised + 1]
  /\ age' = [age EXCEPT ![k] = 0]
  /\ left' = [left EXCEPT ![k] = Interval]
  /\ fate' = [fate EXCEPT ![raised + 1] = "pending"]
  /\ UNCHANGED <<firing, counted, stage>>

CreateEntry(k) ==
  /\ entry[k] = None
  /\ Cardinality(Pending) < MaxPending
  /\ Raise(k)
  /\ entry' = [entry EXCEPT ![k] = raised + 1]
  /\ age' = [age EXCEPT ![k] = 0]
  /\ left' = [left EXCEPT ![k] = Interval]
  /\ fate' = [fate EXCEPT ![raised + 1] = "pending"]
  /\ UNCHANGED <<firing, counted, stage>>

(* At capacity the caller hands the event over itself. *)
Bypass(k) ==
  /\ entry[k] = None
  /\ Cardinality(Pending) >= MaxPending
  /\ Raise(k)
  /\ fate' = [fate EXCEPT ![raised + 1] = "dispatching"]
  /\ UNCHANGED <<entryVars, firing, counted, stage>>

Dispatch(k) ==
  UpdateEntry(k) \/ DispatchAtMaxWait(k) \/ CreateEntry(k) \/ Bypass(k)

-----------------------------------------------------------------------------
(* Timers *)

Expire(k) ==
  /\ left[k] = 0
  /\ left' = [left EXCEPT ![k] = Off]
  /\ firing' = firing \cup {k}
  /\ UNCHANGED <<entry, age, eventVars, stage>>

(* The callback has the mutex.  It dispatches whatever entry the key has now. *)
Callback(k) ==
  /\ k \in firing
  /\ firing' = firing \ {k}
  /\ DispatchLocked({k})
  /\ UNCHANGED <<keyOf, raised, stage>>

Tick ==
  /\ firing = {}
  /\ Pending # {}
  /\ \A k \in Keys : left[k] # 0
  /\ age' = [k \in Keys |-> IF k \in Pending THEN age[k] + 1 ELSE age[k]]
  /\ left' = [k \in Keys |-> IF left[k] = Off THEN Off ELSE left[k] - 1]
  /\ UNCHANGED <<entry, firing, eventVars, stage>>

-----------------------------------------------------------------------------
(* Dispatcher.Dispatch, as far as it concerns the event as a whole *)

(* The running flag is read once, at the start ... *)
Admit(e) ==
  /\ fate[e] = "dispatching"
  /\ fate' = [fate EXCEPT ![e] = IF Running THEN "admitted" ELSE "dropped"]
  /\ UNCHANGED <<entryVars, firing, keyOf, raised, counted, stage>>

(* Seeded fault: the context of the request, which may be over by now. *)
StoreUnderRequest(e) ==
  /\ fate[e] = "admitted"
  /\ \E end \in {"dropped", "accepted"} : fate' = [fate EXCEPT ![e] = end]
  /\ UNCHANGED <<entryVars, firing, keyOf, raised, counted, stage>>

(* ... and the statements that follow run under the debouncer's context. *)
Store(e) ==
  /\ fate[e] = "admitted"
  /\ fate' = [fate EXCEPT ![e] = IF Cancelled THEN "dropped" ELSE "accepted"]
  /\ UNCHANGED <<entryVars, firing, keyOf, raised, counted, stage>>

(* The webhooks cannot be listed, the event cannot be serialized, or a row cannot
   be made: that is logged, and nobody tries again. *)
StoreFails(e) ==
  /\ fate[e] = "admitted"
  /\ ~Cancelled
  /\ fate' = [fate EXCEPT ![e] = "failed"]
  /\ UNCHANGED <<entryVars, firing, keyOf, raised, counted, stage>>

Deliver(e) == Admit(e) \/ Store(e) \/ StoreFails(e)

-----------------------------------------------------------------------------
(* Dispatcher.Stop: running = false, then Debouncer.Stop in three steps *)

StopDispatcher ==
  /\ stage = "up"
  /\ stage' = "stopping"
  /\ UNCHANGED <<entryVars, firing, eventVars>>

Flush ==
  /\ stage = "stopping"
  /\ stage' = "flushed"
  /\ DispatchLocked(Keys)
  /\ UNCHANGED <<firing, keyOf, raised>>

Cancel ==
  /\ stage = "flushed"
  /\ stage' = "cancelled"
  /\ UNCHANGED <<entryVars, firing, eventVars>>

WaitReturns ==
  /\ stage = "cancelled"
  /\ \A e \in counted : fate[e] \in {"accepted", "failed", "dropped"}
  /\ stage' = "stopped"
  /\ UNCHANGED <<entryVars, firing, eventVars>>

Next ==
  \/ \E k \in Keys : Dispatch(k) \/ Expire(k) \/ Callback(k)
  \/ \E e \in Events : Deliver(e)
  \/ Tick
  \/ StopDispatcher \/ Flush \/ Cancel \/ WaitReturns

Spec == Init /\ [][Next]_vars

-----------------------------------------------------------------------------
(* Properties *)

TypeOK ==
  /\ entry \in [Keys -> Events \cup {None}]
  /\ age \in [Keys -> Nat]
  /\ left \in [Keys -> 0..Interval \cup {Off}]
  /\ firing \in SUBSET Keys
  /\ keyOf \in [Events -> Keys]
  /\ fate \in [Events -> Fates]
  /\ raised \in 0..MaxEvents
  /\ counted \in SUBSET Events
  /\ stage \in {"up", "stopping", "flushed", "cancelled", "stopped"}

(* An entry never stays behind with nobody to dispatch it: its timer is running
   or its callback is on the way. *)
EntryHasWayOut == \A k \in Pending : left[k] # Off \/ k \in firing

(* MaxWait is looked at when the next event comes and not by the timer. *)
WaitBounded == \A k \in Pending : age[k] < MaxWait + Interval

(* debouncer.go:121-162: an entry waits for less than MaxWait + Interval, and
   somebody is going to dispatch it, although updates reset the timer, MaxWait
   and Flush stop it, and a callback that waited may have taken the entry of a
   later event. *)
EntriesLeaveInTime == EntryHasWayOut /\ WaitBounded

(* debouncer.go:138-146, "Bound pending unique keys/timers": entries and timers
   that run stay within MaxPending. *)
WithinCapacity ==
  /\ Cardinality(Pending) <= MaxPending
  /\ \A k \in Keys : left[k] # Off => k \in Pending

(* debouncer.go:174-196: as long as nobody stops the dispatcher the debouncer
   loses no event: for each one, or for a later one of its key, the statements
   of Dispatcher.Dispatch have run or are going to.  Those may fail. *)
Behind(e, f) == e <= f /\ keyOf[e] = keyOf[f]
Tried(e) == fate[e] \in {"accepted", "failed"}
Served(e) == fate[e] \in {"pending", "dispatching", "admitted"} \/ Tried(e)

LostOnlyToFailures ==
  stage = "up" =>
    \A e \in Events : fate[e] # "new" =>
      \E f \in Events : Behind(e, f) /\ Served(f)

(* The inductive strengthening of these invariants: what is left of a timer is
   part of the wait, and the entries are exactly the pending events. *)
WaitPromised ==
  \A k \in Pending : left[k] # Off => age[k] + left[k] < MaxWait + Interval

EntriesArePending ==
  \A k \in Pending : fate[entry[k]] = "pending" /\ keyOf[entry[k]] = k

(* ... and the other way round, which EventContract needs. *)
PendingAreEntries ==
  \A e \in Events : fate[e] = "pending" => entry[keyOf[e]] = e

RaisedInOrder == \A e \in Events : fate[e] = "new" <=> e > raised

TimerInv == EntryHasWayOut /\ WaitBounded /\ WaitPromised /\ WithinCapacity
EventInv == EntriesArePending /\ RaisedInOrder /\ LostOnlyToFailures
IndInv == TypeOK /\ TimerInv /\ EventInv

(* debouncer.go:187-195: an event that was raised, or a later one of its key,
   reaches the delivery table in the end, unless the dispatcher is stopped or a
   statement of the very call that was to store it fails (dispatcher.go:299-341). *)
LatestGetsThrough ==
  \A e \in Events :
    fate[e] # "new" ~> \/ stage # "up"
                       \/ \E f \in Events : Behind(e, f) /\ Tried(f)

(* debouncer.go:43-45, "coalesces rapid-fire events into single deliveries": to
   those who raise events there are no timers, callbacks and goroutines.  An
   event is replaced by a later one of its key and only while it waits, is
   handed over once, and then ends as stored, as failed, or - only if the
   dispatcher was stopped - as dropped. *)
Outside(f) ==
  CASE f = "pending" -> "waiting"
    [] f \in {"dispatching", "admitted"} -> "handed"
    [] OTHER -> f

Contract == INSTANCE EventContract
              WITH state <- [e \in Events |-> Outside(fate[e])], open <- stage = "up"
ImplementsEvents == Contract!Spec

(* debouncer.go:31 and docs/webhooks.md:251: "Maximum 5-second wait before
   dispatch". *)
DispatchedWithinMaxWait == \A k \in Pending : age[k] <= MaxWait

(* debouncer.go:198-199, Flush "is useful during shutdown to ensure no events
   are lost": an event that was pending when the dispatcher was stopped is not
   dropped. *)
FlushKeepsEvents ==
  [][\A e \in Events :
       stage = "flushed" /\ e \in counted => fate'[e] # "dropped" \/ fate[e] = "dropped"]_vars

(* Fairness: timers run off, callbacks get the mutex, goroutines run and time
   passes.  Nobody has to raise an event or to stop the dispatcher. *)
Fairness ==
  /\ WF_vars(Tick)
  /\ \A k \in Keys : WF_vars(Expire(k)) /\ WF_vars(Callback(k))
  /\ \A e \in Events : WF_vars(Deliver(e))

LiveSpec == Spec /\ Fairness

=============================================================================

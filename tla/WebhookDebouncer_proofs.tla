----------------------- MODULE WebhookDebouncer_proofs -----------------------
(* Proofs about WebhookDebouncer, for every value of its constants. *)
EXTENDS WebhookDebouncer, FiniteSetTheorems, TLAPS

LEMMA PendingFinite ==
  /\ IsFiniteSet(Pending)
  /\ Cardinality(Pending) \in Nat
<1>1. Pending \subseteq Keys /\ IsFiniteSet(Keys)
  BY DebounceAssumption DEF Pending
<1> QED  BY <1>1, FS_Subset, FS_CardinalityType

(* Fewer pending keys need less capacity. *)
LEMMA CapacityShrinks ==
  ASSUME Cardinality(Pending) <= MaxPending, Pending' \subseteq Pending
  PROVE  Cardinality(Pending') <= MaxPending
<1>1. /\ Cardinality(Pending') <= Cardinality(Pending)
      /\ Cardinality(Pending') \in Nat
  BY PendingFinite, FS_Subset, FS_CardinalityType
<1> QED  BY <1>1, PendingFinite, DebounceAssumption

LEMMA CapacityGrows ==
  ASSUME Cardinality(Pending) < MaxPending, NEW k \in Keys,
         Pending' = Pending \cup {k}
  PROVE  Cardinality(Pending') <= MaxPending
<1>1. Cardinality(Pending') \in {Cardinality(Pending), Cardinality(Pending) + 1}
  BY PendingFinite, FS_AddElement
<1> QED  BY <1>1, PendingFinite, DebounceAssumption

(* A removal touches the keys of S only. *)
LEMMA Removal ==
  ASSUME TypeOK, NEW S \in SUBSET Keys, Remove(S)
  PROVE  /\ entry' \in [Keys -> Events \cup {None}]
         /\ age' \in [Keys -> Nat]
         /\ left' \in [Keys -> 0..Interval \cup {Off}]
         /\ Pending' = Pending \ S
         /\ \A k \in Keys \ S :
              entry'[k] = entry[k] /\ age'[k] = age[k] /\ left'[k] = left[k]
         /\ \A k \in S : entry'[k] = None /\ left'[k] = Off
<1>1. \A k \in Keys : entry'[k] = IF k \in S THEN None ELSE entry[k]
  BY DEF Remove
<1>2. Pending' = Pending \ S
  BY <1>1 DEF Pending
<1>3. /\ entry' \in [Keys -> Events \cup {None}]
      /\ left' \in [Keys -> 0..Interval \cup {Off}]
  BY DEF Remove, TypeOK
<1>4. age' \in [Keys -> Nat]
  BY DEF Remove, TypeOK
<1> QED  BY <1>1, <1>2, <1>3, <1>4 DEF Remove

LEMMA RaiseTypes ==
  ASSUME TypeOK, NEW k \in Keys, Raise(k)
  PROVE  /\ raised + 1 \in Events
         /\ raised' \in 0..MaxEvents /\ raised' = raised + 1
         /\ keyOf' \in [Events -> Keys]
         /\ keyOf'[raised + 1] = k
         /\ \A e \in Events : e # raised + 1 => keyOf'[e] = keyOf[e]
<1>1. /\ raised \in 0..MaxEvents /\ MaxEvents \in Nat
      /\ raised < MaxEvents /\ raised' = raised + 1
  BY DebounceAssumption DEF TypeOK, Raise
<1>2. raised + 1 \in 1..MaxEvents /\ raised' \in 0..MaxEvents
  BY ONLY <1>1
<1> QED  BY <1>1, <1>2 DEF TypeOK, Raise, Events

LEMMA TypeStep == TypeOK /\ [Next]_vars => TypeOK'
<1> SUFFICES ASSUME TypeOK, [Next]_vars PROVE TypeOK'
  OBVIOUS
<1> USE DEF entryVars, eventVars
<1>0. Interval \in 0..Interval /\ 0 \in Nat
  BY DebounceAssumption
<1>1. ASSUME NEW k \in Keys, UpdateEntry(k) PROVE TypeOK'
  BY <1>0, <1>1, RaiseTypes DEF UpdateEntry, TypeOK, Fates
<1>2. ASSUME NEW k \in Keys, DispatchAtMaxWait(k) PROVE TypeOK'
  <2>1. {k} \in SUBSET Keys /\ Remove({k})
    BY <1>2 DEF DispatchAtMaxWait
  <2> QED  BY <1>2, <2>1, RaiseTypes, Removal DEF DispatchAtMaxWait, TypeOK, Fates
<1>3. ASSUME NEW k \in Keys, CreateEntry(k) PROVE TypeOK'
  BY <1>0, <1>3, RaiseTypes DEF CreateEntry, TypeOK, Fates
<1>4. ASSUME NEW k \in Keys, Bypass(k) PROVE TypeOK'
  BY <1>4, RaiseTypes DEF Bypass, TypeOK, Fates
<1>5. ASSUME NEW k \in Keys, Expire(k) PROVE TypeOK'
  BY <1>5 DEF Expire, TypeOK
<1>6. ASSUME NEW S \in SUBSET Keys, DispatchLocked(S), UNCHANGED <<keyOf, raised>>,
             firing' \in SUBSET Keys,
             stage' \in {"up", "stopping", "flushed", "cancelled", "stopped"}
      PROVE  TypeOK'
  <2>1. {entry[k] : k \in S \cap Pending} \subseteq Events
    BY DEF TypeOK, Pending
  <2>2. fate' \in [Events -> Fates] /\ counted' \in SUBSET Events
    BY <1>6, <2>1 DEF DispatchLocked, TypeOK, Fates
  <2> QED  BY <1>6, <2>2, Removal DEF DispatchLocked, TypeOK
<1>7. ASSUME NEW k \in Keys, Callback(k) PROVE TypeOK'
  <2>1. {k} \in SUBSET Keys
    OBVIOUS
  <2> QED  BY <1>6, <1>7, <2>1 DEF Callback, TypeOK
<1>8. CASE Flush
  <2>1. Keys \in SUBSET Keys
    OBVIOUS
  <2> QED  BY <1>6, <1>8, <2>1 DEF Flush, TypeOK
<1>9. CASE Tick
  <2>1. age' \in [Keys -> Nat]
    BY <1>9 DEF Tick, TypeOK
  <2>2. ASSUME NEW k \in Keys PROVE left'[k] \in 0..Interval \cup {Off}
    <3>1. left[k] \in 0..Interval \cup {Off} /\ left[k] # 0 /\ Interval \in Nat
      BY <1>9, DebounceAssumption DEF Tick, TypeOK
    <3>2. left'[k] = IF left[k] = Off THEN Off ELSE left[k] - 1
      BY <1>9 DEF Tick
    <3> QED  BY <3>1, <3>2 DEF Off
  <2>3. left' \in [Keys -> 0..Interval \cup {Off}]
    BY <1>9, <2>2 DEF Tick
  <2> QED  BY <1>9, <2>1, <2>3 DEF Tick, TypeOK
<1>10. ASSUME NEW e \in Events, Deliver(e) PROVE TypeOK'
  BY <1>10 DEF Deliver, Admit, Store, StoreFails, TypeOK, Fates
<1>11. CASE StopDispatcher \/ Cancel \/ WaitReturns \/ UNCHANGED vars
  BY <1>11 DEF StopDispatcher, Cancel, WaitReturns, vars, TypeOK
<1> QED
  BY <1>1, <1>2, <1>3, <1>4, <1>5, <1>7, <1>8, <1>9, <1>10, <1>11
     DEF Next, Dispatch

-----------------------------------------------------------------------------
(* Timers *)

LEMMA TimersQuiet ==
  ASSUME TimerInv, UNCHANGED <<entryVars, firing>> PROVE TimerInv'
  BY DEF TimerInv, EntryHasWayOut, WaitBounded, WaitPromised, WithinCapacity,
         Pending, entryVars

LEMMA TimersRemove ==
  ASSUME TypeOK, TimerInv, NEW S \in SUBSET Keys, Remove(S), firing \ firing' \subseteq S
  PROVE  TimerInv'
<1>1. /\ Pending' = Pending \ S
      /\ \A k \in Keys \ S :
           entry'[k] = entry[k] /\ age'[k] = age[k] /\ left'[k] = left[k]
      /\ \A k \in S : entry'[k] = None /\ left'[k] = Off
  BY Removal
<1>2. Cardinality(Pending') <= MaxPending
  BY <1>1, CapacityShrinks DEF TimerInv, WithinCapacity
<1>3. Pending \subseteq Keys
  BY DEF Pending
<1> QED
  BY <1>1, <1>2, <1>3
     DEF TimerInv, EntryHasWayOut, WaitBounded, WaitPromised, WithinCapacity

(* A new or renewed timer of key k. *)
LEMMA TimersStart ==
  ASSUME TypeOK, TimerInv, NEW k \in Keys, NEW e \in Events,
         entry' = [entry EXCEPT ![k] = e],
         left' = [left EXCEPT ![k] = Interval],
         \/ k \in Pending /\ age[k] < MaxWait /\ age' = age
         \/ Cardinality(Pending) < MaxPending /\ age' = [age EXCEPT ![k] = 0],
         UNCHANGED firing
  PROVE  TimerInv'
<1>1. Pending' = Pending \cup {k}
  <2>1. e # None
    BY DEF Events, None
  <2> QED  BY <2>1 DEF Pending, TypeOK
<1>2. left'[k] = Interval /\ Interval # Off
  BY DebounceAssumption DEF TypeOK, Off
<1>3. \A j \in Keys \ {k} : left'[j] = left[j] /\ age'[j] = age[j]
  BY DEF TypeOK
<1>4. age'[k] < MaxWait /\ age'[k] \in Nat
  BY DebounceAssumption DEF TypeOK
<1>5. age'[k] < MaxWait + Interval /\ age'[k] + left'[k] < MaxWait + Interval
  BY <1>2, <1>4, DebounceAssumption
<1>6. Cardinality(Pending') <= MaxPending
  <2>1. CASE k \in Pending
    <3>1. Pending' = Pending
      BY <1>1, <2>1
    <3> QED  BY <3>1 DEF TimerInv, WithinCapacity
  <2>2. CASE Cardinality(Pending) < MaxPending
    BY <1>1, <2>2, CapacityGrows
  <2> QED  BY <2>1, <2>2
<1>7. EntryHasWayOut' /\ WaitBounded' /\ WaitPromised'
  BY <1>1, <1>2, <1>3, <1>5
     DEF TimerInv, EntryHasWayOut, WaitBounded, WaitPromised, Pending
<1> QED
  BY <1>1, <1>2, <1>3, <1>6, <1>7 DEF TimerInv, WithinCapacity, Pending

LEMMA TimersTick ==
  ASSUME TypeOK, TimerInv, Tick PROVE TimerInv'
<1>1. Pending' = Pending /\ Pending \subseteq Keys
  BY DEF Tick, Pending
<1>2. ASSUME NEW k \in Pending
      PROVE  /\ left'[k] # Off
             /\ age'[k] < MaxWait + Interval
             /\ age'[k] + left'[k] < MaxWait + Interval
  <2>1. left[k] # Off /\ left[k] # 0
    BY <1>1, <1>2 DEF Tick, TimerInv, EntryHasWayOut
  <2>2. left[k] \in 1..Interval /\ age[k] \in Nat
    BY <1>1, <1>2, <2>1, DebounceAssumption DEF TypeOK
  <2>3. left'[k] = left[k] - 1 /\ age'[k] = age[k] + 1
    BY <1>1, <1>2, <2>1 DEF Tick
  <2>4. age[k] + left[k] < MaxWait + Interval
    BY <1>2, <2>1 DEF TimerInv, WaitPromised
  <2> QED  BY <2>2, <2>3, <2>4, DebounceAssumption DEF Off
<1>3. \A k \in Keys : left'[k] # Off => k \in Pending
  BY DEF Tick, TimerInv, WithinCapacity
<1>4. Cardinality(Pending') <= MaxPending
  BY <1>1 DEF TimerInv, WithinCapacity
<1>5. EntryHasWayOut' /\ WaitBounded' /\ WaitPromised'
  BY <1>1, <1>2 DEF EntryHasWayOut, WaitBounded, WaitPromised
<1>6. WithinCapacity'
  BY <1>1, <1>3, <1>4 DEF WithinCapacity
<1> QED  BY <1>5, <1>6 DEF TimerInv

LEMMA TimerStep ==
  ASSUME TypeOK, TimerInv, [Next]_vars PROVE TimerInv'
<1>1. ASSUME NEW k \in Keys, UpdateEntry(k) PROVE TimerInv'
  <2>1. raised + 1 \in Events /\ k \in Pending
    BY <1>1, RaiseTypes DEF UpdateEntry, Pending
  <2> QED  BY <1>1, <2>1, TimersStart DEF UpdateEntry
<1>2. ASSUME NEW k \in Keys, CreateEntry(k) PROVE TimerInv'
  <2>1. raised + 1 \in Events
    BY <1>2, RaiseTypes DEF CreateEntry
  <2> QED  BY <1>2, <2>1, TimersStart DEF CreateEntry
<1>3. ASSUME NEW k \in Keys, DispatchAtMaxWait(k) PROVE TimerInv'
  <2>1. {k} \in SUBSET Keys /\ Remove({k}) /\ firing \ firing' \subseteq {k}
    BY <1>3 DEF DispatchAtMaxWait
  <2> QED  BY <2>1, TimersRemove
<1>4. ASSUME NEW k \in Keys, Bypass(k) PROVE TimerInv'
  BY <1>4, TimersQuiet DEF Bypass
<1>5. ASSUME NEW k \in Keys, Expire(k) PROVE TimerInv'
  <2>1. Pending' = Pending /\ Pending \subseteq Keys
    BY <1>5 DEF Expire, Pending
  <2>2. /\ left'[k] = Off /\ k \in firing' /\ firing \subseteq firing'
        /\ age' = age
        /\ \A j \in Keys \ {k} : left'[j] = left[j]
    BY <1>5 DEF Expire, TypeOK
  <2> QED
    BY <2>1, <2>2
       DEF TimerInv, EntryHasWayOut, WaitBounded, WaitPromised, WithinCapacity
<1>6. ASSUME NEW k \in Keys, Callback(k) PROVE TimerInv'
  <2>1. {k} \in SUBSET Keys /\ Remove({k}) /\ firing \ firing' \subseteq {k}
    BY <1>6 DEF Callback, DispatchLocked
  <2> QED  BY <2>1, TimersRemove
<1>7. CASE Flush
  <2>1. Keys \in SUBSET Keys /\ Remove(Keys) /\ firing \ firing' \subseteq Keys
    BY <1>7 DEF Flush, DispatchLocked
  <2> QED  BY <2>1, TimersRemove
<1>8. ASSUME NEW e \in Events, Deliver(e) PROVE TimerInv'
  BY <1>8, TimersQuiet DEF Deliver, Admit, Store, StoreFails
<1>9. CASE StopDispatcher \/ Cancel \/ WaitReturns \/ UNCHANGED vars
  BY <1>9, TimersQuiet DEF StopDispatcher, Cancel, WaitReturns, vars
<1> QED
  BY <1>1, <1>2, <1>3, <1>4, <1>5, <1>6, <1>7, <1>8, <1>9, TimersTick
     DEF Next, Dispatch

-----------------------------------------------------------------------------
(* Events *)

(* A step that raises nothing, keeps the pending events with their entries and
   kills no event while the dispatcher is up. *)
LEMMA EventsQuiet ==
  ASSUME EventInv, UNCHANGED <<keyOf, raised>>,
         \A e \in Events : fate'[e] = "new" <=> fate[e] = "new",
         \A e \in Events : Served(e) /\ stage' = "up" => Served(e)',
         stage' = "up" => stage = "up",
         \A k \in Pending' : /\ k \in Pending /\ entry'[k] = entry[k]
                             /\ fate'[entry[k]] = "pending"
  PROVE  EventInv'
<1>1. EntriesArePending'
  BY DEF EventInv, EntriesArePending
<1>2. RaisedInOrder'
  BY DEF EventInv, RaisedInOrder
<1>3. LostOnlyToFailures'
  BY DEF EventInv, LostOnlyToFailures, Behind
<1> QED  BY <1>1, <1>2, <1>3 DEF EventInv

(* An event of key k is raised; the event that the key had before is replaced. *)
LEMMA EventsRaise ==
  ASSUME TypeOK, EventInv, NEW k \in Keys, Raise(k), UNCHANGED stage,
         NEW st \in {"pending", "dispatching"},
         fate' \in [Events -> Fates],
         fate'[raised + 1] = st,
         \A e \in Events : e # raised + 1 /\ e # entry[k] => fate'[e] = fate[e],
         entry[k] \in Events => fate'[entry[k]] = "superseded",
         \A j \in Keys \ {k} : entry'[j] = entry[j],
         entry'[k] = IF st = "pending" THEN raised + 1 ELSE None
  PROVE  EventInv'
<1>0. PICK n \in Events : n = raised + 1
  BY RaiseTypes
<1>1. /\ n \in Events /\ raised' = n /\ keyOf'[n] = k
      /\ \A e \in Events : e # n => keyOf'[e] = keyOf[e]
      /\ raised \in Nat
  BY <1>0, RaiseTypes DEF TypeOK
<1>2. fate[n] = "new" /\ \A e \in Events : fate[e] # "new" => e < n
  BY <1>0, <1>1 DEF EventInv, RaisedInOrder, Events
<1>3. \A e \in Events : e > n <=> e > raised /\ e # n
  BY <1>0, <1>1 DEF Events
<1>4. entry[k] # None => entry[k] \in Events /\ entry[k] # n /\ keyOf[entry[k]] = k
  BY <1>2 DEF EventInv, EntriesArePending, Pending, TypeOK
<1>5. EntriesArePending'
  <2>1. ASSUME NEW j \in Keys \ {k}, entry[j] # None
        PROVE  fate'[entry[j]] = "pending" /\ keyOf'[entry[j]] = j
    <3>1. fate[entry[j]] = "pending" /\ keyOf[entry[j]] = j /\ entry[j] \in Events
      BY <2>1 DEF EventInv, EntriesArePending, Pending, TypeOK
    <3>2. entry[j] # n /\ entry[j] # entry[k]
      BY <1>2, <1>4, <2>1, <3>1
    <3> QED  BY <1>0, <1>1, <3>1, <3>2
  <2> QED  BY <1>0, <1>1, <2>1 DEF EntriesArePending, Pending
<1>6. RaisedInOrder'
  <2>1. ASSUME NEW e \in Events PROVE fate'[e] = "new" <=> e > n
    <3>1. CASE e = n
      BY <1>0, <1>1, <3>1 DEF Events
    <3>2. CASE e # n /\ e = entry[k]
      <4>1. fate[e] = "pending" /\ fate'[e] = "superseded"
        BY <3>2 DEF EventInv, EntriesArePending, Pending, None, Events
      <4> QED  BY <1>3, <3>2, <4>1 DEF EventInv, RaisedInOrder
    <3>3. CASE e # n /\ e # entry[k]
      BY <1>0, <1>3, <3>3 DEF EventInv, RaisedInOrder
    <3> QED  BY <3>1, <3>2, <3>3
  <2> QED  BY <1>1, <2>1 DEF RaisedInOrder
<1>7. LostOnlyToFailures'
  <2> SUFFICES ASSUME stage = "up", NEW e \in Events, fate'[e] # "new"
               PROVE  \E f \in Events : Behind(e, f)' /\ Served(f)'
    BY DEF LostOnlyToFailures
  <2>1. Served(n)'
    BY <1>0 DEF Served, Tried
  <2>2. CASE e = n
    <3>1. Behind(e, n)'
      BY <1>1, <2>2 DEF Behind, Events
    <3> QED  BY <1>1, <2>1, <3>1
  <2>3. CASE e # n
    <3>1. fate[e] # "new"
      <4>1. e <= n
        BY <1>1, <1>6 DEF RaisedInOrder, Events
      <4> QED  BY <1>0, <1>1, <2>3, <4>1 DEF EventInv, RaisedInOrder, Events
    <3>2. PICK f \in Events : Behind(e, f) /\ Served(f)
      BY <3>1 DEF EventInv, LostOnlyToFailures
    <3>3. f < n
      BY <1>2, <3>2 DEF Served, Tried
    <3>4. CASE f = entry[k]
      <4>1. keyOf[e] = k
        BY <1>4, <3>2, <3>4 DEF Behind, None, Events
      <4>2. e <= n
        BY <1>1, <3>2, <3>3 DEF Behind, Events
      <4>3. Behind(e, n)'
        BY <1>1, <2>3, <4>1, <4>2 DEF Behind
      <4> QED  BY <1>1, <2>1, <4>3
    <3>5. CASE f # entry[k]
      <4>1. f # n
        BY <1>1, <3>3 DEF Events
      <4>2. fate'[f] = fate[f] /\ keyOf'[f] = keyOf[f] /\ keyOf'[e] = keyOf[e]
        BY <1>0, <1>1, <2>3, <3>5, <4>1
      <4> QED  BY <3>2, <4>2 DEF Behind, Served, Tried
    <3> QED  BY <3>4, <3>5
  <2> QED  BY <2>2, <2>3
<1> QED  BY <1>5, <1>6, <1>7 DEF EventInv

LEMMA EventsDispatch ==
  ASSUME TypeOK, EventInv, NEW S \in SUBSET Keys, DispatchLocked(S),
         UNCHANGED <<keyOf, raised>>, stage' = "up" => stage = "up"
  PROVE  EventInv'
<1>1. /\ Pending' = Pending \ S
      /\ \A k \in Keys \ S : entry'[k] = entry[k]
  BY Removal DEF DispatchLocked
<1> DEFINE going == {entry[k] : k \in S \cap Pending}
<1>2. \A e \in Events : fate'[e] = IF e \in going THEN "dispatching" ELSE fate[e]
  BY DEF DispatchLocked
<1>3. \A e \in going : fate[e] = "pending"
  BY DEF EventInv, EntriesArePending
<1>4. \A e \in Events : Served(e) => Served(e)'
  BY <1>2 DEF Served, Tried
<1>5. ASSUME NEW k \in Pending \ S PROVE fate'[entry[k]] = "pending"
  <2>1. k \in Keys /\ entry[k] \in Events /\ fate[entry[k]] = "pending" /\ keyOf[entry[k]] = k
    BY DEF EventInv, EntriesArePending, Pending, TypeOK
  <2>2. entry[k] \notin going
    BY <2>1 DEF EventInv, EntriesArePending
  <2> QED  BY <1>2, <2>1, <2>2
<1>6. Pending \subseteq Keys
  BY DEF Pending
<1>7. \A e \in Events : fate'[e] = "new" <=> fate[e] = "new"
  BY <1>2, <1>3
<1>8. \A k \in Pending' : /\ k \in Pending /\ entry'[k] = entry[k]
                          /\ fate'[entry[k]] = "pending"
  BY <1>1, <1>5, <1>6
<1> QED  BY <1>4, <1>7, <1>8, EventsQuiet

LEMMA EventStep ==
  ASSUME TypeOK, EventInv, [Next]_vars PROVE EventInv'
<1> USE DEF entryVars, eventVars
<1>1. CASE UNCHANGED <<entry, keyOf, fate, raised>> /\ (stage' = "up" => stage = "up")
  BY <1>1, EventsQuiet DEF EventInv, EntriesArePending, Pending, Served, Tried
<1>2. ASSUME NEW k \in Keys, UpdateEntry(k) PROVE EventInv'
  <2>1. raised + 1 \in Events /\ fate' \in [Events -> Fates]
    BY <1>2, RaiseTypes, TypeStep DEF UpdateEntry, TypeOK, Next, Dispatch
  <2>2. /\ entry[k] \in Events /\ fate[entry[k]] = "pending"
        /\ fate[raised + 1] = "new"
    BY <1>2, <2>1
       DEF UpdateEntry, EventInv, EntriesArePending, RaisedInOrder, Pending, TypeOK
  <2> QED  BY <1>2, <2>1, <2>2, EventsRaise DEF UpdateEntry, TypeOK
<1>3. ASSUME NEW k \in Keys, DispatchAtMaxWait(k) PROVE EventInv'
  <2>1. raised + 1 \in Events /\ fate' \in [Events -> Fates]
    BY <1>3, RaiseTypes, TypeStep DEF DispatchAtMaxWait, TypeOK, Next, Dispatch
  <2>2. /\ entry[k] \in Events /\ fate[entry[k]] = "pending"
        /\ fate[raised + 1] = "new"
    BY <1>3, <2>1
       DEF DispatchAtMaxWait, EventInv, EntriesArePending, RaisedInOrder,
           Pending, TypeOK
  <2>3. entry'[k] = None /\ \A j \in Keys \ {k} : entry'[j] = entry[j]
    BY <1>3 DEF DispatchAtMaxWait, Remove
  <2> QED  BY <1>3, <2>1, <2>2, <2>3, EventsRaise DEF DispatchAtMaxWait, TypeOK
<1>4. ASSUME NEW k \in Keys, CreateEntry(k) \/ Bypass(k) PROVE EventInv'
  <2>1. raised + 1 \in Events /\ fate' \in [Events -> Fates]
    BY <1>4, RaiseTypes, TypeStep DEF CreateEntry, Bypass, TypeOK, Next, Dispatch
  <2>2. entry[k] = None /\ None \notin Events
    BY <1>4 DEF CreateEntry, Bypass, None, Events
  <2>3. CASE CreateEntry(k)
    BY <2>1, <2>2, <2>3, EventsRaise DEF CreateEntry, TypeOK
  <2>4. CASE Bypass(k)
    BY <2>1, <2>2, <2>4, EventsRaise DEF Bypass, TypeOK
  <2> QED  BY <1>4, <2>3, <2>4
<1>5. ASSUME NEW k \in Keys, Callback(k) PROVE EventInv'
  <2>1. {k} \in SUBSET Keys
    OBVIOUS
  <2> QED  BY <1>5, <2>1, EventsDispatch DEF Callback
<1>6. CASE Flush
  <2>1. Keys \in SUBSET Keys
    OBVIOUS
  <2> QED  BY <1>6, <2>1, EventsDispatch DEF Flush
<1>7. ASSUME NEW e \in Events, Deliver(e) PROVE EventInv'
  <2>1. /\ UNCHANGED <<entry, keyOf, raised, stage>>
        /\ fate[e] \in {"dispatching", "admitted"}
        /\ fate'[e] \in {"admitted", "accepted", "failed", "dropped"}
        /\ stage = "up" => fate'[e] # "dropped"
        /\ \A f \in Events : f # e => fate'[f] = fate[f]
    BY <1>7 DEF Deliver, Admit, Store, StoreFails, TypeOK, Running, Cancelled
  <2>2. \A k \in Pending : fate[entry[k]] = "pending" /\ entry[k] \in Events
    BY DEF EventInv, EntriesArePending, Pending, TypeOK
  <2>3. Pending' = Pending
    BY <2>1 DEF Pending
  <2>4. \A f \in Events : Served(f) /\ stage' = "up" => Served(f)'
    BY <2>1 DEF Served, Tried
  <2> QED  BY <2>1, <2>2, <2>3, <2>4, EventsQuiet
<1>8. ASSUME NEW k \in Keys, Expire(k) PROVE EventInv'
  BY <1>1, <1>8 DEF Expire
<1>9. CASE Tick
  BY <1>1, <1>9 DEF Tick
<1>10. CASE StopDispatcher \/ Cancel \/ WaitReturns \/ UNCHANGED vars
  BY <1>1, <1>10 DEF StopDispatcher, Cancel, WaitReturns, vars
<1> QED
  BY <1>2, <1>3, <1>4, <1>5, <1>6, <1>7, <1>8, <1>9, <1>10 DEF Next, Dispatch

-----------------------------------------------------------------------------

LEMMA InitInv ==
  ASSUME Init PROVE IndInv
<1>1. /\ Pending = {} /\ firing = {} /\ raised = 0 /\ stage = "up"
      /\ \A k \in Keys : left[k] = Off
      /\ \A e \in Events : fate[e] = "new"
  BY DEF Init, Pending
<1>2. raised \in 0..MaxEvents /\ \A e \in Events : e > raised
  BY <1>1, DebounceAssumption DEF Events
<1>3. TypeOK
  BY <1>2, DebounceAssumption DEF Init, TypeOK, Fates
<1>4. Cardinality(Pending) <= MaxPending
  BY <1>1, FS_EmptySet, DebounceAssumption
<1>5. TimerInv
  BY <1>1, <1>4
     DEF TimerInv, EntryHasWayOut, WaitBounded, WaitPromised, WithinCapacity
<1>6. EventInv
  BY <1>1, <1>2 DEF EventInv, EntriesArePending, RaisedInOrder, LostOnlyToFailures
<1> QED  BY <1>3, <1>5, <1>6 DEF IndInv

(* Everything together: the inductive invariant. *)
THEOREM Invariance == Spec => []IndInv
<1>1. Init => IndInv
  BY InitInv
<1>2. IndInv /\ [Next]_vars => IndInv'
  BY TypeStep, TimerStep, EventStep DEF IndInv
<1> QED  BY <1>1, <1>2, PTL DEF Spec

(* Type correctness of every behaviour: in particular no timer is ever set to more
   than an Interval, and no entry or key but those of events that were raised. *)
THEOREM TypeCorrect == Spec => []TypeOK
<1>1. IndInv => TypeOK
  BY DEF IndInv
<1> QED  BY <1>1, Invariance, PTL

(* debouncer.go:121-162: a pending entry has a timer or a callback, and none waits
   for MaxWait + Interval. *)
THEOREM NoEntryStaysBehind == Spec => []EntriesLeaveInTime
<1>1. IndInv => EntriesLeaveInTime
  BY DEF IndInv, TimerInv, EntriesLeaveInTime
<1> QED  BY <1>1, Invariance, PTL

(* debouncer.go:138-146: entries and timers stay within MaxPending. *)
THEOREM CapacityIsKept == Spec => []WithinCapacity
<1>1. IndInv => WithinCapacity
  BY DEF IndInv, TimerInv
<1> QED  BY <1>1, Invariance, PTL

(* debouncer.go:174-196: while the dispatcher is up an event is lost only to a
   statement of Dispatch that fails, for it or for a later one of its key. *)
THEOREM LossNeedsFailure == Spec => []LostOnlyToFailures
<1>1. IndInv => LostOnlyToFailures
  BY DEF IndInv, EventInv
<1> QED  BY <1>1, Invariance, PTL

-----------------------------------------------------------------------------
(* The debouncer implements EventContract.  That the event of a key which waits is
   the one of its entry, and no other, is PendingAreEntries. *)

LEMMA OneWaits ==
  ASSUME TypeOK, EntriesArePending, PendingAreEntries, NEW e \in Events, NEW k \in Keys
  PROVE  fate[e] = "pending" /\ keyOf[e] = k <=> entry[k] = e
<1>1. e # None
  BY DEF Events, None
<1> QED  BY <1>1 DEF EntriesArePending, PendingAreEntries, Pending

(* An event of key k is raised: the one that waited does not any more. *)
LEMMA EntriesRaise ==
  ASSUME IndInv, PendingAreEntries, NEW k \in Keys, Raise(k),
         NEW st \in Fates \ {"new"},
         \A e \in Events : fate'[e] = IF e = raised + 1 THEN st
                                      ELSE IF e = entry[k] THEN "superseded" ELSE fate[e],
         \A j \in Keys \ {k} : entry'[j] = entry[j],
         st = "pending" => entry'[k] = raised + 1
  PROVE  PendingAreEntries'
<1>1. TypeOK /\ EntriesArePending
  BY DEF IndInv, EventInv
<1>2. /\ raised + 1 \in Events /\ keyOf'[raised + 1] = k
      /\ \A e \in Events : e # raised + 1 => keyOf'[e] = keyOf[e]
  BY <1>1, RaiseTypes
<1> SUFFICES ASSUME NEW e \in Events, fate'[e] = "pending"
             PROVE  entry'[keyOf'[e]] = e
  BY DEF PendingAreEntries
<1>3. CASE e = raised + 1
  BY <1>2, <1>3
<1>4. CASE e # raised + 1
  <2>1. e # entry[k] /\ fate[e] = "pending" /\ keyOf'[e] = keyOf[e]
    BY <1>2, <1>4
  <2>2. keyOf[e] \in Keys /\ keyOf[e] # k /\ entry[keyOf[e]] = e
    BY <1>1, <2>1, OneWaits DEF TypeOK
  <2> QED  BY <2>1, <2>2
<1> QED  BY <1>3, <1>4

LEMMA EntriesDispatch ==
  ASSUME IndInv, PendingAreEntries, NEW S \in SUBSET Keys, DispatchLocked(S), keyOf' = keyOf
  PROVE  PendingAreEntries'
<1> DEFINE going == {entry[k] : k \in S \cap Pending}
<1>1. TypeOK /\ EntriesArePending
  BY DEF IndInv, EventInv
<1>2. \A e \in Events : fate'[e] = IF e \in going THEN "dispatching" ELSE fate[e]
  BY DEF DispatchLocked
<1>3. \A k \in Keys \ S : entry'[k] = entry[k]
  BY <1>1, Removal DEF DispatchLocked
<1> SUFFICES ASSUME NEW e \in Events, fate'[e] = "pending"
             PROVE  entry'[keyOf[e]] = e
  BY DEF PendingAreEntries
<1>4. e \notin going /\ fate[e] = "pending" /\ keyOf[e] \in Keys
  BY <1>1, <1>2 DEF TypeOK
<1>5. entry[keyOf[e]] = e /\ e # None
  BY <1>4 DEF PendingAreEntries, Events, None
<1>6. keyOf[e] \notin S
  BY <1>4, <1>5 DEF Pending
<1> QED  BY <1>3, <1>4, <1>5, <1>6

(* The fates that an event of key k and the one before it get. *)
LEMMA RaiseFates ==
  ASSUME IndInv, NEW k \in Keys, NEW st \in {"pending", "dispatching"},
         \/ (UpdateEntry(k) \/ CreateEntry(k)) /\ st = "pending"
         \/ (DispatchAtMaxWait(k) \/ Bypass(k)) /\ st = "dispatching"
  PROVE  /\ Raise(k) /\ stage' = stage
         /\ \A e \in Events : fate'[e] = IF e = raised + 1 THEN st
                                ELSE IF e = entry[k] THEN "superseded" ELSE fate[e]
         /\ \A j \in Keys \ {k} : entry'[j] = entry[j]
         /\ st = "pending" => entry'[k] = raised + 1
<1>1. TypeOK
  BY DEF IndInv
<1>2. ASSUME UpdateEntry(k) \/ CreateEntry(k)
      PROVE  entry' = [entry EXCEPT ![k] = raised + 1] /\ Raise(k) /\ stage' = stage
  BY <1>2 DEF UpdateEntry, CreateEntry
<1>3. ASSUME DispatchAtMaxWait(k) \/ Bypass(k)
      PROVE  /\ \A j \in Keys \ {k} : entry'[j] = entry[j]
             /\ Raise(k) /\ stage' = stage
  BY <1>3 DEF DispatchAtMaxWait, Bypass, Remove, entryVars
<1>4. Raise(k) /\ stage' = stage
  BY <1>2, <1>3
<1>5. raised + 1 \in Events /\ fate[raised + 1] = "new"
  <2>1. raised + 1 \in Events
    BY <1>1, <1>4, RaiseTypes
  <2>2. raised \in Nat
    BY <1>1 DEF TypeOK
  <2> QED  BY <2>1, <2>2 DEF IndInv, EventInv, RaisedInOrder
<1>6. entry[k] # None => entry[k] \in Events /\ fate[entry[k]] = "pending"
  BY <1>1 DEF IndInv, EventInv, EntriesArePending, Pending, TypeOK
<1>7. entry[k] # raised + 1 /\ None \notin Events
  BY <1>5, <1>6 DEF Events, None
<1>8. fate' = IF entry[k] = None THEN [fate EXCEPT ![raised + 1] = st]
              ELSE [fate EXCEPT ![entry[k]] = "superseded", ![raised + 1] = st]
  BY DEF UpdateEntry, CreateEntry, DispatchAtMaxWait, Bypass
<1>9. \A e \in Events : fate'[e] = IF e = raised + 1 THEN st
                        ELSE IF e = entry[k] THEN "superseded" ELSE fate[e]
  BY <1>1, <1>5, <1>6, <1>7, <1>8 DEF TypeOK
<1>10. \A j \in Keys \ {k} : entry'[j] = entry[j]
  BY <1>1, <1>2, <1>3 DEF TypeOK
<1>11. st = "pending" => entry'[k] = raised + 1
  BY <1>1, <1>2 DEF TypeOK
<1> QED  BY <1>4, <1>9, <1>10, <1>11

(* Whatever has to do with no entry leaves the pending events alone. *)
LEMMA EntriesQuiet ==
  ASSUME PendingAreEntries, UNCHANGED <<entry, keyOf>>,
         \A e \in Events : fate'[e] = "pending" => fate[e] = "pending"
  PROVE  PendingAreEntries'
  BY DEF PendingAreEntries

LEMMA EntriesStep ==
  ASSUME IndInv, PendingAreEntries, [Next]_vars PROVE PendingAreEntries'
<1>1. ASSUME NEW k \in Keys, UpdateEntry(k) \/ CreateEntry(k) PROVE PendingAreEntries'
  <2>1. "pending" \in {"pending", "dispatching"} /\ "pending" \in Fates \ {"new"}
    BY DEF Fates
  <2> QED  BY <1>1, <2>1, RaiseFates, EntriesRaise
<1>2. ASSUME NEW k \in Keys, DispatchAtMaxWait(k) \/ Bypass(k) PROVE PendingAreEntries'
  <2>1. "dispatching" \in {"pending", "dispatching"} /\ "dispatching" \in Fates \ {"new"}
    BY DEF Fates
  <2> QED  BY <1>2, <2>1, RaiseFates, EntriesRaise
<1>3. ASSUME NEW k \in Keys, Callback(k) PROVE PendingAreEntries'
  <2>1. {k} \in SUBSET Keys
    OBVIOUS
  <2> QED  BY <1>3, <2>1, EntriesDispatch DEF Callback
<1>4. CASE Flush
  <2>1. Keys \in SUBSET Keys
    OBVIOUS
  <2> QED  BY <1>4, <2>1, EntriesDispatch DEF Flush
<1>5. ASSUME NEW e \in Events, Deliver(e) PROVE PendingAreEntries'
  <2>1. fate \in [Events -> Fates]
    BY DEF IndInv, TypeOK
  <2> QED  BY <1>5, <2>1, EntriesQuiet DEF Deliver, Admit, Store, StoreFails, entryVars
<1>6. ASSUME UNCHANGED <<entry, keyOf, fate>> PROVE PendingAreEntries'
  BY <1>6, EntriesQuiet
<1>7. ASSUME NEW k \in Keys, Expire(k) PROVE PendingAreEntries'
  BY <1>6, <1>7 DEF Expire, eventVars
<1>8. CASE Tick
  BY <1>6, <1>8 DEF Tick, eventVars
<1>9. CASE StopDispatcher \/ Cancel \/ WaitReturns \/ UNCHANGED vars
  BY <1>6, <1>9 DEF StopDispatcher, Cancel, WaitReturns, vars, entryVars, eventVars
<1> QED
  BY <1>1, <1>2, <1>3, <1>4, <1>5, <1>7, <1>8, <1>9 DEF Next, Dispatch

(* debouncer.go:106-176: an event that waits is the one in the map under its key;
   in particular two events of one key never wait at once. *)
THEOREM WaitingIsPending == Spec => []PendingAreEntries
<1>1. Init => PendingAreEntries
  BY DEF Init, PendingAreEntries
<1>2. IndInv /\ PendingAreEntries /\ [Next]_vars => PendingAreEntries'
  BY EntriesStep
<1> QED  BY <1>1, <1>2, Invariance, PTL DEF Spec

LEMMA SameEvents == Contract!Events = Events
  BY DEF Contract!Events, Events

LEMMA OutsideOf ==
  /\ \A f \in Fates : /\ Outside(f) = "waiting" <=> f = "pending"
                      /\ Outside(f) = "handed" <=> f \in {"dispatching", "admitted"}
                      /\ Outside(f) = "new" <=> f = "new"
  /\ Outside("pending") = "waiting"
  /\ Outside("dispatching") = "handed" /\ Outside("admitted") = "handed"
  /\ \A f \in {"new", "superseded", "accepted", "failed", "dropped"} : Outside(f) = f
  BY DEF Outside, Fates

(* Of the key that an event is raised for, the event of the entry waits, if any. *)
LEMMA ContractRaise ==
  ASSUME IndInv, PendingAreEntries, NEW k \in Keys, NEW st \in {"pending", "dispatching"},
         \/ (UpdateEntry(k) \/ CreateEntry(k)) /\ st = "pending"
         \/ (DispatchAtMaxWait(k) \/ Bypass(k)) /\ st = "dispatching"
  PROVE  Contract!Next
<1> DEFINE n == raised + 1
<1>1. TypeOK /\ EntriesArePending
  BY DEF IndInv, EventInv
<1>2. /\ Raise(k) /\ stage' = stage
      /\ \A e \in Events : fate'[e] = IF e = n THEN st
                             ELSE IF e = entry[k] THEN "superseded" ELSE fate[e]
  BY RaiseFates
<1>3. n \in Events /\ raised' = n /\ keyOf' = [keyOf EXCEPT ![n] = k]
  BY <1>1, <1>2, RaiseTypes DEF Raise
<1>4. fate[n] = "new"
  <2>1. raised \in Nat
    BY <1>1 DEF TypeOK
  <2> QED  BY <1>3, <2>1 DEF IndInv, EventInv, RaisedInOrder
<1> HIDE DEF n
<1>5. \A e \in Events : fate[e] \in Fates
  BY <1>1 DEF TypeOK
<1>6. \A e \in Events : e \in Contract!Waiting(k) <=> e = entry[k]
  BY <1>1, <1>5, OneWaits, OutsideOf, SameEvents DEF Contract!Waiting
<1>7. \A e \in Events : Outside(fate'[e]) = IF e = n THEN Outside(st)
                        ELSE IF e \in Contract!Waiting(k) THEN "superseded" ELSE Outside(fate[e])
  BY <1>2, <1>6, OutsideOf DEF n
<1>8. Outside(fate[n]) = "new"
  BY <1>4, OutsideOf
<1>9. Contract!Raise(k, Outside(st))
  BY <1>2, <1>3, <1>7, <1>8, SameEvents DEF Contract!Raise, n
<1>10. Outside(st) \in {"waiting", "handed"}
  BY OutsideOf
<1> QED  BY <1>9, <1>10 DEF Contract!Next

(* The events of the entries that go are handed over. *)
LEMMA ContractHandOver ==
  ASSUME IndInv, NEW S \in SUBSET Keys, DispatchLocked(S), UNCHANGED <<keyOf, raised>>,
         (stage' = "up") = (stage = "up")
  PROVE  Contract!Next
<1> DEFINE going == {entry[k] : k \in S \cap Pending}
<1>1. going \in SUBSET Events /\ \A e \in going : fate[e] = "pending"
  BY DEF IndInv, TypeOK, EventInv, EntriesArePending, Pending
<1>2. \A e \in Events : fate'[e] = IF e \in going THEN "dispatching" ELSE fate[e]
  BY DEF DispatchLocked
<1> HIDE DEF going
<1>3. \A e \in going : Outside(fate[e]) = "waiting"
  BY <1>1, OutsideOf
<1>4. \A e \in Events : Outside(fate'[e]) = IF e \in going THEN "handed" ELSE Outside(fate[e])
  BY <1>2, OutsideOf
<1>5. Contract!HandOver(going)
  BY <1>1, <1>3, <1>4, SameEvents DEF Contract!HandOver
<1> QED  BY <1>1, <1>5, SameEvents DEF Contract!Next

(* What becomes of an event that was handed over. *)
LEMMA ContractEnd ==
  ASSUME IndInv, NEW e \in Events, Deliver(e)
  PROVE  Contract!Next \/ UNCHANGED Contract!contractVars
<1>1. /\ fate \in [Events -> Fates] /\ UNCHANGED <<keyOf, raised, stage>>
      /\ fate[e] \in {"dispatching", "admitted"}
  BY DEF IndInv, TypeOK, Deliver, Admit, Store, StoreFails
<1> DEFINE end == fate'[e]
<1>2. /\ end \in {"admitted", "dropped", "failed", "accepted"}
      /\ end = "dropped" => stage # "up"
      /\ \A f \in Events : fate'[f] = IF f = e THEN end ELSE fate[f]
  BY <1>1 DEF Deliver, Admit, Store, StoreFails, Running, Cancelled
<1> HIDE DEF end
<1>3. Outside(fate[e]) = "handed"
  BY <1>1, OutsideOf
<1>4. \A f \in Events : Outside(fate'[f]) = IF f = e THEN Outside(end) ELSE Outside(fate[f])
  BY <1>2
<1>5. CASE end = "admitted"
  <2>1. \A f \in Events : Outside(fate'[f]) = Outside(fate[f])
    BY <1>3, <1>4, <1>5, OutsideOf
  <2> QED  BY <1>1, <2>1 DEF Contract!contractVars
<1>6. CASE end = "accepted"
  <2>1. Outside(end) = "accepted"
    BY <1>6, OutsideOf
  <2>2. Contract!Accept(e)
    BY <1>1, <1>3, <1>4, <2>1 DEF Contract!Accept
  <2> QED  BY <2>2, SameEvents DEF Contract!Next
<1>7. CASE end = "failed"
  <2>1. Outside(end) = "failed"
    BY <1>7, OutsideOf
  <2>2. Contract!Fail(e)
    BY <1>1, <1>3, <1>4, <2>1 DEF Contract!Fail
  <2> QED  BY <2>2, SameEvents DEF Contract!Next
<1>8. CASE end = "dropped"
  <2>1. Outside(end) = "dropped"
    BY <1>8, OutsideOf
  <2>2. Contract!Drop(e)
    BY <1>1, <1>2, <1>3, <1>4, <1>8, <2>1 DEF Contract!Drop
  <2> QED  BY <2>2, SameEvents DEF Contract!Next
<1> QED  BY <1>2, <1>5, <1>6, <1>7, <1>8

LEMMA ContractStep ==
  ASSUME IndInv, PendingAreEntries, [Next]_vars
  PROVE  Contract!Next \/ UNCHANGED Contract!contractVars
<1>1. ASSUME NEW k \in Keys, UpdateEntry(k) \/ CreateEntry(k) PROVE Contract!Next
  <2>1. "pending" \in {"pending", "dispatching"}
    OBVIOUS
  <2> QED  BY <1>1, <2>1, ContractRaise
<1>2. ASSUME NEW k \in Keys, DispatchAtMaxWait(k) \/ Bypass(k) PROVE Contract!Next
  <2>1. "dispatching" \in {"pending", "dispatching"}
    OBVIOUS
  <2> QED  BY <1>2, <2>1, ContractRaise
<1>3. ASSUME NEW k \in Keys, Callback(k) PROVE Contract!Next
  <2>1. {k} \in SUBSET Keys
    OBVIOUS
  <2> QED  BY <1>3, <2>1, ContractHandOver DEF Callback
<1>4. CASE Flush
  <2>1. Keys \in SUBSET Keys /\ (stage' = "up") = (stage = "up")
    BY <1>4 DEF Flush
  <2> QED  BY <1>4, <2>1, ContractHandOver DEF Flush
<1>5. ASSUME NEW e \in Events, Deliver(e)
      PROVE  Contract!Next \/ UNCHANGED Contract!contractVars
  BY <1>5, ContractEnd
<1>6. ASSUME UNCHANGED <<keyOf, fate, raised>>, (stage' = "up") = (stage = "up")
      PROVE  UNCHANGED Contract!contractVars
  BY <1>6 DEF Contract!contractVars
<1>7. ASSUME NEW k \in Keys, Expire(k) PROVE UNCHANGED Contract!contractVars
  BY <1>6, <1>7 DEF Expire, eventVars
<1>8. CASE Tick
  BY <1>6, <1>8 DEF Tick, eventVars
<1>9. CASE StopDispatcher
  BY <1>9 DEF StopDispatcher, eventVars, Contract!Close, Contract!Next
<1>10. CASE Cancel \/ WaitReturns \/ UNCHANGED vars
  BY <1>6, <1>10 DEF Cancel, WaitReturns, vars, eventVars
<1> QED
  BY <1>1, <1>2, <1>3, <1>4, <1>5, <1>7, <1>8, <1>9, <1>10 DEF Next, Dispatch

(* debouncer.go:43-45: to those who raise events there are no timers and no
   goroutines; of each key the latest event waits, an event is replaced only while
   it waits, is handed over once, and then is stored, fails with a statement, or -
   only if the dispatcher stopped - is dropped. *)
THEOREM Refinement == Spec => ImplementsEvents
<1>1. Init => Contract!Init
  <2>1. Outside("new") = "new"
    BY OutsideOf
  <2> QED  BY <2>1, SameEvents DEF Init, Contract!Init, Contract!SomeKey
<1>2. IndInv /\ PendingAreEntries /\ [Next]_vars => [Contract!Next]_Contract!contractVars
  BY ContractStep
<1> QED
  BY <1>1, <1>2, Invariance, WaitingIsPending, PTL
     DEF Spec, ImplementsEvents, Contract!Spec

-----------------------------------------------------------------------------
(* What the contract gives for one event *)

(* A step of the contract, seen from the fates of the events. *)
LEMMA EventEnds ==
  ASSUME IndInv, Contract!Next, NEW e \in Events,
         NEW was, was = Outside(fate[e]), NEW is, is = Outside(fate'[e])
  PROVE  /\ was \in {"superseded", "accepted", "failed", "dropped"} => is = was
         /\ was = "handed" => is \in {"handed", "accepted", "failed", "dropped"}
         /\ is = "superseded" /\ was # "superseded" =>
              \E f \in Events : /\ f > e /\ keyOf'[f] = keyOf[e]
                                /\ Outside(fate[f]) = "new"
                                /\ Outside(fate'[f]) \in {"waiting", "handed"}
         /\ is = "failed" /\ was # "failed" => was = "handed"
         /\ is = "dropped" /\ was # "dropped" => stage # "up"
<1>1. /\ keyOf \in [Events -> Keys] /\ raised \in Nat
      /\ fate \in [Events -> Fates]
  BY DEF IndInv, TypeOK
<1>2. ASSUME NEW k \in Keys, NEW st \in {"waiting", "handed"}, Contract!Raise(k, st)
      PROVE  /\ was \in {"superseded", "accepted", "failed", "dropped", "handed"} => is = was
             /\ is # "dropped" \/ was = "dropped"
             /\ is # "failed" \/ was = "failed"
             /\ is = "superseded" /\ was # "superseded" =>
                  \E f \in Events : /\ f > e /\ keyOf'[f] = keyOf[e]
                                    /\ Outside(fate[f]) = "new"
                                    /\ Outside(fate'[f]) \in {"waiting", "handed"}
  <2> DEFINE n == raised + 1
  <2>1. /\ n \in Events /\ Outside(fate[n]) = "new"
        /\ keyOf' = [keyOf EXCEPT ![n] = k]
    BY <1>2, SameEvents DEF Contract!Raise
  <2>2. \A f \in Events :
          Outside(fate'[f]) = IF f = n THEN st
            ELSE IF f \in Contract!Waiting(k) THEN "superseded" ELSE Outside(fate[f])
    BY <1>2, SameEvents DEF Contract!Raise
  <2>3. e \in Contract!Waiting(k) <=> was = "waiting" /\ keyOf[e] = k
    BY SameEvents DEF Contract!Waiting
  <2>4. was # "new" => e < n
    <3>1. fate[e] = "new" => was = "new"
      BY OutsideOf
    <3> QED  BY <1>1, <3>1 DEF IndInv, EventInv, RaisedInOrder, Events
  <2> HIDE DEF n
  <2>5. keyOf'[n] = k /\ Outside(fate'[n]) = st
    BY <1>1, <2>1, <2>2
  <2>6. CASE e = n
    BY <2>1, <2>5, <2>6
  <2>7. CASE e # n
    <3>1. is = IF was = "waiting" /\ keyOf[e] = k THEN "superseded" ELSE was
      BY <2>2, <2>3, <2>7
    <3>2. n \in Nat /\ e \in Nat
      BY <2>1 DEF Events
    <3> QED  BY <2>1, <2>4, <2>5, <3>1, <3>2
  <2> QED  BY <2>6, <2>7
<1>3. ASSUME NEW S \in SUBSET Events, Contract!HandOver(S)
      PROVE  is = was \/ (was = "waiting" /\ is = "handed")
  BY <1>3, SameEvents DEF Contract!HandOver
<1>4. ASSUME NEW f \in Events, Contract!Accept(f)
      PROVE  is = was \/ (was = "handed" /\ is = "accepted")
  BY <1>4, SameEvents DEF Contract!Accept
<1>5. ASSUME NEW f \in Events, Contract!Drop(f)
      PROVE  is = was \/ (was = "handed" /\ is = "dropped" /\ stage # "up")
  BY <1>5, SameEvents DEF Contract!Drop
<1>6. ASSUME NEW f \in Events, Contract!Fail(f)
      PROVE  is = was \/ (was = "handed" /\ is = "failed")
  BY <1>6, SameEvents DEF Contract!Fail
<1>7. CASE Contract!Close
  <2>1. is = was
    BY <1>7, SameEvents DEF Contract!Close
  <2> QED  BY <2>1
<1> QED
  BY <1>2, <1>3, <1>4, <1>5, <1>6, <1>7, SameEvents DEF Contract!Next

(* debouncer.go:106-196: the end of an event is final, one that left the map is not
   replaced any more, one is replaced only by a newer one of its key that is itself
   waiting or on its way, one fails only once it was handed over, and none is
   dropped while the dispatcher runs. *)
THEOREM EventsEndOnce == Spec => Contract!EndsAreFinal
<1> DEFINE state == [e \in Events |-> Outside(fate[e])]
           Final == \A e \in Contract!Events :
       /\ state[e] \in {"superseded", "accepted", "failed", "dropped"} => state'[e] = state[e]
       /\ state[e] = "handed" => state'[e] \in {"handed", "accepted", "failed", "dropped"}
       /\ state'[e] = "superseded" /\ state[e] # "superseded" =>
            \E f \in Contract!Events :
              /\ f > e /\ keyOf'[f] = keyOf[e]
              /\ state[f] = "new" /\ state'[f] \in {"waiting", "handed"}
       /\ state'[e] = "failed" /\ state[e] # "failed" => state[e] = "handed"
       /\ state'[e] = "dropped" /\ state[e] # "dropped" => ~(stage = "up")
<1>1. IndInv /\ PendingAreEntries /\ [Next]_vars => [Final]_Contract!contractVars
  <2> SUFFICES ASSUME IndInv, Contract!Next PROVE Final
    BY ContractStep
  <2>1. \A e \in Events : state[e] = Outside(fate[e]) /\ state'[e] = Outside(fate'[e])
    OBVIOUS
  <2> HIDE DEF state
  <2> SUFFICES ASSUME NEW e \in Events
               PROVE
       /\ state[e] \in {"superseded", "accepted", "failed", "dropped"} => state'[e] = state[e]
       /\ state[e] = "handed" => state'[e] \in {"handed", "accepted", "failed", "dropped"}
       /\ state'[e] = "superseded" /\ state[e] # "superseded" =>
            \E f \in Events :
              /\ f > e /\ keyOf'[f] = keyOf[e]
              /\ state[f] = "new" /\ state'[f] \in {"waiting", "handed"}
       /\ state'[e] = "failed" /\ state[e] # "failed" => state[e] = "handed"
       /\ state'[e] = "dropped" /\ state[e] # "dropped" => ~(stage = "up")
    BY SameEvents
  <2> QED  BY <2>1, EventEnds
<1> QED
  BY <1>1, Invariance, WaitingIsPending, PTL DEF Spec, Contract!EndsAreFinal

=============================================================================

----------------------------- MODULE EventContract -----------------------------
(***************************************************************************)
(* What the debouncer promises to whoever raises an event, with no timers, *)
(* no map and no goroutines.  WebhookDebouncer implements it.              *)
(*                                                                         *)
(* An event waits, or is handed over at once (Raise); of the events of one *)
(* key the latest alone may wait, and only a waiting one is ever replaced. *)
(* One that was handed over is accepted, fails with a statement of the     *)
(* dispatcher, or is dropped if that was closed, and nothing else becomes  *)
(* of it.                                                                  *)
(***************************************************************************)
EXTENDS Naturals

CONSTANTS
  Keys,      \* event type and entity
  MaxEvents  \* events are 1 .. MaxEvents, in the order in which they are raised

Events == 1 .. MaxEvents
SomeKey == CHOOSE k \in Keys : TRUE

VARIABLES
  keyOf,   \* key of an event that was raised
  state,   \* new, waiting, superseded, handed, accepted, failed or dropped
  raised,  \* number of events raised so far
  open     \* the dispatcher was not stopped yet

contractVars == <<keyOf, state, raised, open>>

Init ==
  /\ keyOf = [e \in Events |-> SomeKey]
  /\ state = [e \in Events |-> "new"]
  /\ raised = 0
  /\ open = TRUE

Waiting(k) == {e \in Events : state[e] = "waiting" /\ keyOf[e] = k}

(* The next event takes the place of the one of its key that waits. *)
Raise(k, st) ==
  LET n == raised + 1
  IN /\ n \in Events /\ state[n] = "new"
     /\ raised' = n
     /\ keyOf' = [keyOf EXCEPT ![n] = k]
     /\ state' = [e \in Events |-> IF e = n THEN st
                                   ELSE IF e \in Waiting(k) THEN "superseded" ELSE state[e]]
     /\ UNCHANGED open

HandOver(S) ==
  /\ \A e \in S : state[e] = "waiting"
  /\ state' = [e \in Events |-> IF e \in S THEN "handed" ELSE state[e]]
  /\ UNCHANGED <<keyOf, raised, open>>

Accept(e) ==
  /\ state[e] = "handed"
  /\ state' = [state EXCEPT ![e] = "accepted"]
  /\ UNCHANGED <<keyOf, raised, open>>

(* A failure costs the event it happens to, and no other. *)
Fail(e) ==
  /\ state[e] = "handed"
  /\ state' = [state EXCEPT ![e] = "failed"]
  /\ UNCHANGED <<keyOf, raised, open>>

Drop(e) ==
  /\ state[e] = "handed"
  /\ ~open
  /\ state' = [state EXCEPT ![e] = "dropped"]
  /\ UNCHANGED <<keyOf, raised, open>>

Close ==
  /\ open' = FALSE
  /\ UNCHANGED <<keyOf, state, raised>>

Next ==
  \/ \E k \in Keys, st \in {"waiting", "handed"} : Raise(k, st)
  \/ \E S \in SUBSET Events : HandOver(S)
  \/ \E e \in Events : Accept(e) \/ Fail(e) \/ Drop(e)
  \/ Close

Spec == Init /\ [][Next]_contractVars

(* What follows for one event: an end is final, one that was handed over is never  *)
(* superseded, one is superseded only by a newer one of its key, which waits or is *)
(* handed over itself, and none is dropped before the dispatcher is stopped; one   *)
(* that failed was handed over.                                                    *)
EndsAreFinal ==
  [][\A e \in Events :
       /\ state[e] \in {"superseded", "accepted", "failed", "dropped"} => state'[e] = state[e]
       /\ state[e] = "handed" => state'[e] \in {"handed", "accepted", "failed", "dropped"}
       /\ state'[e] = "superseded" /\ state[e] # "superseded" =>
            \E f \in Events : /\ f > e /\ keyOf'[f] = keyOf[e]
                              /\ state[f] = "new" /\ state'[f] \in {"waiting", "handed"}
       /\ state'[e] = "failed" /\ state[e] # "failed" => state[e] = "handed"
       /\ state'[e] = "dropped" /\ state[e] # "dropped" => ~open]_contractVars

=============================================================================

-------------------------- MODULE DeliveryContract --------------------------
(***************************************************************************)
(* What the webhook subsystem promises about one webhook delivery, with    *)
(* no queue, no workers and no process: docs/webhooks.md, "Delivery and    *)
(* Retry".  The detailed specification WebhookDelivery implements it.      *)
(*                                                                         *)
(* A delivery is committed once (Accept), is confirmed only after the      *)
(* endpoint acknowledged it (Ack, Confirm), is given up for a reason that  *)
(* has to be true (GiveUp), may be sent again (Requeue), and its row goes  *)
(* away only once it is settled (Purge) or with its webhook (RemoveHook).  *)
(***************************************************************************)
EXTENDS Naturals

CONSTANTS
  Hooks,           \* webhooks
  MaxDeliveries,   \* delivery ids are 1..MaxDeliveries
  MaxAttempts      \* outcomes after which a failing delivery is abandoned

Ids == 1..MaxDeliveries
NoHook == "no hook"

VARIABLES
  hooks,      \* the webhooks there are
  owner,      \* the webhook a delivery is for
  status,     \* what is recorded of a delivery
  cause,      \* why the delivery failed last, as recorded
  acked,      \* the deliveries the endpoint answered with a 2xx
  recorded    \* how many outcomes were recorded for a delivery, ever

contractVars == <<hooks, owner, status, cause, acked, recorded>>

Init ==
  /\ hooks = {}
  /\ owner = [d \in Ids |-> NoHook]
  /\ status = [d \in Ids |-> "none"]
  /\ cause = [d \in Ids |-> ""]
  /\ acked = {}
  /\ recorded = [d \in Ids |-> 0]

Known(d) == status[d] \in {"pending", "delivered", "dead"}

(* An outcome is written: a new status, with the reason for it. *)
Outcome(d, st, why) ==
  /\ status' = [status EXCEPT ![d] = st]
  /\ cause' = [cause EXCEPT ![d] = why]
  /\ recorded' = [recorded EXCEPT ![d] = @ + 1]
  /\ UNCHANGED <<hooks, owner, acked>>

AddHook(h) ==
  /\ h \notin hooks
  /\ hooks' = hooks \cup {h}
  /\ UNCHANGED <<owner, status, cause, acked, recorded>>

Accept(d, h) ==
  /\ status[d] = "none"
  /\ h \in hooks
  /\ status' = [status EXCEPT ![d] = "pending"]
  /\ owner' = [owner EXCEPT ![d] = h]
  /\ UNCHANGED <<hooks, cause, acked, recorded>>

Ack(d) ==
  /\ status[d] # "none"
  /\ acked' = acked \cup {d}
  /\ UNCHANGED <<hooks, owner, status, cause, recorded>>

(* Delivered means acknowledged; the reason of an earlier failure stays. *)
Confirm(d) ==
  /\ Known(d)
  /\ d \in acked
  /\ Outcome(d, "delivered", cause[d])

Postpone(d) ==
  /\ Known(d)
  /\ Outcome(d, "pending", "failed")

(* Giving up for want of success takes MaxAttempts recorded outcomes. *)
GiveUp(d, why) ==
  /\ Known(d)
  /\ why = "exhausted" => recorded[d] + 1 >= MaxAttempts
  /\ Outcome(d, "dead", why)

Requeue(d) ==
  /\ Known(d)
  /\ status' = [status EXCEPT ![d] = "pending"]
  /\ cause' = [cause EXCEPT ![d] = ""]
  /\ UNCHANGED <<hooks, owner, acked, recorded>>

Forget(S) ==
  /\ status' = [d \in Ids |-> IF d \in S THEN "gone" ELSE status[d]]
  /\ UNCHANGED <<owner, cause, acked, recorded>>

(* Retention removes only what is settled ... *)
Purge(S) ==
  /\ \A d \in S : status[d] \in {"delivered", "dead"}
  /\ Forget(S)
  /\ UNCHANGED hooks

(* ... and a webhook takes all of its own deliveries with it, and no other. *)
RemoveHook(h) ==
  /\ h \in hooks
  /\ hooks' = hooks \ {h}
  /\ Forget({d \in Ids : Known(d) /\ owner[d] = h})

Next ==
  \/ \E h \in Hooks :
       \/ AddHook(h)
       \/ RemoveHook(h)
       \/ \E d \in Ids : Accept(d, h)
  \/ \E d \in Ids :
       \/ Ack(d)
       \/ Confirm(d)
       \/ Postpone(d)
       \/ \E why \in {"rejected", "exhausted", "disabled"} : GiveUp(d, why)
       \/ Requeue(d)
  \/ \E S \in SUBSET Ids : Purge(S)

Spec == Init /\ [][Next]_contractVars

(* What follows for one delivery: it stops being pending only with an outcome that *)
(* counts or with its webhook, whatever is recorded of it belongs to one webhook,  *)
(* and a row that is gone does not return (the id is never given out again).       *)
Recorded(d) == recorded'[d] = recorded[d] + 1

NothingIsLost ==
  [][\A d \in Ids :
       /\ status[d] = "pending" /\ status'[d] # "pending" =>
            \/ status'[d] \in {"delivered", "dead"} /\ Recorded(d)
            \/ status'[d] = "gone" /\ owner[d] \in hooks /\ owner[d] \notin hooks'
       /\ status[d] # "none" => status'[d] # "none" /\ owner'[d] = owner[d]
       /\ status[d] = "gone" => status'[d] = "gone"]_contractVars

=============================================================================

-------------------------- MODULE WebhookDelivery --------------------------
(***************************************************************************)
(* What the outbox promises of a delivery that nothing disturbs: it waits, *)
(* is attempted until its endpoint answers with 2xx, and is then delivered *)
(* without another attempt; it fails only when the last attempt was made,  *)
(* and is abandoned only while no attempt was answered with 2xx.  What has *)
(* come to rest stays as it is.  Of a delivery that is disturbed nothing   *)
(* is promised here.                                                       *)
(***************************************************************************)
EXTENDS Naturals

CONSTANTS Deliveries, MaxAttempts

VARIABLES
  phase,    \* "absent", "waiting", "accepted", "delivered", "failed",
            \* "abandoned" or "disturbed"
  attempts  \* attempts[k]: attempts made, counted up to MaxAttempts

vars == <<phase, attempts>>

Init ==
  /\ phase = [k \in Deliveries |-> "absent"]
  /\ attempts = [k \in Deliveries |-> 0]

Move(k, from, to) == phase[k] = from /\ phase' = [phase EXCEPT ![k] = to]

CountAttempt(k) ==
  attempts' = [attempts EXCEPT ![k] = IF @ < MaxAttempts THEN @ + 1 ELSE @]

Queue(k) == Move(k, "absent", "waiting") /\ UNCHANGED attempts

Attempt(k) == Move(k, "waiting", "waiting") /\ CountAttempt(k)

AcceptedAttempt(k) == Move(k, "waiting", "accepted") /\ CountAttempt(k)

Deliver(k) == Move(k, "accepted", "delivered") /\ UNCHANGED attempts

GiveUp(k) ==
  /\ attempts[k] = MaxAttempts
  /\ Move(k, "waiting", "failed")
  /\ UNCHANGED attempts

Abandon(k) == Move(k, "waiting", "abandoned") /\ CountAttempt(k)

\* Some deliveries are taken by two senders at once, or an answer is forgotten.
Disturb(some) ==
  /\ phase' = [k \in Deliveries |-> IF k \in some THEN "disturbed" ELSE phase[k]]
  /\ attempts' = [k \in Deliveries |-> IF k \in some THEN 0 ELSE attempts[k]]

Next ==
  \/ \E k \in Deliveries : \/ Queue(k) \/ Attempt(k) \/ AcceptedAttempt(k)
                           \/ Deliver(k) \/ GiveUp(k) \/ Abandon(k)
  \/ \E some \in SUBSET Deliveries : Disturb(some)

Spec == Init /\ [][Next]_vars
=============================================================================

--------------------------- MODULE WebhookOutbox ---------------------------
(***************************************************************************)
(* The webhook outbox of one workspace: producers insert one delivery row  *)
(* per endpoint and event, and two senders, the scheduler thread and the   *)
(* API event loop, take due rows, send them and record the outcome.        *)
(*                                                                         *)
(* A sender reads a whole batch of rows at once and works it off with one  *)
(* commit per row.  Nothing locks a row.  The first row is used as it was  *)
(* read with the batch; a commit expires the others, so each of them is    *)
(* read again just before it is sent, and its status is not looked at.     *)
(* Only columns that differ from what was read are written.                *)
(*                                                                         *)
(* The order of next_attempt_at among the rows that are due is the order   *)
(* in which they became due.  Payloads, signatures and the counters of an  *)
(* endpoint are left out.                                                  *)
(***************************************************************************)
EXTENDS Naturals, FiniteSets, SequencesExt

CONSTANTS
  Endpoints,   \* endpoints of the workspace; all subscribe to every event
  Events,      \* idempotency keys of events
  Tests,       \* idempotency keys of test deliveries, one per test call
  Producers,   \* threads that enqueue events
  CycleLimit,  \* rows the scheduler takes in a cycle
  CallLimit,   \* rows an API call may ask for at most
  MaxAttempts, \* max_attempts of every delivery
  MaxCalls,    \* bound on API calls that process what is due
  MaxToggles,  \* bound on enabling and disabling
  MaxCrashes   \* bound on restarts of the process

ASSUME OutboxAssumption ==
  /\ Events \cap Tests = {}
  /\ CycleLimit \in Nat \ {0} /\ CallLimit \in Nat \ {0} /\ MaxAttempts \in 1..10
  /\ MaxCalls \in Nat /\ MaxToggles \in Nat /\ MaxCrashes \in Nat

VARIABLES
  delivery,    \* delivery[k]: the row of endpoint k[1] and idempotency key k[2]
  due,         \* keys of the pending rows whose time has come, in that order
  enabled,     \* WebhookEndpoint.enabled
  producer,    \* producer[p]: rows p has yet to insert
  sender,      \* sender[w]: the batch w works off
  tried,       \* tried[k]: attempts at k, counted up to MaxAttempts (history)
  acked,       \* keys an endpoint answered with 2xx (history)
  excused,     \* keys that were answered with 2xx when the process died before
               \* recording it, or that both senders had in hand (history)
  calls, toggles, crashes  \* bounded by MaxCalls, MaxToggles, MaxCrashes

history == <<tried, acked, excused>>
bounds == <<calls, toggles, crashes>>
vars == <<delivery, due, enabled, producer, sender, history, bounds>>

Keys == Endpoints \X (Events \cup Tests)
Senders == {"scheduler", "handler"}
Results == {"accepted", "refused", "unanswered"}
Outcomes == {"delivered", "pending", "failed"}

Delivery ==
  [status : {"none", "pending", "delivered", "failed", "abandoned"}, attempts : Nat]
\* "queued": a test call has inserted its row.  "picked": the head of the batch is
\* as it was when the batch was read.  "next": it will be read again.
Sender ==
  [pc : {"idle", "queued", "picked", "next", "sent"}, batch : Seq(Keys),
   seen : Delivery, outcome : Outcomes]

Absent == [status |-> "none", attempts |-> 0]
NewDelivery == [status |-> "pending", attempts |-> 0]
Idle == [pc |-> "idle", batch |-> <<>>, seen |-> Absent, outcome |-> "pending"]

Init ==
  /\ delivery = [k \in Keys |-> Absent]
  /\ due = <<>>
  /\ enabled = [e \in Endpoints |-> TRUE]
  /\ producer = [p \in Producers |-> {}]
  /\ sender = [w \in Senders |-> Idle]
  /\ tried = [k \in Keys |-> 0]
  /\ acked = {} /\ excused = {}
  /\ calls = 0 /\ toggles = 0 /\ crashes = 0

(***************************************************************************)
(* Enqueueing                                                              *)
(***************************************************************************)
\* enqueue_webhook_event reads the enabled endpoints once ...
Publish(p, event) ==
  /\ producer[p] = {}
  /\ producer' = [producer EXCEPT ![p] = {k \in Keys : enabled[k[1]] /\ k[2] = event}]
  /\ UNCHANGED <<delivery, due, enabled, sender, history, bounds>>

Insert(k) ==
  /\ delivery' = [delivery EXCEPT ![k] = NewDelivery]
  /\ due' = Append(due, k)

\* Only a pending row of the same key counts as the event's.
EnqueueBug(p, k) ==
  /\ k \in producer[p]
  /\ producer' = [producer EXCEPT ![p] = @ \ {k}]
  /\ IF delivery[k].status # "pending" THEN Insert(k) ELSE UNCHANGED <<delivery, due>>
  /\ UNCHANGED <<enabled, sender, history, bounds>>

\* ... and commits one row after the other; the unique index refuses a second one.
Enqueue(p, k) ==
  /\ k \in producer[p]
  /\ producer' = [producer EXCEPT ![p] = @ \ {k}]
  /\ IF delivery[k].status = "none" THEN Insert(k) ELSE UNCHANGED <<delivery, due>>
  /\ UNCHANGED <<enabled, sender, history, bounds>>

(***************************************************************************)
(* Taking a batch                                                          *)
(***************************************************************************)
HasInHand(w, k) ==
  /\ sender[w].pc \in {"picked", "next", "sent"}
  /\ \E i \in DOMAIN sender[w].batch : sender[w].batch[i] = k

\* The first rows that are due, in their order, of the keys in scope: at[i] is the
\* place in due of the batch's row i, and a row that is left out comes after them.
IsBatch(batch, scope, limit) ==
  LET rows == {i \in DOMAIN due : due[i] \in scope} IN
  \E at \in [DOMAIN batch -> rows] :
    /\ \A i \in DOMAIN batch : batch[i] = due[at[i]]
    /\ \A i, j \in DOMAIN batch : i < j => at[i] < at[j]
    /\ \A row \in rows \ {at[i] : i \in DOMAIN batch} :
         Len(batch) = limit /\ \A i \in DOMAIN batch : at[i] < row

Pick(w, scope, limit) ==
  \E n \in 0..limit : \E batch \in [1..n -> Keys] :
    /\ IsBatch(batch, scope, limit)
    /\ sender' = [sender EXCEPT ![w] =
         IF n = 0 THEN Idle
         ELSE [Idle EXCEPT !.pc = "picked", !.batch = batch, !.seen = delivery[batch[1]]]]
    /\ excused' = excused \cup {k \in Keys :
         /\ \E i \in 1..n : batch[i] = k
         /\ \E v \in Senders \ {w} : HasInHand(v, k)}
    /\ UNCHANGED <<delivery, due, enabled, producer, tried, acked, toggles, crashes>>

SchedulerPick ==
  /\ sender["scheduler"].pc = "idle"
  /\ due # <<>>
  /\ Pick("scheduler", Keys, CycleLimit)
  /\ UNCHANGED calls

\* POST /webhooks/deliveries/process, which may ask for fewer rows.
ProcessCall ==
  /\ calls < MaxCalls
  /\ sender["handler"].pc = "idle"
  /\ due # <<>>
  /\ \E limit \in 1..CallLimit : Pick("handler", Keys, limit)
  /\ calls' = calls + 1

\* POST /webhooks/{id}/test inserts a row of its own ...
QueueTest(k) ==
  /\ sender["handler"].pc = "idle"
  /\ k[2] \in Tests
  /\ delivery[k].status = "none"
  /\ Insert(k)
  /\ sender' = [sender EXCEPT !["handler"] = [Idle EXCEPT !.pc = "queued", !.batch = <<k>>]]
  /\ UNCHANGED <<enabled, producer, history, bounds>>

\* ... and takes one row of the endpoint that is due.
PickForTest ==
  LET k == Head(sender["handler"].batch) IN
  /\ sender["handler"].pc = "queued"
  /\ Pick("handler", {i \in Keys : i[1] = k[1]}, 1)
  /\ UNCHANGED calls

(***************************************************************************)
(* Attempting a delivery                                                   *)
(***************************************************************************)
InHand(w) == sender[w].pc \in {"picked", "next"}
Current(w) == Head(sender[w].batch)
Read(w) == IF sender[w].pc = "picked" THEN sender[w].seen ELSE delivery[Current(w)]

Attempted(w) ==
  [tried EXCEPT ![Current(w)] = IF @ < MaxAttempts THEN @ + 1 ELSE @]

Rest(w) ==
  IF Len(sender[w].batch) = 1 THEN Idle
  ELSE [Idle EXCEPT !.pc = "next", !.batch = Tail(sender[w].batch)]

\* The attempt is not counted.
WrittenBug(old, seen, status) ==
  [status |-> IF status = seen.status THEN old.status ELSE status,
   attempts |-> old.attempts]
\* The row as it is written: the attempt count always, the status if it changed.
Written(old, seen, status) ==
  [status |-> IF status = seen.status THEN old.status ELSE status,
   attempts |-> seen.attempts + 1]

\* The time of the next attempt stays as it was.
NextAttemptBug(k, row, later) ==
  IF row.status = "pending" /\ ~later THEN Append(due, k) ELSE due
\* next_attempt_at is now, or later when the delivery is to be retried.
NextAttempt(k, row, later) ==
  LET others == RemoveFirst(due, k)
  IN IF row.status = "pending" /\ ~later THEN Append(others, k) ELSE others

Commit(w, seen, status) ==
  LET k == Current(w)
      row == Written(delivery[k], seen, status)
  IN
  /\ delivery' = [delivery EXCEPT ![k] = row]
  /\ due' = NextAttempt(k, row, status = "pending")
  /\ sender' = [sender EXCEPT ![w] = Rest(w)]

\* The endpoint was disabled: the delivery is not sent, now or later.
Abandon(w) ==
  /\ InHand(w)
  /\ ~enabled[Current(w)[1]]
  /\ Commit(w, Read(w), "abandoned")
  /\ tried' = Attempted(w)
  /\ UNCHANGED <<enabled, producer, acked, excused, bounds>>

\* Only a request without an answer has failed.
StatusAnsweredBug(seen, result) ==
  IF result # "unanswered" THEN "delivered"
  ELSE IF seen.attempts + 1 >= MaxAttempts THEN "failed" ELSE "pending"
\* One attempt too few.
StatusEarlyBug(seen, result) ==
  IF result = "accepted" THEN "delivered"
  ELSE IF seen.attempts + 2 >= MaxAttempts THEN "failed" ELSE "pending"

\* The status after an attempt (_mark_delivery_failure for the other answers).
StatusAfter(seen, result) ==
  IF result = "accepted" THEN "delivered"
  ELSE IF seen.attempts + 1 >= MaxAttempts THEN "failed" ELSE "pending"

\* The HTTP request: 2xx, another answer, or no answer although the endpoint may
\* have received it.
Send(w, result) ==
  LET k == Current(w) IN
  /\ InHand(w)
  /\ enabled[k[1]]
  /\ sender' = [sender EXCEPT ![w].pc = "sent", ![w].seen = Read(w),
                               ![w].outcome = StatusAfter(Read(w), result)]
  /\ tried' = Attempted(w)
  /\ acked' = IF result = "accepted" THEN acked \cup {k} ELSE acked
  /\ UNCHANGED <<delivery, due, enabled, producer, excused, bounds>>

Record(w) ==
  /\ sender[w].pc = "sent"
  /\ Commit(w, sender[w].seen, sender[w].outcome)
  /\ UNCHANGED <<enabled, producer, history, bounds>>

(***************************************************************************)
(* Time, operators and crashes                                             *)
(***************************************************************************)
RetryDue(k) ==
  /\ delivery[k].status = "pending"
  /\ \A i \in DOMAIN due : due[i] # k
  /\ due' = Append(due, k)
  /\ UNCHANGED <<delivery, enabled, producer, sender, history, bounds>>

\* Handlers share one event loop with the calls that send.
Toggle(e) ==
  /\ toggles < MaxToggles
  /\ sender["handler"].pc = "idle"
  /\ enabled' = [enabled EXCEPT ![e] = ~@]
  /\ toggles' = toggles + 1
  /\ UNCHANGED <<delivery, due, producer, sender, history, calls, crashes>>

Crash ==
  /\ crashes < MaxCrashes
  /\ producer' = [p \in Producers |-> {}]
  /\ sender' = [w \in Senders |-> Idle]
  /\ excused' = excused \cup
       {k \in Keys : \E w \in Senders : /\ sender[w].pc = "sent" /\ Current(w) = k
                                        /\ sender[w].outcome = "delivered"}
  /\ crashes' = crashes + 1
  /\ UNCHANGED <<delivery, due, enabled, tried, acked, calls, toggles>>

Deliver(w) == Abandon(w) \/ (\E result \in Results : Send(w, result)) \/ Record(w)

Next ==
  \/ \E p \in Producers : (\E event \in Events : Publish(p, event))
                          \/ (\E k \in Keys : Enqueue(p, k))
  \/ SchedulerPick \/ ProcessCall \/ PickForTest
  \/ \E k \in Keys : QueueTest(k) \/ RetryDue(k)
  \/ \E w \in Senders : Deliver(w)
  \/ \E e \in Endpoints : Toggle(e)
  \/ Crash

Spec == Init /\ [][Next]_vars

(***************************************************************************)
(* The scheduler repeats its cycle and catches every error; time passes.   *)
(* No answer of an endpoint is assumed, and no API call.                   *)
(***************************************************************************)
Fairness ==
  /\ WF_vars(SchedulerPick)
  /\ WF_vars(Deliver("scheduler"))
  /\ \A k \in Keys : WF_vars(RetryDue(k))

FairSpec == Spec /\ Fairness

-----------------------------------------------------------------------------
(***************************************************************************)
(* Properties                                                              *)
(***************************************************************************)
\* Every variable has its type; what is due is pending and waits once.
TypeOK ==
  /\ delivery \in [Keys -> Delivery]
  /\ due \in Seq(Keys)
  /\ \A i, j \in DOMAIN due : delivery[due[i]].status = "pending" /\ (due[i] = due[j] => i = j)
  /\ enabled \in [Endpoints -> BOOLEAN]
  /\ producer \in [Producers -> SUBSET Keys]
  /\ sender \in [Senders -> Sender]
  /\ tried \in [Keys -> 0..MaxAttempts]
  /\ acked \subseteq Keys /\ excused \subseteq Keys
  /\ calls \in 0..MaxCalls /\ toggles \in 0..MaxToggles /\ crashes \in 0..MaxCrashes

\* A delivery that is shown as delivered was answered with 2xx, whatever two
\* senders wrote over each other.  About the partial UPDATEs of
\* deliver_webhook_delivery.
DeliveredWasAccepted == \A k \in Keys : delivery[k].status = "delivered" => k \in acked

\* A delivery is given up only after max_attempts attempts: overlapping senders
\* and crashes lose counts but never add any.  About _mark_delivery_failure.
GivenUpAfterAllAttempts ==
  \A k \in Keys : delivery[k].status = "failed" => tried[k] >= MaxAttempts

\* An endpoint that answered 2xx gets the event again only if the process died
\* before recording it or if both senders had the row in hand, however often the
\* event is enqueued again.  About selecting on the status and the unique index.
Sends(w, k) == InHand(w) /\ Current(w) = k /\ sender'[w].pc = "sent"

AcceptedOnce ==
  [][\A w \in Senders, k \in acked : Sends(w, k) => k \in excused]_vars

\* What the rows say of the deliveries that are not excused.  An answer of 2xx is
\* known as soon as it was given, its row says so later.
Phase(k) ==
  IF k \in excused THEN "disturbed"
  ELSE CASE delivery[k].status = "none" -> "absent"
         [] delivery[k].status = "pending" -> IF k \in acked THEN "accepted" ELSE "waiting"
         [] OTHER -> delivery[k].status

Counted(k) == IF k \in excused THEN 0 ELSE tried[k]

Promise == INSTANCE WebhookDelivery WITH
  Deliveries <- Keys, MaxAttempts <- MaxAttempts,
  phase <- [k \in Keys |-> Phase(k)], attempts <- [k \in Keys |-> Counted(k)]

\* The two senders, with their batches, copies of rows and partial updates, do to
\* every row that is not excused what one sender that works on it alone would do.
ImplementsDelivery == Promise!Spec

\* Every delivery comes to rest, a row whose outcome was overwritten too, and no
\* row keeps another one waiting for ever.  About ordering by next_attempt_at.
EventuallyFinal == \A k \in Keys : <>[](delivery[k].status # "pending")
=============================================================================

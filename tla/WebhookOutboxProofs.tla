------------------------ MODULE WebhookOutboxProofs ------------------------
(***************************************************************************)
(* Proofs about WebhookOutbox, for any endpoints, events and limits: what  *)
(* two senders write over each other never claims more than happened, and  *)
(* what was accepted goes out again only after a crash or to both senders. *)
(***************************************************************************)
EXTENDS WebhookOutbox, SequenceTheorems, TLAPS

-----------------------------------------------------------------------------
(***************************************************************************)
(* Types of what the proofs need                                           *)
(***************************************************************************)
HasBatch(s) == s.pc \in {"picked", "next", "sent"} => s.batch # <<>>

TypeInv ==
  /\ delivery \in [Keys -> Delivery]
  /\ sender \in [Senders -> Sender]
  /\ \A w \in Senders : HasBatch(sender[w])
  /\ tried \in [Keys -> 0..MaxAttempts]

\* The row a sender works at is a row.
LEMMA CurrentIsKey ==
  ASSUME TypeInv, NEW w \in Senders, sender[w].pc \in {"picked", "next", "sent"}
  PROVE  /\ Current(w) \in Keys /\ sender[w].batch \in Seq(Keys)
         /\ Read(w) \in Delivery
<1>1. sender[w].batch \in Seq(Keys) /\ sender[w].batch # <<>> /\ sender[w].seen \in Delivery
  BY DEF TypeInv, Sender, HasBatch
<1>2. Current(w) \in Keys
  BY <1>1 DEF Current
<1> QED BY <1>1, <1>2 DEF Read, TypeInv

LEMMA IdleType == Idle \in Sender /\ Idle.pc = "idle"
BY DEF Idle, Sender, Delivery, Absent, Outcomes

\* A batch that was read is handed to the sender as it is (deliver_due_webhooks).
LEMMA PickedSender ==
  ASSUME TypeInv, NEW n \in Nat \ {0}, NEW batch \in [1..n -> Keys]
  PROVE  LET next == [Idle EXCEPT !.pc = "picked", !.batch = batch, !.seen = delivery[batch[1]]]
         IN /\ next \in Sender /\ next.pc = "picked" /\ next.batch # <<>>
            /\ next.batch = batch
            /\ Head(next.batch) = batch[1] /\ next.seen = delivery[batch[1]]
<1> DEFINE seen == delivery[batch[1]]
           next == [Idle EXCEPT !.pc = "picked", !.batch = batch, !.seen = seen]
<1>1. batch \in Seq(Keys) /\ batch # <<>> /\ Head(batch) = batch[1] /\ batch[1] \in Keys
  BY DEF Keys
<1>2. seen \in Delivery
  BY <1>1 DEF TypeInv
<1> HIDE DEF seen
<1>3. next \in Sender /\ next.pc = "picked" /\ next.batch = batch /\ next.seen = seen
  BY <1>1, <1>2, IdleType DEF Sender
<1> QED BY <1>1, <1>3 DEF seen

\* What is left of a batch has another row to send, which is read again.
LEMMA RestType ==
  ASSUME TypeInv, NEW w \in Senders, sender[w].pc \in {"picked", "next", "sent"}
  PROVE  Rest(w) \in Sender /\ HasBatch(Rest(w)) /\ Rest(w).pc \in {"idle", "next"}
<1> DEFINE tail == Tail(sender[w].batch)
           next == [Idle EXCEPT !.pc = "next", !.batch = tail]
<1>1. CASE Len(sender[w].batch) = 1
  BY <1>1, IdleType DEF Rest, HasBatch
<1>2. CASE Len(sender[w].batch) # 1
  <2>1. tail \in Seq(Keys) /\ tail # <<>>
    <3>1. sender[w].batch \in Seq(Keys) /\ sender[w].batch # <<>>
      BY CurrentIsKey DEF TypeInv, HasBatch
    <3>2. Len(tail) = Len(sender[w].batch) - 1 /\ tail \in Seq(Keys)
      BY <3>1, HeadTailProperties
    <3>3. Len(tail) # 0
      BY <1>2, <3>1, <3>2
    <3> HIDE DEF tail
    <3>4. tail # <<>>
      BY <3>3
    <3> QED BY <3>2, <3>4
  <2> HIDE DEF tail
  <2>2. next \in Sender /\ next.pc = "next" /\ next.batch = tail
    BY <2>1, IdleType DEF Sender
  <2> QED BY <1>2, <2>1, <2>2 DEF Rest, HasBatch, tail
<1> QED BY <1>1, <1>2

\* A row as it is written is a row.
LEMMA WrittenType ==
  ASSUME NEW old \in Delivery, NEW seen \in Delivery,
         NEW status \in {"pending", "delivered", "failed", "abandoned"}
  PROVE  /\ Written(old, seen, status) \in Delivery
         /\ Written(old, seen, status).attempts = seen.attempts + 1
         /\ Written(old, seen, status).status \in {old.status, status}
BY DEF Written, Delivery

-----------------------------------------------------------------------------
(***************************************************************************)
(* What the rows and the senders may claim                                 *)
(***************************************************************************)
\* A count of attempts at k is backed by attempts at k.
Backed(n, k) == n <= tried[k] \/ tried[k] = MaxAttempts

RowClaims(k) ==
  /\ Backed(delivery[k].attempts, k)
  /\ delivery[k].status = "delivered" => k \in acked
  /\ delivery[k].status = "failed" => tried[k] = MaxAttempts

SenderClaims(w) ==
  /\ sender[w].pc = "picked" => Backed(sender[w].seen.attempts, Current(w))
  /\ sender[w].pc = "sent" =>
       /\ Backed(sender[w].seen.attempts + 1, Current(w))
       /\ sender[w].outcome = "delivered" => Current(w) \in acked
       /\ sender[w].outcome = "failed" => tried[Current(w)] = MaxAttempts

Claims == (\A k \in Keys : RowClaims(k)) /\ (\A w \in Senders : SenderClaims(w))

Inv == TypeInv /\ Claims

\* More attempts and more answers back the same claims.
LEMMA ClaimsKept ==
  ASSUME Inv, \A k \in Keys : tried'[k] \in 0..MaxAttempts /\ tried[k] <= tried'[k],
         acked \subseteq acked'
  PROVE  /\ \A k \in Keys : delivery'[k] = delivery[k] => RowClaims(k)'
         /\ \A w \in Senders : sender'[w] = sender[w] => SenderClaims(w)'
<1>1. MaxAttempts \in Nat /\ \A k \in Keys : tried[k] \in 0..MaxAttempts
  BY OutboxAssumption DEF Inv, TypeInv
<1>2. ASSUME NEW k \in Keys, NEW n \in Nat, Backed(n, k) PROVE Backed(n, k)'
  BY <1>1, <1>2 DEF Backed
<1>3. ASSUME NEW k \in Keys, delivery'[k] = delivery[k] PROVE RowClaims(k)'
  <2>1. delivery[k].attempts \in Nat /\ RowClaims(k)
    BY DEF Inv, Claims, TypeInv, Delivery
  <2>2. tried[k] = MaxAttempts => tried'[k] = MaxAttempts
    BY <1>1
  <2> QED BY <1>2, <1>3, <2>1, <2>2 DEF RowClaims, Backed
<1>4. ASSUME NEW w \in Senders, sender'[w] = sender[w] PROVE SenderClaims(w)'
  <2>1. SenderClaims(w) /\ sender[w].seen.attempts \in Nat /\ Current(w)' = Current(w)
    BY <1>4 DEF Inv, Claims, TypeInv, Sender, Delivery, Current
  <2>2. sender[w].pc \in {"picked", "sent"} => Current(w) \in Keys
    BY CurrentIsKey DEF Inv
  <2>3. Current(w) \in Keys /\ tried[Current(w)] = MaxAttempts => tried'[Current(w)] = MaxAttempts
    BY <1>1
  <2> QED BY <1>2, <1>4, <2>1, <2>2, <2>3 DEF SenderClaims, Backed
<1> QED BY <1>3, <1>4

\* A new row claims nothing (enqueue_webhook_event, queue_test_webhook).
LEMMA InsertStep ==
  ASSUME Inv, NEW k \in Keys, Insert(k), UNCHANGED <<tried, acked>>
  PROVE  delivery' \in [Keys -> Delivery] /\ \A i \in Keys : RowClaims(i)'
<1>1. NewDelivery \in Delivery /\ NewDelivery.attempts = 0 /\ NewDelivery.status = "pending"
  BY DEF NewDelivery, Delivery
<1>2. \A i \in Keys : tried[i] \in 0..MaxAttempts /\ MaxAttempts \in Nat
  BY OutboxAssumption DEF Inv, TypeInv
<1>3. delivery' = [delivery EXCEPT ![k] = NewDelivery] /\ delivery \in [Keys -> Delivery]
  BY DEF Insert, Inv, TypeInv
<1>4. \A i \in Keys \ {k} : RowClaims(i)'
  BY <1>2, <1>3, ClaimsKept
<1>5. RowClaims(k)'
  BY <1>1, <1>2, <1>3 DEF RowClaims, Backed
<1> QED BY <1>1, <1>3, <1>4, <1>5

\* Taking a batch (deliver_due_webhooks).
LEMMA PickStep ==
  ASSUME Inv, NEW w \in Senders, NEW scope, NEW limit \in Nat, Pick(w, scope, limit)
  PROVE  Inv'
<1>1. PICK n \in 0..limit : \E batch \in [1..n -> Keys] :
        sender' = [sender EXCEPT ![w] =
          IF n = 0 THEN Idle
          ELSE [Idle EXCEPT !.pc = "picked", !.batch = batch, !.seen = delivery[batch[1]]]]
  BY DEF Pick
<1>2. PICK batch \in [1..n -> Keys] :
        sender' = [sender EXCEPT ![w] =
          IF n = 0 THEN Idle
          ELSE [Idle EXCEPT !.pc = "picked", !.batch = batch, !.seen = delivery[batch[1]]]]
  BY <1>1
<1>3. UNCHANGED <<delivery, tried, acked>>
  BY DEF Pick
<1>4. /\ sender'[w] \in Sender /\ HasBatch(sender'[w])
      /\ sender'[w].pc \in {"idle", "picked"}
      /\ sender'[w].pc = "picked" =>
           Head(sender'[w].batch) \in Keys
             /\ sender'[w].seen = delivery[Head(sender'[w].batch)]
  <2>1. CASE n = 0
    <3>1. sender'[w] = Idle
      BY <1>2, <2>1 DEF Inv, TypeInv
    <3> QED BY <3>1, IdleType DEF HasBatch
  <2>2. CASE n # 0
    <3> DEFINE next == [Idle EXCEPT !.pc = "picked", !.batch = batch,
                                    !.seen = delivery[batch[1]]]
    <3>1. n \in Nat \ {0} /\ batch[1] \in Keys
      BY <2>2
    <3>2. /\ next \in Sender /\ next.pc = "picked" /\ next.batch # <<>>
          /\ Head(next.batch) = batch[1] /\ next.seen = delivery[batch[1]]
      BY <3>1, PickedSender DEF Inv
    <3>3. sender'[w] = next
      BY <1>2, <2>2 DEF Inv, TypeInv
    <3> HIDE DEF next
    <3> QED BY <3>1, <3>2, <3>3 DEF HasBatch
  <2> QED BY <2>1, <2>2
<1>5. \A v \in Senders \ {w} : sender'[v] = sender[v]
  BY <1>2 DEF Inv, TypeInv
<1>6. TypeInv'
  <2>1. sender' \in [Senders -> Sender]
    <3>1. sender' = [v \in Senders |-> sender'[v]]
      BY <1>2 DEF Inv, TypeInv
    <3> QED BY <1>4, <1>5, <3>1 DEF Inv, TypeInv
  <2> QED BY <1>3, <1>4, <1>5, <2>1 DEF Inv, TypeInv
<1>7. \A k \in Keys : tried'[k] \in 0..MaxAttempts /\ tried[k] <= tried'[k]
  BY <1>3, OutboxAssumption DEF Inv, TypeInv
<1>8. (\A k \in Keys : RowClaims(k)') /\ (\A v \in Senders \ {w} : SenderClaims(v)')
  BY <1>3, <1>5, <1>7, ClaimsKept
<1>9. SenderClaims(w)'
  BY <1>3, <1>4 DEF SenderClaims, Current, Backed, Inv, Claims, RowClaims
<1> QED BY <1>6, <1>8, <1>9 DEF Inv, Claims

\* Committing a status (the end of deliver_webhook_delivery) that the attempts
\* and the answers back.
LEMMA CommitStep ==
  ASSUME Inv, NEW w \in Senders, sender[w].pc \in {"picked", "next", "sent"},
         NEW seen \in Delivery, NEW status \in {"pending", "delivered", "failed", "abandoned"},
         Commit(w, seen, status), UNCHANGED acked,
         tried' \in [Keys -> 0..MaxAttempts], \A k \in Keys : tried[k] <= tried'[k],
         seen.attempts + 1 <= tried'[Current(w)] \/ tried'[Current(w)] = MaxAttempts,
         status = "delivered" => Current(w) \in acked,
         status = "failed" => tried'[Current(w)] = MaxAttempts
  PROVE  Inv'
<1>1. PICK k \in Keys : k = Current(w)
  BY CurrentIsKey DEF Inv
<1>2. delivery[k] \in Delivery
  BY DEF Inv, TypeInv
<1>3. PICK row \in Delivery :
        /\ row = Written(delivery[k], seen, status)
        /\ row.attempts = seen.attempts + 1 /\ row.status \in {delivery[k].status, status}
  <2> DEFINE written == Written(delivery[k], seen, status)
  <2>1. /\ written \in Delivery /\ written.attempts = seen.attempts + 1
        /\ written.status \in {delivery[k].status, status}
    BY <1>2, WrittenType
  <2> QED BY <2>1
<1>4. delivery' = [delivery EXCEPT ![k] = row] /\ sender' = [sender EXCEPT ![w] = Rest(w)]
  BY <1>1, <1>3 DEF Commit
<1>5. Rest(w) \in Sender /\ HasBatch(Rest(w)) /\ Rest(w).pc \in {"idle", "next"}
  BY RestType DEF Inv
<1>6. TypeInv'
  BY <1>2, <1>4, <1>3, <1>5 DEF Inv, TypeInv
<1>7. /\ \A i \in Keys \ {k} : RowClaims(i)'
      /\ \A v \in Senders \ {w} : SenderClaims(v)'
  <2>1. \A i \in Keys \ {k} : delivery'[i] = delivery[i]
    BY <1>4 DEF Inv, TypeInv
  <2>2. \A v \in Senders \ {w} : sender'[v] = sender[v]
    BY <1>4 DEF Inv, TypeInv
  <2> QED BY <2>1, <2>2, ClaimsKept
<1>8. SenderClaims(w)'
  <2>1. sender'[w] = Rest(w)
    BY <1>4 DEF Inv, TypeInv
  <2> QED BY <1>5, <2>1 DEF SenderClaims
<1>9. RowClaims(k)'
  <2>1. delivery'[k] = row
    BY <1>2, <1>4 DEF Inv, TypeInv
  <2>2. RowClaims(k) /\ tried[k] \in 0..MaxAttempts /\ tried'[k] \in 0..MaxAttempts
        /\ tried[k] <= tried'[k] /\ MaxAttempts \in Nat
    BY <1>2, OutboxAssumption DEF Inv, Claims, TypeInv
  <2>3. /\ seen.attempts + 1 <= tried'[k] \/ tried'[k] = MaxAttempts
        /\ status = "delivered" => k \in acked
        /\ status = "failed" => tried'[k] = MaxAttempts
    BY <1>1
  <2> QED BY <1>3, <2>1, <2>2, <2>3 DEF RowClaims, Backed
<1> QED BY <1>6, <1>7, <1>8, <1>9 DEF Inv, Claims

\* Another attempt backs one more count.
LEMMA AttemptedBacks ==
  ASSUME Inv, NEW w \in Senders, InHand(w), tried' = Attempted(w)
  PROVE  /\ tried' \in [Keys -> 0..MaxAttempts] /\ \A k \in Keys : tried[k] <= tried'[k]
         /\ Read(w) \in Delivery /\ Current(w) \in Keys
         /\ Read(w).attempts + 1 <= tried'[Current(w)] \/ tried'[Current(w)] = MaxAttempts
<1> DEFINE k == Current(w)
<1>1. k \in Keys /\ Read(w) \in Delivery
  BY CurrentIsKey DEF Inv, InHand
<1>2. MaxAttempts \in Nat /\ tried \in [Keys -> 0..MaxAttempts]
  BY OutboxAssumption DEF Inv, TypeInv
<1>3. tried' = [tried EXCEPT ![k] = IF tried[k] < MaxAttempts THEN tried[k] + 1 ELSE tried[k]]
  BY DEF Attempted
<1>4. Backed(Read(w).attempts, k)
  BY <1>1 DEF Read, Inv, Claims, RowClaims, SenderClaims, InHand
<1> HIDE DEF k
<1>5. Read(w).attempts \in Nat
  BY <1>1 DEF Delivery
<1>6. tried' \in [Keys -> 0..MaxAttempts] /\ \A i \in Keys : tried[i] <= tried'[i]
  BY <1>1, <1>2, <1>3
<1>7. Read(w).attempts + 1 <= tried'[k] \/ tried'[k] = MaxAttempts
  BY <1>1, <1>2, <1>3, <1>4, <1>5 DEF Backed
<1> QED BY <1>1, <1>6, <1>7 DEF k

\* Sending claims an outcome that is yet to be recorded.
LEMMA SendStep ==
  ASSUME Inv, NEW w \in Senders, NEW result \in Results, Send(w, result)
  PROVE  Inv'
<1> DEFINE k == Current(w)
           seen == Read(w)
           outcome == StatusAfter(seen, result)
           next == [sender[w] EXCEPT !.pc = "sent", !.seen = seen, !.outcome = outcome]
<1>1. /\ InHand(w) /\ sender' = [sender EXCEPT ![w] = next] /\ tried' = Attempted(w)
      /\ acked' = (IF result = "accepted" THEN acked \cup {k} ELSE acked)
      /\ UNCHANGED delivery
  BY DEF Send
<1>2. /\ tried' \in [Keys -> 0..MaxAttempts] /\ \A i \in Keys : tried[i] <= tried'[i]
      /\ seen \in Delivery /\ k \in Keys
      /\ seen.attempts + 1 <= tried'[k] \/ tried'[k] = MaxAttempts
  BY <1>1, AttemptedBacks
<1>3. /\ outcome \in Outcomes
      /\ outcome = "delivered" => result = "accepted"
      /\ outcome = "failed" => seen.attempts + 1 >= MaxAttempts
  BY DEF StatusAfter, Outcomes
<1>4. sender[w] \in Sender /\ sender[w].batch # <<>> /\ k = Head(sender[w].batch)
  BY <1>1 DEF InHand, Inv, TypeInv, HasBatch, Current
<1> HIDE DEF seen, outcome, k
<1>5. /\ next \in Sender /\ next.pc = "sent" /\ next.seen = seen /\ next.outcome = outcome
      /\ next.batch = sender[w].batch
  BY <1>2, <1>3, <1>4 DEF Sender
<1> HIDE DEF next
<1>6. sender'[w] = next /\ \A v \in Senders \ {w} : sender'[v] = sender[v]
  BY <1>1 DEF Inv, TypeInv
<1>7. TypeInv'
  BY <1>1, <1>2, <1>4, <1>5, <1>6 DEF Inv, TypeInv, HasBatch
<1>8. (\A i \in Keys : RowClaims(i)') /\ (\A v \in Senders \ {w} : SenderClaims(v)')
  <2>1. acked \subseteq acked'
    BY <1>1
  <2>2. \A i \in Keys : tried'[i] \in 0..MaxAttempts /\ tried[i] <= tried'[i]
    BY <1>2
  <2> QED BY <1>1, <1>6, <2>1, <2>2, ClaimsKept
<1>9. SenderClaims(w)'
  <2>1. Current(w)' = k
    BY <1>4, <1>5, <1>6 DEF Current
  <2>2. outcome = "delivered" => k \in acked'
    BY <1>1, <1>3
  <2>3. outcome = "failed" => tried'[k] = MaxAttempts
    <3>1. MaxAttempts \in Nat /\ tried'[k] \in 0..MaxAttempts /\ seen.attempts \in Nat
      BY <1>2, OutboxAssumption DEF Delivery
    <3> QED BY <1>2, <1>3, <3>1
  <2> QED BY <1>2, <1>5, <1>6, <2>1, <2>2, <2>3 DEF SenderClaims, Backed
<1> QED BY <1>7, <1>8, <1>9 DEF Inv, Claims

\* Giving a delivery up because its endpoint is disabled.
LEMMA AbandonStep ==
  ASSUME Inv, NEW w \in Senders, Abandon(w)
  PROVE  Inv'
<1>1. /\ InHand(w) /\ Commit(w, Read(w), "abandoned") /\ tried' = Attempted(w)
      /\ UNCHANGED acked
  BY DEF Abandon
<1>2. sender[w].pc \in {"picked", "next", "sent"}
  BY <1>1 DEF InHand
<1>3. /\ tried' \in [Keys -> 0..MaxAttempts] /\ \A k \in Keys : tried[k] <= tried'[k]
      /\ Read(w) \in Delivery
      /\ Read(w).attempts + 1 <= tried'[Current(w)] \/ tried'[Current(w)] = MaxAttempts
  BY <1>1, AttemptedBacks
<1> DEFINE seen == Read(w)
           status == "abandoned"
<1>4. /\ seen \in Delivery /\ status \in {"pending", "delivered", "failed", "abandoned"}
      /\ Commit(w, seen, status)
      /\ seen.attempts + 1 <= tried'[Current(w)] \/ tried'[Current(w)] = MaxAttempts
      /\ status # "delivered" /\ status # "failed"
  BY <1>1, <1>3
<1> HIDE DEF seen, status
<1> QED BY <1>1, <1>2, <1>3, <1>4, CommitStep

\* Recording an outcome.
LEMMA RecordStep ==
  ASSUME Inv, NEW w \in Senders, Record(w)
  PROVE  Inv'
<1> DEFINE seen == sender[w].seen
           status == sender[w].outcome
<1>1. sender[w].pc = "sent" /\ Commit(w, seen, status) /\ UNCHANGED <<tried, acked>>
  BY DEF Record, history
<1>2. seen \in Delivery /\ status \in {"pending", "delivered", "failed", "abandoned"}
  BY DEF Inv, TypeInv, Sender, Outcomes
<1>3. /\ tried' \in [Keys -> 0..MaxAttempts] /\ \A k \in Keys : tried[k] <= tried'[k]
  BY <1>1, OutboxAssumption DEF Inv, TypeInv
<1>4. /\ seen.attempts + 1 <= tried'[Current(w)] \/ tried'[Current(w)] = MaxAttempts
      /\ status = "delivered" => Current(w) \in acked
      /\ status = "failed" => tried'[Current(w)] = MaxAttempts
  BY <1>1 DEF Inv, Claims, SenderClaims, Backed
<1> HIDE DEF seen, status
<1> QED BY <1>1, <1>2, <1>3, <1>4, CommitStep

\* Producers, time, operators and crashes.
LEMMA OtherStep ==
  ASSUME Inv,
         \/ \E p \in Producers : \E event \in Events : Publish(p, event)
         \/ \E p \in Producers : \E k \in Keys : Enqueue(p, k)
         \/ \E k \in Keys : QueueTest(k) \/ RetryDue(k)
         \/ \E e \in Endpoints : Toggle(e)
         \/ Crash
         \/ UNCHANGED vars
  PROVE  Inv'
<1>1. UNCHANGED <<tried, acked>>
  BY DEF Publish, Enqueue, QueueTest, RetryDue, Toggle, Crash, history, vars
<1>2. \A k \in Keys : tried'[k] \in 0..MaxAttempts /\ tried[k] <= tried'[k]
  BY <1>1, OutboxAssumption DEF Inv, TypeInv
<1>3. delivery' \in [Keys -> Delivery] /\ \A k \in Keys : RowClaims(k)'
  <2>1. CASE UNCHANGED delivery
    BY <1>1, <1>2, <2>1, ClaimsKept DEF Inv, TypeInv
  <2>2. ASSUME NEW k \in Keys, Insert(k) PROVE delivery' \in [Keys -> Delivery] /\ \A i \in Keys : RowClaims(i)'
    BY <1>1, <2>2, InsertStep
  <2>3. UNCHANGED delivery \/ \E k \in Keys : Insert(k)
    BY DEF Publish, Enqueue, QueueTest, RetryDue, Toggle, Crash, vars
  <2> QED BY <2>1, <2>2, <2>3
<1>4. ASSUME NEW w \in Senders
      PROVE  sender'[w] = sender[w] \/ sender'[w] = Idle \/ sender'[w].pc = "queued"
  <2>1. CASE \E k \in Keys : QueueTest(k)
    <3>1. PICK k \in Keys : QueueTest(k)
      BY <2>1
    <3> DEFINE batch == <<k>>
               next == [Idle EXCEPT !.pc = "queued", !.batch = batch]
    <3>2. sender' = [sender EXCEPT !["handler"] = next]
      BY <3>1 DEF QueueTest
    <3>3. next.pc = "queued"
      BY IdleType DEF Sender
    <3> HIDE DEF next
    <3> QED BY <3>2, <3>3 DEF Inv, TypeInv
  <2>2. CASE ~\E k \in Keys : QueueTest(k)
    BY <2>2 DEF Publish, Enqueue, RetryDue, Toggle, Crash, vars
  <2> QED BY <2>1, <2>2
<1>5. sender' \in [Senders -> Sender]
  <2>1. CASE \E k \in Keys : QueueTest(k)
    <3>1. PICK k \in Keys : QueueTest(k)
      BY <2>1
    <3> DEFINE batch == <<k>>
               next == [Idle EXCEPT !.pc = "queued", !.batch = batch]
    <3>2. sender' = [sender EXCEPT !["handler"] = next]
      BY <3>1 DEF QueueTest
    <3>3. batch \in Seq(Keys)
      OBVIOUS
    <3> HIDE DEF batch
    <3>4. next \in Sender
      BY <3>3, IdleType DEF Sender
    <3> HIDE DEF next
    <3> QED BY <3>2, <3>4 DEF Inv, TypeInv
  <2>2. CASE ~\E k \in Keys : QueueTest(k)
    BY <2>2, IdleType DEF Publish, Enqueue, RetryDue, Toggle, Crash, vars, Inv, TypeInv
  <2> QED BY <2>1, <2>2
<1>6. TypeInv'
  BY <1>1, <1>3, <1>4, <1>5, IdleType DEF Inv, TypeInv, HasBatch
<1>7. \A w \in Senders : SenderClaims(w)'
  <2>1. \A w \in Senders : sender'[w] = sender[w] => SenderClaims(w)'
    BY <1>1, <1>2, ClaimsKept
  <2>2. \A w \in Senders : sender'[w].pc \in {"idle", "queued"} => SenderClaims(w)'
    BY DEF SenderClaims
  <2> QED BY <1>4, <2>1, <2>2, IdleType
<1> QED BY <1>3, <1>6, <1>7 DEF Inv, Claims

LEMMA Invariance == Spec => []Inv
<1>1. Init => Inv
  <2>1. Init => TypeInv
    BY IdleType, OutboxAssumption DEF Init, TypeInv, HasBatch, Delivery, Absent
  <2>2. Init => Claims
    BY IdleType, OutboxAssumption DEF Init, Claims, RowClaims, SenderClaims, Backed, Absent
  <2> QED BY <2>1, <2>2 DEF Inv
<1>2. Inv /\ [Next]_vars => Inv'
  <2> SUFFICES ASSUME Inv, [Next]_vars PROVE Inv'
    OBVIOUS
  <2>1. CASE SchedulerPick
    <3>1. Pick("scheduler", Keys, CycleLimit) /\ CycleLimit \in Nat /\ "scheduler" \in Senders
      BY <2>1, OutboxAssumption DEF SchedulerPick, Senders
    <3> QED BY <3>1, PickStep
  <2>2. CASE ProcessCall
    <3>1. "handler" \in Senders /\ \E limit \in Nat : Pick("handler", Keys, limit)
      BY <2>2, OutboxAssumption DEF ProcessCall, Senders
    <3> QED BY <3>1, PickStep
  <2>3. CASE PickForTest
    <3>1. /\ "handler" \in Senders /\ 1 \in Nat
          /\ Pick("handler", {i \in Keys : i[1] = Head(sender["handler"].batch)[1]}, 1)
      BY <2>3 DEF PickForTest, Senders
    <3> QED BY <3>1, PickStep
  <2>4. CASE \E w \in Senders : Deliver(w)
    BY <2>4, AbandonStep, SendStep, RecordStep DEF Deliver
  <2>5. CASE \/ \E p \in Producers : (\E event \in Events : Publish(p, event))
                                     \/ (\E k \in Keys : Enqueue(p, k))
             \/ \E k \in Keys : QueueTest(k) \/ RetryDue(k)
             \/ \E e \in Endpoints : Toggle(e)
             \/ Crash
             \/ UNCHANGED vars
    BY <2>5, OtherStep
  <2> QED BY <2>1, <2>2, <2>3, <2>4, <2>5 DEF Next
<1> QED BY <1>1, <1>2, PTL DEF Spec

-----------------------------------------------------------------------------
(***************************************************************************)
(* Sequences without duplicates                                            *)
(***************************************************************************)
\* Taking an element out of a sequence that has it once at most.
LEMMA RemoveOnce ==
  ASSUME NEW S, NEW s \in Seq(S), NEW e, IsInjective(s)
  PROVE  /\ RemoveFirst(s, e) \in Seq(S) /\ IsInjective(RemoveFirst(s, e))
         /\ \A i \in DOMAIN RemoveFirst(s, e) :
              RemoveFirst(s, e)[i] # e /\ \E j \in DOMAIN s : RemoveFirst(s, e)[i] = s[j]
<1>1. Len(s) \in Nat /\ DOMAIN s = 1..Len(s) /\ \A i \in 1..Len(s) : s[i] \in S
  BY LenProperties, ElementOfSeq
<1>2. CASE ~\E i \in 1..Len(s) : s[i] = e
  BY <1>1, <1>2 DEF RemoveFirst
<1>3. CASE \E i \in 1..Len(s) : s[i] = e
  <2>1. PICK p \in 1..Len(s) : s[p] = e
    BY <1>3
  <2>2. SelectInSeq(s, LAMBDA v : v = e) = p
    <3>1. {i \in 1..Len(s) : s[i] = e} = {p}
      BY <1>1, <2>1 DEF IsInjective
    <3>2. Min({p}) = p
      BY <2>1 DEF Min
    <3> QED BY <3>1, <3>2 DEF SelectInSeq
  <2> DEFINE left == SubSeq(s, 1, p - 1)
             right == SubSeq(s, p + 1, Len(s))
             rest == left \o right
  <2>3. RemoveFirst(s, e) = rest
    BY <1>3, <2>2 DEF RemoveFirst, RemoveAt
  <2>4. /\ left \in Seq(S) /\ Len(left) = p - 1
        /\ \A i \in 1..p - 1 : left[i] = s[i]
    BY <1>1, <2>1, SubSeqProperties
  <2>5. /\ right \in Seq(S) /\ Len(right) = Len(s) - p
        /\ \A i \in 1..Len(s) - p : right[i] = s[p + i]
    <3>1. p + 1 \in Int /\ Len(s) \in Int /\ \A i \in p + 1..Len(s) : s[i] \in S
      BY <1>1, <2>1
    <3>2. /\ right \in Seq(S) /\ Len(right) = IF p + 1 <= Len(s) THEN Len(s) - (p + 1) + 1 ELSE 0
          /\ \A i \in 1..Len(s) - (p + 1) + 1 : right[i] = s[p + 1 + i - 1]
      BY <3>1, SubSeqProperties
    <3> HIDE DEF right
    <3>3. Len(right) = Len(s) - p
      <4> PICK l \in Nat : l = Len(s)
        BY <1>1
      <4>1. p \in 1..l /\ Len(right) = IF p + 1 <= l THEN l - (p + 1) + 1 ELSE 0
        BY <2>1, <3>2
      <4> QED BY <4>1
    <3>4. ASSUME NEW i \in 1..Len(s) - p PROVE right[i] = s[p + i]
      <4>1. i \in 1..Len(s) - (p + 1) + 1 /\ p + 1 + i - 1 = p + i
        BY <1>1, <2>1
      <4> QED BY <3>2, <4>1
    <3> QED BY <3>2, <3>3, <3>4
  <2> HIDE DEF left, right
  <2>6. /\ rest \in Seq(S) /\ Len(rest) = Len(s) - 1
        /\ \A i \in 1..Len(s) - 1 : rest[i] = IF i <= p - 1 THEN left[i] ELSE right[i - (p - 1)]
    <3>1. /\ rest \in Seq(S) /\ Len(rest) = Len(left) + Len(right)
          /\ \A i \in 1..Len(left) + Len(right) :
               rest[i] = IF i <= Len(left) THEN left[i] ELSE right[i - Len(left)]
      BY <2>4, <2>5, ConcatProperties
    <3> HIDE DEF rest
    <3>2. Len(left) + Len(right) = Len(s) - 1
      BY <1>1, <2>1, <2>4, <2>5
    <3> QED BY <2>4, <3>1, <3>2
  <2> HIDE DEF rest
  <2>7. \A i \in 1..Len(s) - 1 : rest[i] = IF i < p THEN s[i] ELSE s[i + 1]
    BY <1>1, <2>1, <2>4, <2>5, <2>6
  <2>8. DOMAIN rest = 1..Len(s) - 1
    BY <2>6, LenProperties
  <2>9. IsInjective(rest)
    BY <1>1, <2>1, <2>7, <2>8 DEF IsInjective
  <2>10. \A i \in DOMAIN rest : rest[i] # e /\ \E j \in DOMAIN s : rest[i] = s[j]
    BY <1>1, <2>1, <2>7, <2>8 DEF IsInjective
  <2> QED BY <2>3, <2>6, <2>9, <2>10
<1> QED BY <1>2, <1>3

\* And adding one that it does not have.
LEMMA AppendOnce ==
  ASSUME NEW S, NEW s \in Seq(S), NEW e \in S, IsInjective(s), \A i \in DOMAIN s : s[i] # e
  PROVE  /\ Append(s, e) \in Seq(S) /\ IsInjective(Append(s, e))
         /\ \A i \in DOMAIN Append(s, e) :
              Append(s, e)[i] = e \/ \E j \in DOMAIN s : Append(s, e)[i] = s[j]
<1> DEFINE t == Append(s, e)
<1>1. Len(s) \in Nat /\ DOMAIN s = 1..Len(s)
  BY LenProperties
<1>2. /\ t \in Seq(S) /\ Len(t) = Len(s) + 1 /\ t[Len(s) + 1] = e
      /\ \A i \in 1..Len(s) : t[i] = s[i]
  BY AppendProperties
<1>3. DOMAIN t = 1..Len(s) + 1
  BY <1>2, LenProperties
<1> HIDE DEF t
<1>4. IsInjective(t)
  BY <1>1, <1>2, <1>3 DEF IsInjective
<1>5. \A i \in DOMAIN t : t[i] = e \/ \E j \in DOMAIN s : t[i] = s[j]
  BY <1>1, <1>2, <1>3
<1> QED BY <1>2, <1>4, <1>5 DEF t

-----------------------------------------------------------------------------
(***************************************************************************)
(* What is due                                                             *)
(***************************************************************************)
DueInv ==
  /\ due \in Seq(Keys) /\ IsInjective(due)
  /\ \A i \in DOMAIN due : delivery[due[i]].status = "pending"

RestInv ==
  /\ enabled \in [Endpoints -> BOOLEAN]
  /\ producer \in [Producers -> SUBSET Keys]
  /\ acked \subseteq Keys /\ excused \subseteq Keys
  /\ calls \in 0..MaxCalls /\ toggles \in 0..MaxToggles /\ crashes \in 0..MaxCrashes

\* A row that becomes due was not due (enqueue_webhook_event, queue_test_webhook).
LEMMA InsertDue ==
  ASSUME Inv, DueInv, NEW k \in Keys, Insert(k), delivery[k].status = "none"
  PROVE  DueInv'
<1>1. NewDelivery.status = "pending"
  BY DEF NewDelivery
<1>2. delivery' = [delivery EXCEPT ![k] = NewDelivery] /\ due' = Append(due, k)
      /\ delivery \in [Keys -> Delivery]
  BY DEF Insert, Inv, TypeInv
<1>3. \A i \in DOMAIN due : due[i] # k /\ due[i] \in Keys
  BY ElementOfSeq, LenProperties DEF DueInv
<1>4. /\ due' \in Seq(Keys) /\ IsInjective(due')
      /\ \A i \in DOMAIN due' : due'[i] = k \/ \E j \in DOMAIN due : due'[i] = due[j]
  BY <1>2, <1>3, AppendOnce DEF DueInv
<1>5. ASSUME NEW i \in DOMAIN due' PROVE delivery'[due'[i]].status = "pending"
  <2>1. CASE due'[i] = k
    BY <1>1, <1>2, <2>1
  <2>2. ASSUME NEW j \in DOMAIN due, due'[i] = due[j] PROVE delivery'[due'[i]].status = "pending"
    BY <1>2, <1>3, <2>2 DEF DueInv
  <2> QED BY <1>4, <2>1, <2>2
<1> QED BY <1>4, <1>5 DEF DueInv

\* Time (deliver_due_webhooks).
LEMMA RetryDueDue ==
  ASSUME Inv, DueInv, NEW k \in Keys, RetryDue(k)
  PROVE  DueInv'
<1>1. delivery[k].status = "pending" /\ due' = Append(due, k) /\ delivery' = delivery
      /\ \A i \in DOMAIN due : due[i] # k
  BY DEF RetryDue
<1>2. /\ due' \in Seq(Keys) /\ IsInjective(due')
      /\ \A i \in DOMAIN due' : due'[i] = k \/ \E j \in DOMAIN due : due'[i] = due[j]
  BY <1>1, AppendOnce DEF DueInv
<1>3. \A i \in DOMAIN due' : delivery'[due'[i]].status = "pending"
  BY <1>1, <1>2 DEF DueInv
<1> QED BY <1>2, <1>3 DEF DueInv

\* A commit dates the next attempt (_mark_delivery_failure and its caller).
LEMMA CommitDue ==
  ASSUME Inv, DueInv, NEW w \in Senders, sender[w].pc \in {"picked", "next", "sent"},
         NEW seen, NEW status, Commit(w, seen, status)
  PROVE  DueInv'
<1>1. PICK k \in Keys : k = Current(w)
  BY CurrentIsKey DEF Inv
<1> DEFINE row == Written(delivery[k], seen, status)
           others == RemoveFirst(due, k)
<1>2. /\ delivery' = [delivery EXCEPT ![k] = row] /\ delivery \in [Keys -> Delivery]
      /\ due' = NextAttempt(k, row, status = "pending")
  BY <1>1 DEF Commit, Inv, TypeInv
<1>3. /\ others \in Seq(Keys) /\ IsInjective(others)
      /\ \A i \in DOMAIN others : others[i] # k /\ \E j \in DOMAIN due : others[i] = due[j]
  BY RemoveOnce DEF DueInv
<1>4. due' = others \/ (row.status = "pending" /\ due' = Append(others, k))
  BY <1>2, Zenon DEF NextAttempt
<1>5. \A j \in DOMAIN due : due[j] \in Keys
  BY ElementOfSeq, LenProperties DEF DueInv
<1> HIDE DEF row, others
<1>6. \A i \in DOMAIN others : delivery'[others[i]].status = "pending"
  BY <1>2, <1>3, <1>5 DEF DueInv
<1>7. CASE due' = others
  BY <1>3, <1>6, <1>7 DEF DueInv
<1>8. CASE row.status = "pending" /\ due' = Append(others, k)
  <2>1. /\ due' \in Seq(Keys) /\ IsInjective(due')
        /\ \A i \in DOMAIN due' : due'[i] = k \/ \E j \in DOMAIN others : due'[i] = others[j]
    BY <1>3, <1>8, AppendOnce
  <2>2. delivery'[k].status = "pending"
    BY <1>2, <1>8
  <2>3. \A i \in DOMAIN due' : delivery'[due'[i]].status = "pending"
    BY <1>6, <2>1, <2>2
  <2> QED BY <2>1, <2>3 DEF DueInv
<1> QED BY <1>4, <1>7, <1>8

LEMMA DueStep ==
  ASSUME Inv, DueInv, [Next]_vars
  PROVE  DueInv'
<1>1. CASE UNCHANGED <<delivery, due>>
  BY <1>1 DEF DueInv
<1>2. ASSUME NEW p \in Producers, NEW k \in Keys, Enqueue(p, k) PROVE DueInv'
  BY <1>1, <1>2, InsertDue DEF Enqueue
<1>3. ASSUME NEW k \in Keys, QueueTest(k) PROVE DueInv'
  BY <1>3, InsertDue DEF QueueTest
<1>4. ASSUME NEW w \in Senders, Abandon(w) PROVE DueInv'
  BY <1>4, CommitDue DEF Abandon, InHand
<1>5. ASSUME NEW w \in Senders, Record(w) PROVE DueInv'
  BY <1>5, CommitDue DEF Record
<1>6. CASE \/ \E p \in Producers, event \in Events : Publish(p, event)
           \/ SchedulerPick \/ ProcessCall \/ PickForTest
           \/ \E w \in Senders, result \in Results : Send(w, result)
           \/ \E e \in Endpoints : Toggle(e)
           \/ Crash
           \/ UNCHANGED vars
  <2>1. UNCHANGED <<delivery, due>>
    BY <1>6 DEF Publish, SchedulerPick, ProcessCall, PickForTest, Pick, Send, Toggle, Crash, vars
  <2> QED BY <1>1, <2>1
<1> QED BY <1>2, <1>3, <1>4, <1>5, <1>6, RetryDueDue DEF Next, Deliver

\* What is left of TypeOK.
LEMMA RestStep ==
  ASSUME Inv, RestInv, [Next]_vars
  PROVE  RestInv'
<1> USE OutboxAssumption DEF RestInv, history, bounds
<1>1. ASSUME NEW p \in Producers, NEW event \in Events, Publish(p, event) PROVE RestInv'
  BY <1>1 DEF Publish
<1>2. ASSUME NEW p \in Producers, NEW k \in Keys, Enqueue(p, k) PROVE RestInv'
  BY <1>2 DEF Enqueue
<1>3. CASE SchedulerPick \/ ProcessCall \/ PickForTest
  <2>1. UNCHANGED <<enabled, producer, acked, toggles, crashes>> /\ excused' \subseteq Keys
    BY <1>3 DEF SchedulerPick, ProcessCall, PickForTest, Pick
  <2>2. calls' = calls \/ (calls < MaxCalls /\ calls' = calls + 1)
    BY <1>3 DEF SchedulerPick, ProcessCall, PickForTest
  <2> QED BY <2>1, <2>2
<1>4. ASSUME NEW k \in Keys, QueueTest(k) \/ RetryDue(k) PROVE RestInv'
  BY <1>4 DEF QueueTest, RetryDue
<1>5. ASSUME NEW w \in Senders, Abandon(w) \/ Record(w) PROVE RestInv'
  BY <1>5 DEF Abandon, Record
<1>6. ASSUME NEW w \in Senders, NEW result \in Results, Send(w, result) PROVE RestInv'
  <2>1. Current(w) \in Keys
    BY <1>6, CurrentIsKey DEF Send, InHand, Inv
  <2> QED BY <1>6, <2>1 DEF Send
<1>7. ASSUME NEW e \in Endpoints, Toggle(e) PROVE RestInv'
  BY <1>7 DEF Toggle
<1>8. CASE Crash
  BY <1>8 DEF Crash
<1>9. CASE UNCHANGED vars
  BY <1>9 DEF vars
<1> QED BY <1>1, <1>2, <1>3, <1>4, <1>5, <1>6, <1>7, <1>8, <1>9 DEF Next, Deliver

-----------------------------------------------------------------------------
(***************************************************************************)
(* Who has an accepted delivery in hand                                    *)
(***************************************************************************)
\* What holds of a row that is not excused: one sender at most has it in hand, it
\* is pending for that sender, and once it was accepted it stays pending only as
\* long as that sender is about to record the answer.
Once(k) ==
  /\ \A v, w \in Senders : HasInHand(v, k) /\ HasInHand(w, k) => v = w
  /\ \A w \in Senders : HasInHand(w, k) => delivery[k].status = "pending"
  /\ \A w \in Senders : sender[w].pc \in {"picked", "sent"} /\ Current(w) = k =>
                          sender[w].seen.status = "pending"
  /\ k \in acked /\ delivery[k].status \in {"none", "pending"} =>
       \E w \in Senders : /\ sender[w].pc = "sent" /\ Current(w) = k
                          /\ sender[w].outcome = "delivered"

\* No batch has a row twice.
BatchesInv ==
  \A w \in Senders : sender[w].pc \in {"picked", "next", "sent"} => IsInjective(sender[w].batch)

OnceInv == BatchesInv /\ \A k \in Keys \ excused : Once(k)

\* The row a sender works at is in its hand.
LEMMA CurrentInHand ==
  ASSUME TypeInv, NEW w \in Senders, sender[w].pc \in {"picked", "next", "sent"}
  PROVE  HasInHand(w, Current(w))
<1>1. sender[w].batch \in Seq(Keys) /\ sender[w].batch # <<>>
  BY DEF TypeInv, Sender, HasBatch
<1> QED BY <1>1 DEF HasInHand, Current

\* What a sender has in hand depends on its own record only.
LEMMA SameSender ==
  ASSUME NEW w, sender'[w] = sender[w]
  PROVE  \A k : (HasInHand(w, k)' <=> HasInHand(w, k)) /\ Current(w)' = Current(w)
BY DEF HasInHand, Current

\* A sender that goes on has the rest of its batch in hand, the row it has
\* finished no more (deliver_due_webhooks).
LEMMA RestInHand ==
  ASSUME TypeInv, BatchesInv, NEW w \in Senders, sender[w].pc \in {"picked", "next", "sent"},
         sender'[w] = Rest(w)
  PROVE  /\ \A k : HasInHand(w, k)' => HasInHand(w, k) /\ k # Current(w)
         /\ sender'[w].pc \in {"idle", "next"}
         /\ sender'[w].pc = "next" => IsInjective(sender'[w].batch)
<1> DEFINE batch == sender[w].batch
           tail == Tail(batch)
           next == [Idle EXCEPT !.pc = "next", !.batch = tail]
<1>1. batch \in Seq(Keys) /\ batch # <<>> /\ IsInjective(batch)
  BY DEF TypeInv, Sender, HasBatch, BatchesInv
<1>2. CASE Len(batch) = 1
  BY <1>2, IdleType DEF Rest, HasInHand
<1>3. CASE Len(batch) # 1
  <2>1. /\ tail \in Seq(Keys) /\ Len(tail) = Len(batch) - 1
        /\ \A i \in 1..Len(tail) : tail[i] = batch[i + 1]
    BY <1>1, HeadTailProperties
  <2>2. /\ Len(batch) \in Nat /\ DOMAIN batch = 1..Len(batch) /\ DOMAIN tail = 1..Len(tail)
        /\ Len(tail) \in Nat /\ Current(w) = batch[1]
    BY <1>1, <2>1, LenProperties DEF Current
  <2> HIDE DEF tail
  <2>3. next \in Sender /\ next.pc = "next" /\ next.batch = tail
    BY <2>1, IdleType DEF Sender
  <2>4. sender'[w] = next
    BY <1>3 DEF Rest, tail
  <2> HIDE DEF next
  <2>5. IsInjective(tail)
    <3> SUFFICES ASSUME NEW i \in DOMAIN tail, NEW j \in DOMAIN tail, tail[i] = tail[j]
                 PROVE  i = j
      BY DEF IsInjective
    <3>1. i \in 1..Len(tail) /\ j \in 1..Len(tail)
      BY <2>2
    <3>2. i + 1 \in DOMAIN batch /\ j + 1 \in DOMAIN batch
      BY <2>1, <2>2, <3>1
    <3>3. batch[i + 1] = batch[j + 1]
      BY <2>1, <3>1
    <3>4. i + 1 = j + 1
      BY <1>1, <3>2, <3>3, Zenon DEF IsInjective
    <3> QED BY <2>2, <3>1, <3>4
  <2>6. ASSUME NEW i \in DOMAIN tail
        PROVE  tail[i] # Current(w) /\ \E j \in DOMAIN batch : batch[j] = tail[i]
    <3>1. i + 1 \in DOMAIN batch /\ 1 \in DOMAIN batch /\ i + 1 # 1 /\ tail[i] = batch[i + 1]
      BY <2>1, <2>2, <2>6
    <3> QED BY <1>1, <2>2, <3>1 DEF IsInjective
  <2> QED BY <2>3, <2>4, <2>5, <2>6 DEF HasInHand
<1> QED BY <1>2, <1>3

\* A batch is of rows that are due, each once (deliver_due_webhooks).
LEMMA BatchFacts ==
  ASSUME DueInv, NEW n \in Nat, NEW batch \in [1..n -> Keys], NEW scope, NEW limit,
         IsBatch(batch, scope, limit)
  PROVE  /\ IsInjective(batch)
         /\ \A i \in 1..n : delivery[batch[i]].status = "pending"
<1>1. PICK at \in [1..n -> {i \in DOMAIN due : due[i] \in scope}] :
        /\ \A i \in 1..n : batch[i] = due[at[i]]
        /\ \A i, j \in 1..n : i < j => at[i] < at[j]
  BY DEF IsBatch
<1>2. \A i \in 1..n : at[i] \in DOMAIN due /\ at[i] \in Nat
  BY <1>1, LenProperties DEF DueInv
<1>3. \A i, j \in 1..n : batch[i] = batch[j] => i = j
  <2> SUFFICES ASSUME NEW i \in 1..n, NEW j \in 1..n, batch[i] = batch[j] PROVE i = j
    OBVIOUS
  <2>1. at[i] = at[j]
    <3>1. due[at[i]] = due[at[j]] /\ at[i] \in DOMAIN due /\ at[j] \in DOMAIN due
      BY <1>1, <1>2
    <3> QED BY <3>1 DEF DueInv, IsInjective
  <2>2. ~(i < j) /\ ~(j < i)
    BY <1>1, <1>2, <2>1
  <2> QED BY <2>2
<1> QED BY <1>1, <1>2, <1>3 DEF DueInv, IsInjective

\* The sender has the batch it has read in hand, and nobody else changes.
LEMMA PickSender ==
  ASSUME TypeInv, NEW w \in Senders, NEW scope, NEW limit \in Nat, Pick(w, scope, limit)
  PROVE  /\ sender'[w].pc \in {"idle", "picked"}
         /\ \A v \in Senders \ {w} : sender'[v] = sender[v]
         /\ \E n \in Nat : \E batch \in [1..n -> Keys] :
              /\ IsBatch(batch, scope, limit)
              /\ sender'[w].pc = "picked" =>
                   /\ n # 0 /\ sender'[w].batch = batch /\ Head(sender'[w].batch) = batch[1]
                   /\ sender'[w].seen = delivery[batch[1]]
              /\ excused' = excused \cup {k \in Keys :
                   /\ \E i \in 1..n : batch[i] = k
                   /\ \E v \in Senders \ {w} : HasInHand(v, k)}
<1>1. PICK n \in 0..limit : \E batch \in [1..n -> Keys] :
        /\ IsBatch(batch, scope, limit)
        /\ sender' = [sender EXCEPT ![w] =
             IF n = 0 THEN Idle
             ELSE [Idle EXCEPT !.pc = "picked", !.batch = batch, !.seen = delivery[batch[1]]]]
        /\ excused' = excused \cup {k \in Keys :
             /\ \E i \in 1..n : batch[i] = k
             /\ \E v \in Senders \ {w} : HasInHand(v, k)}
  BY DEF Pick
<1>2. PICK batch \in [1..n -> Keys] :
        /\ IsBatch(batch, scope, limit)
        /\ sender' = [sender EXCEPT ![w] =
             IF n = 0 THEN Idle
             ELSE [Idle EXCEPT !.pc = "picked", !.batch = batch, !.seen = delivery[batch[1]]]]
        /\ excused' = excused \cup {k \in Keys :
             /\ \E i \in 1..n : batch[i] = k
             /\ \E v \in Senders \ {w} : HasInHand(v, k)}
  BY <1>1
<1>3. \A v \in Senders \ {w} : sender'[v] = sender[v]
  BY <1>2 DEF TypeInv
<1>4. /\ sender'[w].pc \in {"idle", "picked"}
      /\ sender'[w].pc = "picked" =>
           /\ n # 0 /\ sender'[w].batch = batch /\ Head(sender'[w].batch) = batch[1]
           /\ sender'[w].seen = delivery[batch[1]]
  <2>1. CASE n = 0
    BY <1>2, <2>1, IdleType DEF TypeInv
  <2>2. CASE n # 0
    <3> DEFINE next == [Idle EXCEPT !.pc = "picked", !.batch = batch,
                                    !.seen = delivery[batch[1]]]
    <3>1. n \in Nat \ {0} /\ batch[1] \in Keys
      BY <2>2
    <3>2. /\ next \in Sender /\ next.pc = "picked" /\ next.batch = batch
          /\ Head(next.batch) = batch[1] /\ next.seen = delivery[batch[1]]
      BY <3>1, PickedSender
    <3>3. sender'[w] = next
      BY <1>2, <2>2 DEF TypeInv
    <3> HIDE DEF next
    <3> QED BY <2>2, <3>2, <3>3
  <2> QED BY <2>1, <2>2
<1> QED BY <1>2, <1>3, <1>4

\* Taking a batch: a row the other sender has in hand is excused.
LEMMA PickOnce ==
  ASSUME Inv, DueInv, OnceInv, NEW w \in Senders, sender[w].pc \in {"idle", "queued"},
         NEW scope, NEW limit \in Nat, Pick(w, scope, limit)
  PROVE  OnceInv'
<1>1. PICK n \in Nat : \E batch \in [1..n -> Keys] :
        /\ IsBatch(batch, scope, limit)
        /\ sender'[w].pc = "picked" =>
             /\ n # 0 /\ sender'[w].batch = batch /\ Head(sender'[w].batch) = batch[1]
             /\ sender'[w].seen = delivery[batch[1]]
        /\ excused' = excused \cup {k \in Keys :
             /\ \E i \in 1..n : batch[i] = k
             /\ \E v \in Senders \ {w} : HasInHand(v, k)}
  BY PickSender DEF Inv
<1>2. PICK batch \in [1..n -> Keys] :
        /\ IsBatch(batch, scope, limit)
        /\ sender'[w].pc = "picked" =>
             /\ n # 0 /\ sender'[w].batch = batch /\ Head(sender'[w].batch) = batch[1]
             /\ sender'[w].seen = delivery[batch[1]]
        /\ excused' = excused \cup {k \in Keys :
             /\ \E i \in 1..n : batch[i] = k
             /\ \E v \in Senders \ {w} : HasInHand(v, k)}
  BY <1>1
<1>3. UNCHANGED <<delivery, acked>>
  BY DEF Pick
<1>4. IsInjective(batch) /\ \A i \in 1..n : delivery[batch[i]].status = "pending"
  BY <1>2, BatchFacts
<1>5. \A v \in Senders \ {w} : sender'[v] = sender[v]
  BY PickSender DEF Inv
<1>6. /\ sender'[w].pc \in {"idle", "picked"}
      /\ sender'[w].pc = "picked" =>
           /\ n # 0 /\ sender'[w].batch = batch /\ Head(sender'[w].batch) = batch[1]
           /\ sender'[w].seen = delivery[batch[1]]
  BY <1>2, PickSender DEF Inv
<1>7. BatchesInv'
  BY <1>4, <1>5, <1>6 DEF OnceInv, BatchesInv
<1>8. \A k : HasInHand(w, k)' => sender'[w].pc = "picked" /\ \E i \in 1..n : batch[i] = k
  BY <1>6 DEF HasInHand
<1>9. ASSUME NEW k \in Keys \ excused' PROVE Once(k)'
  <2>1. Once(k)
    BY <1>2, <1>9 DEF OnceInv
  <2>2. \A v \in Senders \ {w} : /\ HasInHand(v, k)' <=> HasInHand(v, k)
                                 /\ Current(v)' = Current(v)
    BY <1>5, SameSender
  <2>3. ASSUME NEW v \in Senders \ {w}, HasInHand(v, k)', HasInHand(w, k)' PROVE FALSE
    BY <1>2, <1>8, <1>9, <2>2, <2>3
  <2>4. \A u, v \in Senders : HasInHand(u, k)' /\ HasInHand(v, k)' => u = v
    BY <2>1, <2>2, <2>3 DEF Once
  <2>5. \A v \in Senders : HasInHand(v, k)' => delivery'[k].status = "pending"
    BY <1>3, <1>4, <1>8, <2>1, <2>2 DEF Once
  <2>6. \A v \in Senders : sender'[v].pc \in {"picked", "sent"} /\ Current(v)' = k =>
                             sender'[v].seen.status = "pending"
    <3>1. sender'[w].pc = "picked" => sender'[w].seen.status = "pending"
      BY <1>4, <1>6
    <3> QED BY <1>5, <1>6, <2>1, <2>2, <3>1 DEF Once
  <2>7. k \in acked' /\ delivery'[k].status \in {"none", "pending"} =>
          \E v \in Senders : /\ sender'[v].pc = "sent" /\ Current(v)' = k
                             /\ sender'[v].outcome = "delivered"
    BY <1>3, <1>5, <2>1, <2>2 DEF Once
  <2> QED BY <2>4, <2>5, <2>6, <2>7 DEF Once
<1> QED BY <1>7, <1>9 DEF OnceInv

\* Committing the status of a row: it is final if the row was accepted.
LEMMA CommitOnce ==
  ASSUME Inv, OnceInv, NEW w \in Senders, sender[w].pc \in {"picked", "next", "sent"},
         NEW seen, NEW status, Commit(w, seen, status), UNCHANGED <<acked, excused>>,
         Current(w) \notin excused => seen.status = "pending",
         Current(w) \in acked \ excused => status = "delivered"
  PROVE  OnceInv'
<1>1. PICK k \in Keys : k = Current(w)
  BY CurrentIsKey DEF Inv
<1>2. /\ delivery' = [delivery EXCEPT ![k] = Written(delivery[k], seen, status)]
      /\ sender' = [sender EXCEPT ![w] = Rest(w)]
      /\ delivery \in [Keys -> Delivery] /\ sender \in [Senders -> Sender]
  BY <1>1 DEF Commit, Inv, TypeInv
<1>3. /\ sender'[w] = Rest(w) /\ \A v \in Senders \ {w} : sender'[v] = sender[v]
      /\ \A i \in Keys \ {k} : delivery'[i] = delivery[i]
  BY <1>2
<1>4. /\ \A i : HasInHand(w, i)' => HasInHand(w, i) /\ i # k
      /\ sender'[w].pc \in {"idle", "next"}
      /\ sender'[w].pc = "next" => IsInjective(sender'[w].batch)
  BY <1>1, <1>3, RestInHand DEF Inv, OnceInv
<1>5. \A v \in Senders \ {w} : \A i : /\ HasInHand(v, i)' <=> HasInHand(v, i)
                                      /\ Current(v)' = Current(v)
  BY <1>3, SameSender
<1>6. BatchesInv'
  BY <1>3, <1>4 DEF OnceInv, BatchesInv
<1>7. ASSUME NEW i \in Keys \ excused, i # k PROVE Once(i)'
  <2>1. Once(i) /\ delivery'[i] = delivery[i] /\ acked' = acked
    BY <1>3, <1>7 DEF OnceInv
  <2>2. \A v \in Senders : sender[v].pc = "sent" /\ Current(v) = i => v # w
    BY <1>1, <1>7
  <2>3. \A u, v \in Senders : HasInHand(u, i)' /\ HasInHand(v, i)' => u = v
    BY <1>4, <1>5, <2>1 DEF Once
  <2>4. \A v \in Senders : HasInHand(v, i)' => delivery'[i].status = "pending"
    BY <1>4, <1>5, <2>1 DEF Once
  <2>5. \A v \in Senders : sender'[v].pc \in {"picked", "sent"} /\ Current(v)' = i =>
                             sender'[v].seen.status = "pending"
    BY <1>3, <1>4, <1>5, <2>1 DEF Once
  <2>6. i \in acked' /\ delivery'[i].status \in {"none", "pending"} =>
          \E v \in Senders : /\ sender'[v].pc = "sent" /\ Current(v)' = i
                             /\ sender'[v].outcome = "delivered"
    BY <1>3, <1>5, <2>1, <2>2 DEF Once
  <2> QED BY <2>3, <2>4, <2>5, <2>6 DEF Once
<1>8. ASSUME k \notin excused PROVE Once(k)'
  <2>1. Once(k) /\ HasInHand(w, k)
    BY <1>1, <1>8, CurrentInHand DEF OnceInv, Inv
  <2>2. \A v \in Senders : ~HasInHand(v, k)'
    BY <1>4, <1>5, <2>1 DEF Once
  <2>3. \A v \in Senders : ~(sender'[v].pc \in {"picked", "sent"} /\ Current(v)' = k)
    <3>1. \A v \in Senders \ {w} : sender[v].pc \in {"picked", "sent"} => Current(v) # k
      BY <2>1, CurrentInHand DEF Once, Inv
    <3> QED BY <1>3, <1>4, <1>5, <3>1
  <2>4. k \in acked' => delivery'[k].status = "delivered"
    BY <1>1, <1>2, <1>8 DEF Written
  <2> QED BY <2>2, <2>3, <2>4 DEF Once
<1> QED BY <1>6, <1>7, <1>8 DEF OnceInv

\* Sending a row: only its sender may send a row that was accepted already.
LEMMA SendOnce ==
  ASSUME Inv, OnceInv, NEW w \in Senders, NEW result \in Results, Send(w, result)
  PROVE  OnceInv' /\ (Current(w) \in acked => Current(w) \in excused)
<1> DEFINE k == Current(w)
           seen == Read(w)
           outcome == StatusAfter(seen, result)
           next == [sender[w] EXCEPT !.pc = "sent", !.seen = seen, !.outcome = outcome]
<1>1. /\ InHand(w) /\ sender' = [sender EXCEPT ![w] = next]
      /\ acked' = (IF result = "accepted" THEN acked \cup {k} ELSE acked)
      /\ UNCHANGED <<delivery, excused>>
  BY DEF Send
<1>2. k \in Keys /\ HasInHand(w, k)
  BY <1>1, CurrentIsKey, CurrentInHand DEF InHand, Inv
<1>3. sender[w] \in Sender /\ sender[w].pc \in {"picked", "next"} /\ k = Head(sender[w].batch)
  BY <1>1 DEF InHand, Inv, TypeInv, Current
<1>4. result = "accepted" => outcome = "delivered"
  BY DEF StatusAfter
<1>5. k \notin excused => seen.status = "pending"
  BY <1>2, <1>3 DEF OnceInv, Once, Read
<1>6. k \in acked => k \in excused
  <2> SUFFICES ASSUME k \in acked, k \notin excused PROVE FALSE
    OBVIOUS
  <2>1. Once(k)
    BY <1>2 DEF OnceInv
  <2>2. PICK v \in Senders : sender[v].pc = "sent" /\ Current(v) = k
    BY <1>2, <2>1 DEF Once
  <2>3. HasInHand(v, k)
    BY <2>2, CurrentInHand DEF Inv
  <2> QED BY <1>2, <1>3, <2>1, <2>2, <2>3 DEF Once
<1> HIDE DEF seen, outcome, k
<1>7. /\ next.pc = "sent" /\ next.seen = seen /\ next.outcome = outcome
      /\ next.batch = sender[w].batch
  BY <1>3 DEF Sender
<1> HIDE DEF next
<1>8. sender'[w] = next /\ \A v \in Senders \ {w} : sender'[v] = sender[v]
  BY <1>1 DEF Inv, TypeInv
<1>9. /\ Current(w)' = k /\ \A i : HasInHand(w, i)' <=> HasInHand(w, i)
      /\ \A v \in Senders \ {w} : \A i : /\ HasInHand(v, i)' <=> HasInHand(v, i)
                                         /\ Current(v)' = Current(v)
  BY <1>3, <1>7, <1>8, SameSender DEF HasInHand, Current
<1>10. BatchesInv'
  BY <1>3, <1>7, <1>8 DEF OnceInv, BatchesInv
<1>11. ASSUME NEW i \in Keys \ excused' PROVE Once(i)'
  <2>1. Once(i) /\ delivery' = delivery
    BY <1>1, <1>11 DEF OnceInv
  <2>2. \A u, v \in Senders : HasInHand(u, i)' /\ HasInHand(v, i)' => u = v
    BY <1>9, <2>1 DEF Once
  <2>3. \A v \in Senders : HasInHand(v, i)' => delivery'[i].status = "pending"
    BY <1>9, <2>1 DEF Once
  <2>4. \A v \in Senders : sender'[v].pc \in {"picked", "sent"} /\ Current(v)' = i =>
                             sender'[v].seen.status = "pending"
    <3>1. i = k => seen.status = "pending"
      BY <1>1, <1>5, <1>11
    <3> QED BY <1>7, <1>8, <1>9, <2>1, <3>1 DEF Once
  <2>5. i \in acked' /\ delivery'[i].status \in {"none", "pending"} =>
          \E v \in Senders : /\ sender'[v].pc = "sent" /\ Current(v)' = i
                             /\ sender'[v].outcome = "delivered"
    <3>1. CASE i \in acked
      <4>1. delivery[i].status \in {"none", "pending"} =>
              \E v \in Senders \ {w} : /\ sender[v].pc = "sent" /\ Current(v) = i
                                       /\ sender[v].outcome = "delivered"
        BY <1>3, <2>1, <3>1 DEF Once
      <4> QED BY <1>8, <1>9, <2>1, <4>1
    <3>2. CASE i \notin acked
      <4>1. i \in acked' => i = k /\ result = "accepted"
        BY <1>1, <3>2
      <4> QED BY <1>4, <1>7, <1>8, <1>9, <4>1
    <3> QED BY <3>1, <3>2
  <2> QED BY <2>2, <2>3, <2>4, <2>5 DEF Once
<1> QED BY <1>6, <1>10, <1>11 DEF OnceInv, k

\* A restart takes everything out of the senders' hands; what was accepted and
\* not recorded is excused.
LEMMA CrashOnce ==
  ASSUME Inv, OnceInv, Crash
  PROVE  OnceInv'
<1>1. /\ \A w \in Senders : sender'[w].pc = "idle"
      /\ UNCHANGED <<delivery, acked>>
      /\ excused' = excused \cup
           {k \in Keys : \E w \in Senders : /\ sender[w].pc = "sent" /\ Current(w) = k
                                            /\ sender[w].outcome = "delivered"}
  BY IdleType DEF Crash
<1>2. BatchesInv' /\ \A w \in Senders : \A k : ~HasInHand(w, k)'
  BY <1>1 DEF BatchesInv, HasInHand
<1>3. ASSUME NEW k \in Keys \ excused' PROVE Once(k)'
  <2>1. Once(k) /\ k \notin {i \in Keys : \E w \in Senders :
                               /\ sender[w].pc = "sent" /\ Current(w) = i
                               /\ sender[w].outcome = "delivered"}
    BY <1>1, <1>3 DEF OnceInv
  <2>2. ~(k \in acked' /\ delivery'[k].status \in {"none", "pending"})
    BY <1>1, <2>1 DEF Once
  <2> QED BY <1>1, <1>2, <2>2 DEF Once
<1> QED BY <1>2, <1>3 DEF OnceInv

\* Nobody has a new row in hand (enqueue_webhook_event, queue_test_webhook).
LEMMA InsertOnce ==
  ASSUME Inv, OnceInv, NEW k \in Keys, Insert(k), delivery[k].status = "none",
         UNCHANGED <<acked, excused>>,
         \A w \in Senders : sender'[w] = sender[w]
                            \/ (sender[w].pc = "idle" /\ sender'[w].pc = "queued")
  PROVE  OnceInv'
<1>1. delivery' = [delivery EXCEPT ![k] = NewDelivery] /\ delivery \in [Keys -> Delivery]
  BY DEF Insert, Inv, TypeInv
<1>2. BatchesInv'
  BY DEF OnceInv, BatchesInv
<1>3. \A w \in Senders : \A i : HasInHand(w, i)' <=> HasInHand(w, i)
  BY SameSender DEF HasInHand
<1>4. \A w \in Senders : sender'[w].pc \in {"picked", "sent"} <=> sender[w].pc \in {"picked", "sent"}
  OBVIOUS
<1>5. \A w \in Senders : sender[w].pc \in {"picked", "sent"} =>
        sender'[w] = sender[w] /\ Current(w)' = Current(w)
  BY SameSender
<1>6. ASSUME NEW i \in Keys \ excused' PROVE Once(i)'
  <2>1. Once(i)
    BY <1>6 DEF OnceInv
  <2>2. i # k => delivery'[i] = delivery[i]
    BY <1>1
  <2>3. i = k => \A w \in Senders : ~HasInHand(w, i)
    BY <2>1 DEF Once
  <2>4. i = k => i \notin acked
    <3>1. \A w \in Senders : sender[w].pc = "sent" /\ Current(w) = i => HasInHand(w, i)
      BY CurrentInHand DEF Inv
    <3> QED BY <2>1, <2>3, <3>1 DEF Once
  <2>5. \A u, v \in Senders : HasInHand(u, i)' /\ HasInHand(v, i)' => u = v
    BY <1>3, <2>1 DEF Once
  <2>6. \A v \in Senders : HasInHand(v, i)' => delivery'[i].status = "pending"
    BY <1>3, <2>1, <2>2, <2>3 DEF Once
  <2>7. \A v \in Senders : sender'[v].pc \in {"picked", "sent"} /\ Current(v)' = i =>
                             sender'[v].seen.status = "pending"
    BY <1>4, <1>5, <2>1 DEF Once
  <2>8. i \in acked' /\ delivery'[i].status \in {"none", "pending"} =>
          \E v \in Senders : /\ sender'[v].pc = "sent" /\ Current(v)' = i
                             /\ sender'[v].outcome = "delivered"
    BY <1>5, <2>1, <2>2, <2>4 DEF Once
  <2> QED BY <2>5, <2>6, <2>7, <2>8 DEF Once
<1> QED BY <1>2, <1>6 DEF OnceInv

\* Recording an outcome, and giving a row up because its endpoint is disabled.
LEMMA RecordOnce ==
  ASSUME Inv, OnceInv, NEW w \in Senders, Record(w)
  PROVE  OnceInv'
<1>1. /\ sender[w].pc = "sent" /\ Commit(w, sender[w].seen, sender[w].outcome)
      /\ UNCHANGED <<acked, excused>>
  BY DEF Record, history
<1>2. Current(w) \in Keys /\ HasInHand(w, Current(w))
  BY <1>1, CurrentIsKey, CurrentInHand DEF Inv
<1>3. Current(w) \notin excused => sender[w].seen.status = "pending"
  BY <1>1, <1>2 DEF OnceInv, Once
<1>4. Current(w) \in acked \ excused => sender[w].outcome = "delivered"
  <2> SUFFICES ASSUME Current(w) \in acked \ excused PROVE sender[w].outcome = "delivered"
    OBVIOUS
  <2>1. PICK k : k = Current(w)
    OBVIOUS
  <2>2. Once(k)
    BY <1>2, <2>1 DEF OnceInv
  <2>3. PICK v \in Senders : sender[v].pc = "sent" /\ Current(v) = k
                             /\ sender[v].outcome = "delivered"
    BY <1>2, <2>1, <2>2 DEF Once
  <2>4. HasInHand(v, k)
    BY <2>3, CurrentInHand DEF Inv
  <2> QED BY <1>2, <2>1, <2>2, <2>3, <2>4 DEF Once
<1> QED BY <1>1, <1>3, <1>4, CommitOnce

LEMMA AbandonOnce ==
  ASSUME Inv, OnceInv, NEW w \in Senders, Abandon(w)
  PROVE  OnceInv'
<1>1. /\ sender[w].pc \in {"picked", "next"} /\ Commit(w, Read(w), "abandoned")
      /\ UNCHANGED <<acked, excused>>
  BY DEF Abandon, InHand
<1>2. Current(w) \in Keys /\ HasInHand(w, Current(w))
  BY <1>1, CurrentIsKey, CurrentInHand DEF Inv
<1>3. Current(w) \notin excused => Read(w).status = "pending"
  BY <1>1, <1>2 DEF OnceInv, Once, Read
<1>4. Current(w) \notin acked \ excused
  <2> SUFFICES ASSUME Current(w) \in acked \ excused PROVE FALSE
    OBVIOUS
  <2>1. PICK k : k = Current(w)
    OBVIOUS
  <2>2. Once(k)
    BY <1>2, <2>1 DEF OnceInv
  <2>3. PICK v \in Senders : sender[v].pc = "sent" /\ Current(v) = k
    BY <1>2, <2>1, <2>2 DEF Once
  <2>4. HasInHand(v, k)
    BY <2>3, CurrentInHand DEF Inv
  <2> QED BY <1>1, <1>2, <2>1, <2>2, <2>3, <2>4 DEF Once
<1> DEFINE seen == Read(w)
           status == "abandoned"
<1>5. /\ Commit(w, seen, status)
      /\ Current(w) \notin excused => seen.status = "pending"
  BY <1>1, <1>3
<1> HIDE DEF seen, status
<1> QED BY <1>1, <1>4, <1>5, CommitOnce

\* Everything else leaves the rows, the senders and the answers alone.
LEMMA QuietOnce ==
  ASSUME OnceInv, UNCHANGED <<delivery, sender, acked, excused>>
  PROVE  OnceInv'
<1>1. \A k : Once(k) => Once(k)'
  BY DEF Once, HasInHand, Current
<1> QED BY <1>1 DEF OnceInv, BatchesInv

LEMMA OnceStep ==
  ASSUME Inv, DueInv, OnceInv, [Next]_vars
  PROVE  OnceInv'
<1>1. ASSUME NEW p \in Producers, NEW k \in Keys, Enqueue(p, k) PROVE OnceInv'
  <2>1. UNCHANGED <<sender, acked, excused>>
    BY <1>1 DEF Enqueue, history
  <2>2. UNCHANGED delivery \/ (delivery[k].status = "none" /\ Insert(k))
    BY <1>1 DEF Enqueue
  <2> QED BY <2>1, <2>2, InsertOnce, QuietOnce
<1>2. ASSUME NEW k \in Keys, QueueTest(k) PROVE OnceInv'
  <2> DEFINE batch == <<k>>
             next == [Idle EXCEPT !.pc = "queued", !.batch = batch]
  <2>1. /\ Insert(k) /\ delivery[k].status = "none" /\ UNCHANGED <<acked, excused>>
        /\ sender["handler"].pc = "idle" /\ sender' = [sender EXCEPT !["handler"] = next]
    BY <1>2 DEF QueueTest, history
  <2>2. next.pc = "queued"
    BY IdleType DEF Sender
  <2> HIDE DEF next
  <2>3. \A w \in Senders : sender'[w] = sender[w]
                            \/ (sender[w].pc = "idle" /\ sender'[w].pc = "queued")
    BY <2>1, <2>2 DEF Inv, TypeInv
  <2> QED BY <2>1, <2>3, InsertOnce
<1>3. CASE SchedulerPick
  <2>1. /\ Pick("scheduler", Keys, CycleLimit) /\ CycleLimit \in Nat /\ "scheduler" \in Senders
        /\ sender["scheduler"].pc \in {"idle", "queued"}
    BY <1>3, OutboxAssumption DEF SchedulerPick, Senders
  <2> QED BY <2>1, PickOnce
<1>4. CASE ProcessCall
  <2>1. /\ "handler" \in Senders /\ sender["handler"].pc \in {"idle", "queued"}
        /\ \E limit \in Nat : Pick("handler", Keys, limit)
    BY <1>4, OutboxAssumption DEF ProcessCall, Senders
  <2> QED BY <2>1, PickOnce
<1>5. CASE PickForTest
  <2>1. /\ "handler" \in Senders /\ 1 \in Nat /\ sender["handler"].pc \in {"idle", "queued"}
        /\ Pick("handler", {i \in Keys : i[1] = Head(sender["handler"].batch)[1]}, 1)
    BY <1>5 DEF PickForTest, Senders
  <2> QED BY <2>1, PickOnce
<1>6. CASE \E w \in Senders : Deliver(w)
  BY <1>6, RecordOnce, AbandonOnce, SendOnce DEF Deliver
<1>7. CASE \/ \E p \in Producers, event \in Events : Publish(p, event)
           \/ \E k \in Keys : RetryDue(k)
           \/ \E e \in Endpoints : Toggle(e)
           \/ UNCHANGED vars
  <2>1. UNCHANGED <<delivery, sender, acked, excused>>
    BY <1>7 DEF Publish, RetryDue, Toggle, history, vars
  <2> QED BY <2>1, QuietOnce
<1> QED BY <1>1, <1>2, <1>3, <1>4, <1>5, <1>6, <1>7, CrashOnce DEF Next

\* Only rows that are excused are sent after they were accepted.
LEMMA SendsStep ==
  ASSUME Inv, OnceInv, [Next]_vars, NEW w \in Senders, NEW k \in acked, Sends(w, k)
  PROVE  k \in excused
<1>1. InHand(w) /\ Current(w) = k /\ sender'[w].pc = "sent" /\ sender[w].pc # "sent"
  BY DEF Sends, InHand
<1>2. ASSUME NEW v \in Senders, NEW seen, NEW status, sender[v].pc \in {"picked", "next", "sent"},
             Commit(v, seen, status)
      PROVE  FALSE
  <2>1. sender' = [sender EXCEPT ![v] = Rest(v)] /\ Rest(v).pc # "sent"
    BY <1>2, RestType DEF Commit, Inv
  <2> QED BY <1>1, <2>1 DEF Inv, TypeInv
<1>3. ~(sender' = sender)
  BY <1>1
<1>4. ASSUME NEW v \in Senders, NEW scope, NEW limit \in Nat, Pick(v, scope, limit) PROVE FALSE
  <2>1. sender'[v].pc \in {"idle", "picked"} /\ \A u \in Senders \ {v} : sender'[u] = sender[u]
    BY <1>4, PickSender DEF Inv
  <2> QED BY <1>1, <2>1
<1>5. ~\E i \in Keys : QueueTest(i)
  <2> SUFFICES ASSUME NEW i \in Keys, QueueTest(i) PROVE FALSE
    OBVIOUS
  <2> DEFINE batch == <<i>>
             next == [Idle EXCEPT !.pc = "queued", !.batch = batch]
  <2>1. sender' = [sender EXCEPT !["handler"] = next]
    BY DEF QueueTest
  <2>2. next.pc = "queued"
    BY IdleType DEF Sender
  <2> HIDE DEF next
  <2> QED BY <1>1, <2>1, <2>2 DEF Inv, TypeInv
<1>6. ~SchedulerPick /\ ~ProcessCall /\ ~PickForTest
  <2>1. ~SchedulerPick
    <3>1. SchedulerPick => Pick("scheduler", Keys, CycleLimit) /\ CycleLimit \in Nat /\ "scheduler" \in Senders
      BY OutboxAssumption DEF SchedulerPick, Senders
    <3> QED BY <1>4, <3>1
  <2>2. ~ProcessCall
    <3>1. ProcessCall => "handler" \in Senders /\ \E limit \in Nat : Pick("handler", Keys, limit)
      BY OutboxAssumption DEF ProcessCall, Senders
    <3> QED BY <1>4, <3>1
  <2>3. ~PickForTest
    <3>1. PickForTest => /\ "handler" \in Senders /\ 1 \in Nat
                         /\ Pick("handler", {i \in Keys : i[1] = Head(sender["handler"].batch)[1]}, 1)
      BY DEF PickForTest, Senders
    <3> QED BY <1>4, <3>1
  <2> QED BY <2>1, <2>2, <2>3
<1>7. ~Crash
  BY <1>1, IdleType DEF Crash
<1>8. \A v \in Senders : ~Abandon(v) /\ ~Record(v)
  BY <1>2 DEF Abandon, Record, InHand
<1>9. PICK v \in Senders, result \in Results : Send(v, result)
  BY <1>3, <1>5, <1>6, <1>7, <1>8 DEF Next, Deliver, Publish, Enqueue, RetryDue, Toggle, vars
<1>10. v = w
  BY <1>1, <1>9 DEF Send, Inv, TypeInv
<1> QED BY <1>1, <1>9, <1>10, SendOnce

-----------------------------------------------------------------------------
(***************************************************************************)
(* The steps of a delivery                                                 *)
(***************************************************************************)
\* A step of WebhookDelivery that moves a delivery from one phase and count to
\* another.
DeliveryStep(was, is, before, after) ==
  \/ is = was /\ after = before
  \/ was = "absent" /\ is = "waiting" /\ after = before
  \/ /\ was = "waiting" /\ is \in {"waiting", "accepted", "abandoned"}
     /\ after = IF before < MaxAttempts THEN before + 1 ELSE before
  \/ was = "accepted" /\ is = "delivered" /\ after = before
  \/ was = "waiting" /\ is = "failed" /\ before = MaxAttempts /\ after = before

LEMMA OneDelivery ==
  ASSUME NEW k \in Keys,
         \A i \in Keys \ {k} : Phase(i)' = Phase(i) /\ Counted(i)' = Counted(i),
         DeliveryStep(Phase(k), Phase(k)', Counted(k), Counted(k)')
  PROVE  [Promise!Next]_(Promise!vars)
<1> DEFINE phase == [i \in Keys |-> Phase(i)]
           attempts == [i \in Keys |-> Counted(i)]
           phase1 == [i \in Keys |-> Phase(i)']
           attempts1 == [i \in Keys |-> Counted(i)']
<1>1. /\ phase1 = [phase EXCEPT ![k] = Phase(k)'] /\ phase[k] = Phase(k)
      /\ attempts1 = [attempts EXCEPT ![k] = Counted(k)'] /\ attempts[k] = Counted(k)
      /\ phase = [phase EXCEPT ![k] = phase[k]]
      /\ attempts = [attempts EXCEPT ![k] = attempts[k]]
  OBVIOUS
<1>2. \/ phase1 = phase /\ attempts1 = attempts
      \/ Promise!Queue(k) \/ Promise!Attempt(k) \/ Promise!AcceptedAttempt(k)
      \/ Promise!Deliver(k) \/ Promise!GiveUp(k) \/ Promise!Abandon(k)
  <2> HIDE DEF phase, attempts, phase1, attempts1
  <2>1. CASE Phase(k)' = phase[k] /\ Counted(k)' = attempts[k]
    BY <1>1, <2>1
  <2>2. CASE /\ Counted(k)' = attempts[k]
             /\ \/ phase[k] = "absent" /\ Phase(k)' = "waiting"
                \/ phase[k] = "accepted" /\ Phase(k)' = "delivered"
                \/ phase[k] = "waiting" /\ Phase(k)' = "failed" /\ attempts[k] = MaxAttempts
    <3>1. /\ attempts1 = attempts
          /\ \/ phase[k] = "absent" /\ phase1 = [phase EXCEPT ![k] = "waiting"]
             \/ phase[k] = "accepted" /\ phase1 = [phase EXCEPT ![k] = "delivered"]
             \/ /\ phase[k] = "waiting" /\ phase1 = [phase EXCEPT ![k] = "failed"]
                /\ attempts[k] = MaxAttempts
      BY <1>1, <2>2
    <3> QED BY <3>1 DEF Promise!Queue, Promise!Deliver, Promise!GiveUp, Promise!Move,
                        phase, attempts, phase1, attempts1
  <2>3. CASE /\ Counted(k)' = (IF attempts[k] < MaxAttempts THEN attempts[k] + 1 ELSE attempts[k])
             /\ phase[k] = "waiting" /\ Phase(k)' \in {"waiting", "accepted", "abandoned"}
    <3>1. /\ attempts1 = [attempts EXCEPT ![k] = IF attempts[k] < MaxAttempts
                                                 THEN attempts[k] + 1 ELSE attempts[k]]
          /\ phase[k] = "waiting"
          /\ \/ phase1 = [phase EXCEPT ![k] = "waiting"]
             \/ phase1 = [phase EXCEPT ![k] = "accepted"]
             \/ phase1 = [phase EXCEPT ![k] = "abandoned"]
      BY <1>1, <2>3
    <3> QED BY <3>1 DEF Promise!Attempt, Promise!AcceptedAttempt, Promise!Abandon, Promise!Move,
                        Promise!CountAttempt, phase, attempts, phase1, attempts1
  <2> QED BY <1>1, <2>1, <2>2, <2>3 DEF DeliveryStep
<1> QED BY <1>2 DEF Promise!Next, Promise!vars

\* The rows other than k are as they were, and as disturbed as they were.
LEMMA Elsewhere ==
  ASSUME NEW k \in Keys, NEW i \in Keys \ {k}, delivery'[i] = delivery[i], tried'[i] = tried[i],
         excused' = excused, i \in acked' <=> i \in acked
  PROVE  Phase(i)' = Phase(i) /\ Counted(i)' = Counted(i)
BY DEF Phase, Counted

\* A delivery that one sender at most has in hand was accepted, and is pending
\* still, only if that sender is about to record it.
LEMMA AcceptedBySender ==
  ASSUME Inv, OnceInv, NEW w \in Senders, sender[w].pc \in {"picked", "next", "sent"},
         Current(w) \notin excused
  PROVE  /\ delivery[Current(w)].status = "pending"
         /\ Current(w) \in acked => sender[w].pc = "sent" /\ sender[w].outcome = "delivered"
         /\ Read(w).status = "pending"
         /\ sender[w].pc = "sent" => sender[w].seen.status = "pending"
<1>1. PICK k \in Keys : k = Current(w)
  BY CurrentIsKey DEF Inv
<1>2. Once(k) /\ HasInHand(w, k)
  BY <1>1, CurrentInHand DEF OnceInv, Inv
<1>3. \A v \in Senders : sender[v].pc = "sent" /\ Current(v) = k => v = w
  BY <1>2, CurrentInHand DEF Once, Inv
<1> QED BY <1>1, <1>2, <1>3 DEF Once, Read

LEMMA InsertDelivery ==
  ASSUME Inv, OnceInv, NEW k \in Keys, Insert(k), delivery[k].status = "none",
         UNCHANGED <<acked, excused, tried>>
  PROVE  [Promise!Next]_(Promise!vars)
<1>1. delivery' = [delivery EXCEPT ![k] = NewDelivery] /\ delivery \in [Keys -> Delivery]
  BY DEF Insert, Inv, TypeInv
<1>2. delivery'[k].status = "pending" /\ \A i \in Keys \ {k} : delivery'[i] = delivery[i]
  BY <1>1 DEF NewDelivery
<1>3. k \notin excused => k \notin acked
  <2> SUFFICES ASSUME k \notin excused, k \in acked PROVE FALSE
    OBVIOUS
  <2>1. Once(k)
    BY DEF OnceInv
  <2>2. PICK w \in Senders : sender[w].pc = "sent" /\ Current(w) = k
    BY <2>1 DEF Once
  <2>3. HasInHand(w, k)
    BY <2>2, CurrentInHand DEF Inv
  <2> QED BY <2>1, <2>3 DEF Once
<1>4. DeliveryStep(Phase(k), Phase(k)', Counted(k), Counted(k)')
  BY <1>2, <1>3 DEF DeliveryStep, Phase, Counted
<1>5. \A i \in Keys \ {k} : Phase(i)' = Phase(i) /\ Counted(i)' = Counted(i)
  BY <1>2, Elsewhere
<1> QED BY <1>4, <1>5, OneDelivery

\* Taking a batch and a restart excuse some deliveries.
LEMMA ExcusedDelivery ==
  ASSUME UNCHANGED <<delivery, acked, tried>>, excused \subseteq excused'
  PROVE  [Promise!Next]_(Promise!vars)
<1> DEFINE some == Keys \cap excused'
           phase == [i \in Keys |-> Phase(i)]
           attempts == [i \in Keys |-> Counted(i)]
           phase1 == [i \in Keys |-> Phase(i)']
           attempts1 == [i \in Keys |-> Counted(i)']
<1>1. \A i \in Keys : /\ Phase(i)' = IF i \in some THEN "disturbed" ELSE phase[i]
                      /\ Counted(i)' = IF i \in some THEN 0 ELSE attempts[i]
  BY DEF Phase, Counted
<1>2. /\ phase1 = [i \in Keys |-> IF i \in some THEN "disturbed" ELSE phase[i]]
      /\ attempts1 = [i \in Keys |-> IF i \in some THEN 0 ELSE attempts[i]]
      /\ some \in SUBSET Keys
  BY <1>1
<1>3. Promise!Disturb(some)
  BY <1>2 DEF Promise!Disturb
<1> QED BY <1>2, <1>3 DEF Promise!Next

LEMMA SendDelivery ==
  ASSUME Inv, OnceInv, NEW w \in Senders, NEW result \in Results, Send(w, result)
  PROVE  [Promise!Next]_(Promise!vars)
<1>1. /\ sender[w].pc \in {"picked", "next"} /\ tried' = Attempted(w)
      /\ acked' = (IF result = "accepted" THEN acked \cup {Current(w)} ELSE acked)
      /\ UNCHANGED <<delivery, excused>>
  BY DEF Send, InHand
<1>2. PICK k \in Keys : k = Current(w)
  BY <1>1, CurrentIsKey DEF Inv
<1>3. /\ tried'[k] = IF tried[k] < MaxAttempts THEN tried[k] + 1 ELSE tried[k]
      /\ \A i \in Keys \ {k} : tried'[i] = tried[i]
  BY <1>1, <1>2 DEF Attempted, Inv, TypeInv
<1>4. \A i \in Keys \ {k} : Phase(i)' = Phase(i) /\ Counted(i)' = Counted(i)
  BY <1>1, <1>2, <1>3, Elsewhere
<1>5. k \notin excused => delivery[k].status = "pending" /\ k \notin acked
  BY <1>1, <1>2, AcceptedBySender
<1>6. DeliveryStep(Phase(k), Phase(k)', Counted(k), Counted(k)')
  <2>1. CASE k \in excused
    BY <1>1, <2>1 DEF DeliveryStep, Phase, Counted
  <2>2. CASE k \notin excused
    <3>1. Phase(k) = "waiting" /\ Phase(k)' \in {"waiting", "accepted"}
      BY <1>1, <1>5, <2>2 DEF Phase
    <3>2. Counted(k) = tried[k] /\ Counted(k)' = tried'[k]
      BY <1>1, <2>2 DEF Counted
    <3> QED BY <1>3, <3>1, <3>2 DEF DeliveryStep
  <2> QED BY <2>1, <2>2
<1> QED BY <1>4, <1>6, OneDelivery

\* A sender that works on a row alone writes the outcome of what it did.
LEMMA CommitDelivery ==
  ASSUME Inv, NEW w \in Senders, sender[w].pc \in {"picked", "next", "sent"},
         NEW seen, NEW status \in {"pending", "delivered", "failed", "abandoned"},
         Commit(w, seen, status),
         Current(w) \notin excused => delivery[Current(w)].status = "pending"
                                      /\ seen.status = "pending"
  PROVE  /\ \A i \in Keys \ {Current(w)} : delivery'[i] = delivery[i]
         /\ Current(w) \notin excused => delivery'[Current(w)].status = status
<1>1. PICK k \in Keys : k = Current(w)
  BY CurrentIsKey DEF Inv
<1>2. delivery' = [delivery EXCEPT ![k] = Written(delivery[k], seen, status)]
      /\ delivery \in [Keys -> Delivery]
  BY <1>1 DEF Commit, Inv, TypeInv
<1>3. Written(delivery[k], seen, status).status =
        IF status = seen.status THEN delivery[k].status ELSE status
  BY DEF Written
<1> QED BY <1>1, <1>2, <1>3

LEMMA RecordDelivery ==
  ASSUME Inv, OnceInv, NEW w \in Senders, Record(w)
  PROVE  [Promise!Next]_(Promise!vars)
<1>1. /\ sender[w].pc = "sent" /\ Commit(w, sender[w].seen, sender[w].outcome)
      /\ UNCHANGED <<tried, acked, excused>>
  BY DEF Record, history
<1>2. PICK k \in Keys : k = Current(w)
  BY <1>1, CurrentIsKey DEF Inv
<1>3. PICK status \in Outcomes : status = sender[w].outcome
  BY DEF Inv, TypeInv, Sender
<1>4. k \notin excused => /\ delivery[k].status = "pending" /\ sender[w].seen.status = "pending"
                          /\ k \in acked => status = "delivered"
  BY <1>1, <1>2, <1>3, AcceptedBySender
<1>5. /\ \A i \in Keys \ {k} : delivery'[i] = delivery[i]
      /\ k \notin excused => delivery'[k].status = status
  BY <1>1, <1>2, <1>3, <1>4, CommitDelivery DEF Outcomes
<1>6. /\ status = "delivered" => k \in acked
      /\ status = "failed" => tried[k] = MaxAttempts
  BY <1>1, <1>2, <1>3 DEF Inv, Claims, SenderClaims
<1>7. \A i \in Keys \ {k} : Phase(i)' = Phase(i) /\ Counted(i)' = Counted(i)
  BY <1>1, <1>5, Elsewhere
<1>8. DeliveryStep(Phase(k), Phase(k)', Counted(k), Counted(k)')
  BY <1>1, <1>4, <1>5, <1>6 DEF DeliveryStep, Phase, Counted, Outcomes
<1> QED BY <1>7, <1>8, OneDelivery

LEMMA AbandonDelivery ==
  ASSUME Inv, OnceInv, NEW w \in Senders, Abandon(w)
  PROVE  [Promise!Next]_(Promise!vars)
<1> PICK seen, status : seen = Read(w) /\ status = "abandoned"
  OBVIOUS
<1>1. /\ sender[w].pc \in {"picked", "next"} /\ Commit(w, seen, status)
      /\ tried' = Attempted(w) /\ UNCHANGED <<acked, excused>>
  BY DEF Abandon, InHand
<1>2. PICK k \in Keys : k = Current(w)
  BY <1>1, CurrentIsKey DEF Inv
<1>3. /\ tried'[k] = IF tried[k] < MaxAttempts THEN tried[k] + 1 ELSE tried[k]
      /\ \A i \in Keys \ {k} : tried'[i] = tried[i]
  BY <1>1, <1>2 DEF Attempted, Inv, TypeInv
<1>4. k \notin excused => /\ delivery[k].status = "pending" /\ seen.status = "pending"
                          /\ k \notin acked
  BY <1>1, <1>2, AcceptedBySender
<1>5. /\ \A i \in Keys \ {k} : delivery'[i] = delivery[i]
      /\ k \notin excused => delivery'[k].status = "abandoned"
  BY <1>1, <1>2, <1>4, CommitDelivery
<1>6. \A i \in Keys \ {k} : Phase(i)' = Phase(i) /\ Counted(i)' = Counted(i)
  BY <1>1, <1>3, <1>5, Elsewhere
<1>7. DeliveryStep(Phase(k), Phase(k)', Counted(k), Counted(k)')
  <2>1. CASE k \in excused
    BY <1>1, <2>1 DEF DeliveryStep, Phase, Counted
  <2>2. CASE k \notin excused
    <3>1. Phase(k) = "waiting" /\ Phase(k)' = "abandoned"
      BY <1>1, <1>4, <1>5, <2>2 DEF Phase
    <3>2. Counted(k) = tried[k] /\ Counted(k)' = tried'[k]
      BY <1>1, <2>2 DEF Counted
    <3> QED BY <1>3, <3>1, <3>2 DEF DeliveryStep
  <2> QED BY <2>1, <2>2
<1> QED BY <1>6, <1>7, OneDelivery

LEMMA DeliveriesStep ==
  ASSUME Inv, OnceInv, [Next]_vars
  PROVE  [Promise!Next]_(Promise!vars)
<1>1. ASSUME NEW p \in Producers, NEW k \in Keys, Enqueue(p, k)
      PROVE  [Promise!Next]_(Promise!vars)
  <2>1. UNCHANGED <<acked, excused, tried>>
    BY <1>1 DEF Enqueue, history
  <2>2. UNCHANGED delivery \/ (delivery[k].status = "none" /\ Insert(k))
    BY <1>1 DEF Enqueue
  <2> QED BY <2>1, <2>2, InsertDelivery, ExcusedDelivery
<1>2. ASSUME NEW k \in Keys, QueueTest(k) PROVE [Promise!Next]_(Promise!vars)
  <2>1. Insert(k) /\ delivery[k].status = "none" /\ UNCHANGED <<acked, excused, tried>>
    BY <1>2 DEF QueueTest, history
  <2> QED BY <2>1, InsertDelivery
<1>3. CASE SchedulerPick \/ ProcessCall \/ PickForTest \/ Crash
  <2>1. UNCHANGED <<delivery, acked, tried>> /\ excused \subseteq excused'
    BY <1>3 DEF SchedulerPick, ProcessCall, PickForTest, Pick, Crash
  <2> QED BY <2>1, ExcusedDelivery
<1>4. CASE \E w \in Senders : Deliver(w)
  BY <1>4, AbandonDelivery, SendDelivery, RecordDelivery DEF Deliver
<1>5. CASE \/ \E p \in Producers, event \in Events : Publish(p, event)
           \/ \E k \in Keys : RetryDue(k)
           \/ \E e \in Endpoints : Toggle(e)
           \/ UNCHANGED vars
  <2>1. UNCHANGED <<delivery, acked, tried, excused>>
    BY <1>5 DEF Publish, RetryDue, Toggle, history, vars
  <2> QED BY <2>1, ExcusedDelivery
<1> QED BY <1>1, <1>2, <1>3, <1>4, <1>5 DEF Next

-----------------------------------------------------------------------------
(***************************************************************************)
(* The theorems                                                            *)
(***************************************************************************)
\* A delivery is shown as delivered only if its endpoint answered 2xx, however
\* two senders and restarts interleave: each status a sender writes is its own,
\* and the one it leaves out was backed by whoever wrote it.
THEOREM Delivered == Spec => []DeliveredWasAccepted
<1>1. Inv => DeliveredWasAccepted
  BY DEF Inv, Claims, RowClaims, DeliveredWasAccepted
<1> QED BY <1>1, Invariance, PTL

\* No delivery is given up before max_attempts attempts at it: a count may be
\* overwritten by a smaller one, never by one that no attempts back.
THEOREM GivenUp == Spec => []GivenUpAfterAllAttempts
<1>1. Inv => GivenUpAfterAllAttempts
  BY OutboxAssumption DEF Inv, Claims, RowClaims, GivenUpAfterAllAttempts
<1> QED BY <1>1, Invariance, PTL

\* Every variable keeps its type; a row that is due is pending and waits once,
\* whoever inserts, retries or commits it.
THEOREM TypeCorrect == Spec => []TypeOK
<1>1. Init => DueInv /\ RestInv
  BY OutboxAssumption, EmptySeq DEF Init, DueInv, RestInv, IsInjective
<1>2. Inv /\ DueInv /\ RestInv /\ [Next]_vars => (DueInv /\ RestInv)'
  BY DueStep, RestStep
<1>3. Inv /\ DueInv /\ RestInv => TypeOK
  BY DEF Inv, TypeInv, DueInv, RestInv, TypeOK, IsInjective
<1> QED BY <1>1, <1>2, <1>3, Invariance, PTL DEF Spec

\* An endpoint that answered 2xx gets the event again only if the process died
\* before recording it or if both senders had the row in hand: selecting on the
\* status, the unique index and the partial update leave no third way.
THEOREM SentOnce == Spec => AcceptedOnce
<1>1. Init => DueInv /\ OnceInv
  BY OutboxAssumption, EmptySeq, IdleType
     DEF Init, DueInv, OnceInv, BatchesInv, Once, HasInHand, IsInjective
<1>2. Inv /\ DueInv /\ OnceInv /\ [Next]_vars => (DueInv /\ OnceInv)'
  BY DueStep, OnceStep
<1>3. Inv /\ OnceInv /\ [Next]_vars =>
        [\A w \in Senders, k \in acked : Sends(w, k) => k \in excused]_vars
  BY SendsStep
<1> QED BY <1>1, <1>2, <1>3, Invariance, PTL DEF Spec, AcceptedOnce

\* What two senders do, with their batches and copies of rows, is for every row
\* that is not excused what one sender that works on it alone would do: it is sent
\* until it is accepted, recorded once, and given up only after its last attempt.
THEOREM Implementation == Spec => ImplementsDelivery
<1>1. Init => DueInv /\ OnceInv
  BY OutboxAssumption, EmptySeq, IdleType
     DEF Init, DueInv, OnceInv, BatchesInv, Once, HasInHand, IsInjective
<1>2. Inv /\ DueInv /\ OnceInv /\ [Next]_vars => (DueInv /\ OnceInv)'
  BY DueStep, OnceStep
<1>3. Init => Promise!Init
  BY DEF Init, Promise!Init, Phase, Counted, Absent
<1>4. Inv /\ OnceInv /\ [Next]_vars => [Promise!Next]_(Promise!vars)
  BY DeliveriesStep
<1> QED BY <1>1, <1>2, <1>3, <1>4, Invariance, PTL DEF Spec, ImplementsDelivery, Promise!Spec
=============================================================================

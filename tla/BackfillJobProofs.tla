------------------------- MODULE BackfillJobProofs -------------------------
(***************************************************************************)
(* Proofs about BackfillJob, for any set of jobs, workers and operators.   *)
(***************************************************************************)
EXTENDS BackfillJob, FiniteSetTheorems, TLAPS

-----------------------------------------------------------------------------
(***************************************************************************)
(* Values                                                                  *)
(***************************************************************************)
\* The initial values have their types.
LEMMA InitialValues ==
  /\ AbsentRow \in Row /\ NewRow \in Row
  /\ IdleWorker \in Worker /\ IdleWorker.pc = "idle"
  /\ NewCall \in Call
  /\ DoneCall \in Call /\ DoneCall.pc = "done"
  /\ DeletedRow \in Row /\ DeletedRow.status = "deleted" /\ DeletedRow.cursor = 0
BY JobsAssumption DEF DoneCall, DeletedRow, AbsentRow, NewRow, Row, IdleWorker, Worker, NewCall, Call, Statuses, AnyJob

\* A partial UPDATE of a row is a row, and each of its columns is the old or the
\* new one (the UPDATE of a row's changed columns by SQLAlchemy).
LEMMA UpdateRow ==
  ASSUME NEW old \in Row, NEW seen \in Row, NEW new \in Row
  PROVE  /\ Update(old, seen, new) \in Row
         /\ Update(old, seen, new).status \in {old.status, new.status}
         /\ Update(old, seen, new).cursor \in {old.cursor, new.cursor}
         /\ new.status # seen.status => Update(old, seen, new).status = new.status
         /\ new.cursor = seen.cursor => Update(old, seen, new).cursor = old.cursor
BY DEF Update, Column, Row

\* The rows the code writes are rows.
LEMMA WrittenRows ==
  ASSUME NEW r \in Row, NEW page \in Nat
  PROVE  /\ ClaimedRow(r) \in Row /\ ClaimedRow(r).status = "running"
         /\ ClaimedRow(r).cursor = r.cursor
         /\ NextPageRow(r, page) \in Row /\ NextPageRow(r, page).status = "queued"
         /\ NextPageRow(r, page).cursor = page + 1
         /\ CompletedRow(r) \in Row /\ CompletedRow(r).status = "completed"
         /\ CompletedRow(r).cursor = 0
         /\ FailedRow(r) \in Row /\ FailedRow(r).status \in {"failed", "backoff"}
         /\ FailedRow(r).cursor = 0
         /\ CancelledRow(r) \in Row /\ CancelledRow(r).status = "cancelled"
         /\ CancelledRow(r).cursor = r.cursor
         /\ RetriedRow(r) \in Row /\ RetriedRow(r).status = "queued"
         /\ RetriedRow(r).cursor = r.cursor
BY MaxAttemptsAssumption DEF Row, Statuses, RowOf, ClaimedRow, NextPageRow, CompletedRow, FailedRow,
       CancelledRow, RetriedRow

\* An outcome writes a row: one of the old, seen or new values in each column.
LEMMA OutcomeRow ==
  ASSUME NEW w \in Workers, TypeOK, worker[w].pc = "loaded",
         NEW new \in Row, Outcome(w, new)
  PROVE  LET j == worker[w].job IN
         /\ j \in Jobs /\ row[j].status # "deleted"
         /\ \E r \in Row :
              /\ row' = [row EXCEPT ![j] = r]
              /\ r.status \in {row[j].status, new.status}
              /\ new.status # worker[w].seen.status => r.status = new.status
              /\ r.cursor \in {row[j].cursor, new.cursor}
         /\ worker' = [worker EXCEPT ![w] = IdleWorker]
         /\ UNCHANGED <<enabled, call, tasks, retried, lost, faults>>
<1> DEFINE j == worker[w].job
           seen == worker[w].seen
           written == Update(row[j], seen, new)
<1>1. j \in Jobs /\ seen \in Row /\ row[j] \in Row
  BY DEF TypeOK, Worker
<1>2. /\ written \in Row
      /\ written.status \in {row[j].status, new.status}
      /\ new.status # seen.status => written.status = new.status
      /\ written.cursor \in {row[j].cursor, new.cursor}
  BY <1>1, UpdateRow
<1>3. PICK cursor \in {written.cursor, new.cursor} :
        Commit(w, RowOf(written.status, written.attempts, cursor, written.retry), IdleWorker)
  BY DEF Outcome
<1> DEFINE r == RowOf(written.status, written.attempts, cursor, written.retry)
<1>4. /\ r \in Row /\ r.status = written.status /\ r.cursor = cursor
  BY <1>1, <1>2 DEF Row, RowOf
<1>5. row' = [row EXCEPT ![j] = r]
  BY <1>3 DEF Commit
<1> QED
  BY <1>1, <1>2, <1>3, <1>4, <1>5 DEF Commit

-----------------------------------------------------------------------------
(***************************************************************************)
(* Types                                                                   *)
(***************************************************************************)
LEMMA TypeStep == TypeOK /\ [Next]_vars => TypeOK'
<1> SUFFICES ASSUME TypeOK, [Next]_vars PROVE TypeOK'
  OBVIOUS
<1>1. ASSUME NEW w \in Workers, NEW j \in Jobs, Select(w, j), tasks' \in [Jobs -> Nat]
      PROVE TypeOK'
  BY <1>1 DEF TypeOK, Select, Worker
<1>2. ASSUME NEW w \in Workers, SchedulerSelect(w) PROVE TypeOK'
  BY <1>1, <1>2 DEF SchedulerSelect, TypeOK
<1>3. ASSUME NEW w \in Workers, NEW j \in Jobs, TaskSelect(w, j) PROVE TypeOK'
  <2>1. tasks' \in [Jobs -> Nat]
    BY <1>3 DEF TaskSelect, TypeOK
  <2> QED BY <1>1, <1>3, <2>1 DEF TaskSelect
<1>4. ASSUME NEW w \in Workers, NEW j \in Jobs, TaskSkip(w, j) PROVE TypeOK'
  BY <1>4 DEF TaskSkip, TypeOK
<1>5. ASSUME NEW w \in Workers, Claim(w) PROVE TypeOK'
  <2> DEFINE j == worker[w].job
             seen == worker[w].seen
             new == Update(row[j], seen, ClaimedRow(seen))
  <2>1. j \in Jobs /\ seen \in Row /\ row[j] \in Row /\ row[j].cursor < Batches[j]
    BY DEF TypeOK, Worker
  <2>2. new \in Row /\ new.cursor = row[j].cursor
    BY <2>1, UpdateRow, WrittenRows
  <2>3. row' = [row EXCEPT ![j] = new]
    BY <1>5 DEF Claim, Commit
  <2>4. worker' \in [Workers -> Worker]
    BY <1>5, InitialValues DEF Claim, Commit, TypeOK, Worker
  <2> HIDE DEF new
  <2> QED BY <1>5, <2>1, <2>2, <2>3, <2>4 DEF Claim, Commit, TypeOK
<1>6. ASSUME NEW w \in Workers, Load(w) \/ Reload(w) PROVE TypeOK'
  <2>1. row[worker[w].job] \in Row /\ row[worker[w].job].cursor \in Nat
    BY DEF TypeOK, Worker, Row
  <2>2. worker' \in [Workers -> Worker]
    <3>1. CASE Load(w)
      BY <3>1, <2>1 DEF Load, TypeOK, Worker
    <3>2. CASE Reload(w)
      BY <3>2, <2>1 DEF Reload, TypeOK, Worker
    <3> QED BY <1>6, <3>1, <3>2
  <2> QED BY <1>6, <2>2 DEF Load, Reload, TypeOK
<1>7. ASSUME NEW w \in Workers, NEW new \in Row, worker[w].pc = "loaded",
             new.cursor < Batches[worker[w].job],
             Outcome(w, new), fetched' \in [Jobs -> SUBSET Nat]
      PROVE TypeOK'
  <2>1. PICK r \in Row :
          /\ row' = [row EXCEPT ![worker[w].job] = r]
          /\ r.cursor \in {row[worker[w].job].cursor, new.cursor}
    BY <1>7, OutcomeRow
  <2> QED BY <1>7, <2>1, OutcomeRow, InitialValues DEF TypeOK
<1>8. ASSUME NEW w \in Workers, Continue(w) \/ Complete(w) \/ Fail(w) PROVE TypeOK'
  <2>1. /\ worker[w].seen \in Row /\ worker[w].page \in Nat /\ worker[w].job \in Jobs
        /\ 0 < Batches[worker[w].job]
    BY BatchesAssumption DEF TypeOK, Worker
  <2>2. fetched' \in [Jobs -> SUBSET Nat]
    BY <1>8, <2>1 DEF Continue, Complete, Fail, Fetch, TypeOK
  <2>3. CASE Continue(w)
    BY <2>1, <2>2, <2>3, <1>7, WrittenRows DEF Continue, MorePages
  <2>4. CASE Complete(w)
    BY <2>1, <2>2, <2>4, <1>7, WrittenRows DEF Complete
  <2>5. CASE Fail(w)
    BY <2>1, <2>2, <2>5, <1>7, WrittenRows DEF Fail
  <2> QED BY <1>8, <2>3, <2>4, <2>5
<1>9. ASSUME NEW w \in Workers, RowGone(w) PROVE TypeOK'
  BY <1>9, InitialValues DEF RowGone, TypeOK
<1>10. ASSUME NEW w \in Workers, RunEscapes(w) PROVE TypeOK'
  <2>1. lost' \subseteq Jobs
    BY <1>10 DEF RunEscapes, TypeOK, Worker
  <2>2. faults' \in 0..MaxFaults
    BY <1>10, MaxFaultsAssumption DEF RunEscapes, TypeOK
  <2>3. worker' \in [Workers -> Worker]
    BY <1>10, InitialValues DEF RunEscapes, TypeOK
  <2> QED BY <1>10, <2>1, <2>2, <2>3 DEF RunEscapes, TypeOK
<1>11. ASSUME NEW o \in Operators, NEW j \in Jobs, NEW kind \in {"cancel", "retry"},
              CallRead(o, j, kind) PROVE TypeOK'
  BY <1>11 DEF CallRead, TypeOK, Call
<1>12. ASSUME NEW o \in Operators, CallWrite(o) PROVE TypeOK'
  <2> DEFINE j == call[o].job
             seen == call[o].seen
             new == IF call[o].kind = "cancel" THEN CancelledRow(seen) ELSE RetriedRow(seen)
             written == Update(row[j], seen, new)
  <2>1. j \in Jobs /\ seen \in Row /\ row[j] \in Row /\ row[j].cursor < Batches[j]
    BY DEF TypeOK, Call
  <2>2. new \in Row /\ new.cursor = seen.cursor
    BY <2>1, WrittenRows
  <2>3. written \in Row /\ written.cursor = row[j].cursor
    BY <2>1, <2>2, UpdateRow
  <2>4. row' = [row EXCEPT ![j] = written]
    BY <1>12 DEF CallWrite
  <2> HIDE DEF written
  <2>5. row' \in [Jobs -> Row] /\ \A i \in Jobs : row'[i].cursor < Batches[i]
    BY <2>1, <2>3, <2>4 DEF TypeOK
  <2>6. tasks' \in [Jobs -> Nat] /\ retried' \in [Jobs -> Nat]
    <3>1. CASE call[o].kind = "retry"
      BY <1>12, <2>1, <3>1 DEF CallWrite, TypeOK
    <3>2. CASE call[o].kind # "retry"
      BY <1>12, <2>1, <3>2 DEF CallWrite, TypeOK
    <3> QED BY <3>1, <3>2
  <2> QED BY <1>12, <2>5, <2>6, InitialValues DEF CallWrite, TypeOK
<1>13. ASSUME NEW o \in Operators, DeleteSource(o) \/ ToggleSource(o) PROVE TypeOK'
  <2>1. call' \in [Operators -> Call]
    BY <1>13, InitialValues DEF DeleteSource, ToggleSource, SourceCall, TypeOK
  <2>2. row' \in [Jobs -> Row] /\ \A i \in Jobs : row'[i].cursor < Batches[i]
    BY <1>13, InitialValues, BatchesAssumption DEF DeleteSource, ToggleSource, TypeOK
  <2> QED BY <1>13, <2>1, <2>2 DEF DeleteSource, ToggleSource, SourceCall, TypeOK
<1>14. ASSUME NEW j \in Jobs, Create(j) PROVE TypeOK'
  <2>1. NewRow.cursor = 0 /\ Batches[j] > 0
    BY BatchesAssumption DEF NewRow
  <2> QED BY <1>14, <2>1, InitialValues DEF Create, TypeOK
<1>15. ASSUME NEW j \in Jobs, RetryDue(j) PROVE TypeOK'
  BY <1>15 DEF RetryDue, TypeOK, Row
<1>16. CASE Crash
  <2>1. worker' \in [Workers -> Worker]
    BY <1>16, InitialValues DEF Crash
  <2>2. lost' \subseteq Jobs
    BY <1>16 DEF Crash, TypeOK
  <2>3. faults' \in 0..MaxFaults
    BY <1>16, MaxFaultsAssumption DEF Crash, TypeOK
  <2>4. call' \in [Operators -> Call]
    BY <1>16, InitialValues DEF Crash, TypeOK
  <2> QED BY <1>16, <2>1, <2>4, <2>2, <2>3 DEF Crash, TypeOK
<1>17. CASE UNCHANGED vars
  BY <1>17 DEF vars, TypeOK
<1> QED
  BY <1>2, <1>3, <1>4, <1>5, <1>6, <1>8, <1>9, <1>10, <1>11, <1>12, <1>13, <1>14,
     <1>15, <1>16, <1>17 DEF Next, WorkerStep, CallStep

\* The rows, workers and calls keep their types, and a stored page cursor stays
\* inside the window of its job.
THEOREM TypeCorrect == Spec => []TypeOK
<1>1. Init => TypeOK
  BY InitialValues, BatchesAssumption, MaxFaultsAssumption DEF Init, TypeOK, AbsentRow
<1>2. TypeOK /\ [Next]_vars => TypeOK'
  BY TypeStep
<1> QED
  BY <1>1, <1>2, PTL DEF Spec
-----------------------------------------------------------------------------
(***************************************************************************)
(* Row locks                                                               *)
(***************************************************************************)
\* From the locked select to the commit of the claim nobody else writes the row,
\* and no other worker has selected it.
SelectedIsCurrent ==
  RowLocks =>
    \A w \in Workers : worker[w].pc = "selected" =>
      /\ worker[w].seen = row[worker[w].job]
      /\ Runnable(row[worker[w].job])
      /\ \A v \in Workers :
           worker[v].pc = "selected" /\ worker[v].job = worker[w].job => v = w

LEMMA SelectedStep ==
  TypeOK /\ SelectedIsCurrent /\ [Next]_vars => SelectedIsCurrent'
<1> SUFFICES ASSUME TypeOK, SelectedIsCurrent, [Next]_vars, RowLocks
             PROVE  SelectedIsCurrent'
  BY DEF SelectedIsCurrent
<1>1. ASSUME NEW w \in Workers, NEW j \in Jobs, Select(w, j)
      PROVE  SelectedIsCurrent'
  BY <1>1 DEF Select, Locked, HoldsLock, SelectedIsCurrent, TypeOK, Runnable
\* A step of w that only moves w away from "selected", or leaves it elsewhere.
<1>2. ASSUME NEW w \in Workers, UNCHANGED row,
             \E next : worker' = [worker EXCEPT ![w] = next] /\ next.pc # "selected"
      PROVE  SelectedIsCurrent'
  BY <1>2 DEF SelectedIsCurrent, TypeOK, Runnable
<1>3. ASSUME NEW w \in Workers, NEW new, NEW next, next.pc # "selected",
             Commit(w, new, next)
      PROVE  SelectedIsCurrent'
  BY <1>3 DEF Commit, HoldsLock, SelectedIsCurrent, TypeOK, Runnable, Worker
<1>4. ASSUME NEW w \in Workers, SchedulerSelect(w) PROVE SelectedIsCurrent'
  BY <1>1, <1>4 DEF SchedulerSelect
<1>5. ASSUME NEW w \in Workers, NEW j \in Jobs, TaskSelect(w, j)
      PROVE  SelectedIsCurrent'
  BY <1>1, <1>5 DEF TaskSelect
<1>6. ASSUME NEW w \in Workers, Claim(w) PROVE SelectedIsCurrent'
  BY <1>3, <1>6 DEF Claim
<1>7. ASSUME NEW w \in Workers, Load(w) \/ Reload(w) PROVE SelectedIsCurrent'
  <2>1. CASE Load(w)
    <3> DEFINE r == row[worker[w].job]
               next == [pc |-> "loaded", job |-> worker[w].job, seen |-> r, page |-> r.cursor]
    <3>1. worker' = [worker EXCEPT ![w] = next] /\ next.pc = "loaded"
      BY <2>1 DEF Load
    <3> HIDE DEF next
    <3> QED BY <1>2, <2>1, <3>1 DEF Load
  <2>2. CASE Reload(w)
    <3> DEFINE next == [worker[w] EXCEPT !.seen = row[worker[w].job]]
    <3>1. worker' = [worker EXCEPT ![w] = next] /\ next.pc = "loaded"
      BY <2>2 DEF Reload, TypeOK, Worker
    <3> HIDE DEF next
    <3> QED BY <1>2, <2>2, <3>1 DEF Reload
  <2> QED BY <1>7, <2>1, <2>2
<1>8. ASSUME NEW w \in Workers, NEW new, Outcome(w, new) PROVE SelectedIsCurrent'
  <2>1. IdleWorker.pc # "selected"
    BY InitialValues
  <2> QED BY <1>3, <1>8, <2>1 DEF Outcome
<1>9. ASSUME NEW w \in Workers, Continue(w) \/ Complete(w) \/ Fail(w)
      PROVE  SelectedIsCurrent'
  BY <1>8, <1>9 DEF Continue, Complete, Fail
<1>10. ASSUME NEW w \in Workers, RowGone(w) \/ RunEscapes(w) PROVE SelectedIsCurrent'
  BY <1>2, <1>10, InitialValues DEF RowGone, RunEscapes
<1>11. ASSUME NEW o \in Operators, CallWrite(o) PROVE SelectedIsCurrent'
  BY <1>11 DEF CallWrite, Locked, HoldsLock, SelectedIsCurrent, TypeOK, Call, Worker, Runnable
<1>12. ASSUME NEW o \in Operators, DeleteSource(o) PROVE SelectedIsCurrent'
  BY <1>12 DEF DeleteSource, Locked, HoldsLock, SelectedIsCurrent, TypeOK, Worker
<1>13. ASSUME NEW j \in Jobs, Create(j) PROVE SelectedIsCurrent'
  <2>1. \A w \in Workers : worker[w].pc = "selected" => worker[w].job # j
    BY <1>13 DEF Create, SelectedIsCurrent, Runnable, RunnableStatuses
  <2> QED BY <1>13, <2>1 DEF Create, SelectedIsCurrent, TypeOK, Worker, Runnable
<1>14. ASSUME NEW j \in Jobs, RetryDue(j) PROVE SelectedIsCurrent'
  <2>1. \A w \in Workers : worker[w].pc = "selected" => worker[w].job # j
    BY <1>14 DEF RetryDue, SelectedIsCurrent, Runnable
  <2> QED BY <1>14, <2>1 DEF RetryDue, SelectedIsCurrent, TypeOK, Worker, Runnable
<1>15. CASE Crash
  BY <1>15, InitialValues DEF Crash, SelectedIsCurrent
<1>16. ASSUME UNCHANGED <<row, worker>> PROVE SelectedIsCurrent'
  BY <1>16 DEF SelectedIsCurrent, Runnable
<1> QED
  BY <1>4, <1>5, <1>6, <1>7, <1>9, <1>10, <1>11, <1>12, <1>13, <1>14, <1>15, <1>16
  DEF Next, WorkerStep, CallStep, TaskSkip, CallRead, ToggleSource, vars

\* A claim takes a job that waits, and counts one attempt.
LEMMA ClaimOfSelected ==
  ASSUME TypeOK, SelectedIsCurrent, RowLocks, NEW w \in Workers, Claim(w)
  PROVE  LET j == worker[w].job IN
         /\ j \in Jobs
         /\ row[j].status \in RunnableStatuses
         /\ row' = [row EXCEPT ![j] = row'[j]]
         /\ row'[j].status = "running"
         /\ row'[j].attempts = row[j].attempts + 1
<1> DEFINE j == worker[w].job
           seen == worker[w].seen
<1>1. j \in Jobs /\ seen \in Row /\ seen.attempts \in Nat
  BY DEF TypeOK, Worker, Row
<1>2. seen = row[j] /\ row[j].status \in RunnableStatuses
  BY DEF Claim, SelectedIsCurrent, Runnable
<1>3. row' = [row EXCEPT ![j] = Update(row[j], seen, ClaimedRow(seen))]
  BY DEF Claim, Commit
<1>4. row'[j] = Update(row[j], seen, ClaimedRow(seen))
  BY <1>1, <1>3 DEF TypeOK
<1>5. /\ row'[j].status = "running"
      /\ row'[j].attempts = row[j].attempts + 1
  BY <1>1, <1>2, <1>4 DEF Update, Column, ClaimedRow, RowOf, RunnableStatuses
<1> QED BY <1>1, <1>2, <1>3, <1>4, <1>5

\* On PostgreSQL a claim never overwrites a cancellation, a deletion or another
\* claim, and counts as one attempt (_claim_job).
THEOREM ClaimsAreExclusive == Spec => ClaimTakesWaitingJob
<1>1. Init => SelectedIsCurrent
  BY InitialValues DEF Init, SelectedIsCurrent
<1>2. TypeOK /\ SelectedIsCurrent /\ [Next]_vars
        => [\A j \in Jobs : RowLocks /\ Claimed(j) =>
              /\ row[j].status \in RunnableStatuses
              /\ row'[j].attempts = row[j].attempts + 1]_vars
  <2> SUFFICES ASSUME TypeOK, SelectedIsCurrent, Next, RowLocks,
                      NEW j \in Jobs, NEW w \in Workers,
                      worker[w].pc = "selected", worker[w].job = j,
                      worker'[w].pc = "claimed"
               PROVE  /\ row[j].status \in RunnableStatuses
                      /\ row'[j].attempts = row[j].attempts + 1
    BY DEF Claimed
  <2>1. \A v \in Workers : Claim(v) => v = w
    BY DEF Claim, Commit, TypeOK
  <2>2. Claim(w)
    <3>1. ASSUME NEW v \in Workers, WorkerStep(v) PROVE Claim(w)
      <4>1. ASSUME NEW new, Outcome(v, new) PROVE FALSE
        BY <4>1, InitialValues DEF Outcome, Commit, TypeOK
      <4> QED BY <3>1, <2>1, <4>1, InitialValues
              DEF WorkerStep, SchedulerSelect, TaskSelect, Select, TaskSkip, Load, Reload,
                  Continue, Complete, Fail, RowGone, RunEscapes, TypeOK
    <3>2. ~UNCHANGED worker
      OBVIOUS
    <3>3. ~Crash
      BY InitialValues DEF Crash
    <3> QED BY <3>1, <3>2, <3>3
            DEF Next, CallStep, CallRead, CallWrite, DeleteSource, ToggleSource, Create, RetryDue
  <2> QED BY <2>2, ClaimOfSelected
<1> QED
  BY <1>1, <1>2, TypeCorrect, SelectedStep, PTL DEF Spec, ClaimTakesWaitingJob
-----------------------------------------------------------------------------
(***************************************************************************)
(* Coverage of the window                                                  *)
(***************************************************************************)
\* A page cursor, stored or in a worker, has every batch before it read.
WindowInv ==
  /\ \A j \in Jobs :
       /\ fetched[j] \subseteq 0..(Batches[j] - 1)
       /\ 0..(row[j].cursor - 1) \subseteq fetched[j]
  /\ \A w \in Workers : worker[w].pc = "loaded" =>
       /\ worker[w].page < Batches[worker[w].job]
       /\ 0..(worker[w].page - 1) \subseteq fetched[worker[w].job]
  /\ CompletedCoversWindow

LEMMA WindowStep == TypeOK /\ WindowInv /\ [Next]_vars => WindowInv'
<1> SUFFICES ASSUME TypeOK, WindowInv, [Next]_vars PROVE WindowInv'
  OBVIOUS
\* No batch is read, no row gets a new cursor or becomes completed, no worker loads.
<1>1. ASSUME UNCHANGED fetched,
             \A j \in Jobs : row'[j].cursor = row[j].cursor \/ row'[j].cursor = 0,
             \A j \in Jobs : row'[j].status = "completed" => row[j].status = "completed",
             \A w \in Workers : worker'[w].pc = "loaded" =>
               /\ worker[w].pc = "loaded"
               /\ worker'[w].page = worker[w].page /\ worker'[w].job = worker[w].job
      PROVE  WindowInv'
  <2>1. ASSUME NEW j \in Jobs PROVE 0..(row'[j].cursor - 1) \subseteq fetched'[j]
    <3>1. CASE row'[j].cursor = row[j].cursor
      BY <1>1, <3>1 DEF WindowInv
    <3>2. CASE row'[j].cursor = 0
      <4>1. 0..(row'[j].cursor - 1) = {}
        BY <3>2
      <4> QED BY <4>1
    <3> QED BY <1>1, <3>1, <3>2
  <2>2. CompletedCoversWindow'
    <3>1. ASSUME NEW j \in Jobs, row'[j].status = "completed"
          PROVE  fetched'[j] = 0..(Batches[j] - 1)
      <4>1. row[j].status = "completed" /\ fetched' = fetched
        BY <1>1, <3>1
      <4> QED BY <4>1 DEF WindowInv, CompletedCoversWindow
    <3> QED BY <3>1 DEF CompletedCoversWindow
  <2> QED BY <1>1, <2>1, <2>2 DEF WindowInv
<1>2. ASSUME NEW w \in Workers, NEW j \in Jobs, Select(w, j) PROVE WindowInv'
  BY <1>1, <1>2 DEF Select, TypeOK
<1>3. ASSUME NEW w \in Workers, Claim(w) PROVE WindowInv'
  <2> DEFINE j == worker[w].job
             seen == worker[w].seen
             new == Update(row[j], seen, ClaimedRow(seen))
  <2>1. j \in Jobs /\ seen \in Row /\ row[j] \in Row
    BY DEF TypeOK, Worker
  <2>2. new.cursor = row[j].cursor /\ (new.status = "completed" => row[j].status = "completed")
    BY <2>1, UpdateRow, WrittenRows
  <2>3. row' = [row EXCEPT ![j] = new] /\ UNCHANGED fetched
    BY <1>3 DEF Claim, Commit
  <2>4. \A v \in Workers : worker'[v].pc = "loaded" => worker'[v] = worker[v]
    BY <1>3 DEF Claim, Commit, TypeOK
  <2> HIDE DEF new
  <2> QED BY <1>1, <2>1, <2>2, <2>3, <2>4 DEF TypeOK
<1>4. ASSUME NEW w \in Workers, Load(w) PROVE WindowInv'
  <2> DEFINE j == worker[w].job
  <2>1. j \in Jobs /\ row[j].cursor < Batches[j] /\ 0..(row[j].cursor - 1) \subseteq fetched[j]
    BY DEF TypeOK, Worker, WindowInv
  <2>2. \A v \in Workers : v # w => worker'[v] = worker[v]
    BY <1>4 DEF Load, TypeOK
  <2>3. worker'[w].page = row[j].cursor /\ worker'[w].job = j
    BY <1>4 DEF Load, TypeOK
  <2> QED BY <1>4, <2>1, <2>2, <2>3 DEF Load, WindowInv, CompletedCoversWindow
<1>5. ASSUME NEW w \in Workers, Reload(w) PROVE WindowInv'
  <2>1. \A v \in Workers :
          worker'[v].pc = worker[v].pc /\ worker'[v].page = worker[v].page
            /\ worker'[v].job = worker[v].job
    BY <1>5 DEF Reload, TypeOK, Worker
  <2> QED BY <1>1, <1>5, <2>1 DEF Reload
\* What an outcome of w writes to the row of its job.
<1>6. ASSUME NEW w \in Workers, worker[w].pc = "loaded", NEW new \in Row, Outcome(w, new)
      PROVE  /\ worker[w].job \in Jobs
             /\ \A i \in Jobs : i # worker[w].job => row'[i] = row[i]
             /\ row'[worker[w].job].cursor \in {row[worker[w].job].cursor, new.cursor}
             /\ row'[worker[w].job].status \in {row[worker[w].job].status, new.status}
             /\ \A v \in Workers : worker'[v].pc = "loaded" => worker'[v] = worker[v]
  BY <1>6, OutcomeRow, InitialValues DEF TypeOK
<1>7. ASSUME NEW w \in Workers, Fail(w) PROVE WindowInv'
  <2> DEFINE new == FailedRow(worker[w].seen)
  <2>1. new \in Row /\ new.status # "completed" /\ new.cursor = 0
    BY WrittenRows DEF TypeOK, Worker
  <2>2. worker[w].pc = "loaded" /\ Outcome(w, new) /\ UNCHANGED fetched
    BY <1>7 DEF Fail
  <2> HIDE DEF new
  <2> QED BY <2>1, <2>2, <1>1, <1>6
<1>8. ASSUME NEW w \in Workers, Continue(w) \/ Complete(w) PROVE WindowInv'
  <2> DEFINE j == worker[w].job
             page == worker[w].page
  <2>1. /\ worker[w].pc = "loaded" /\ worker[w].seen \in Row /\ j \in Jobs
        /\ page \in Nat /\ page < Batches[j] /\ Batches[j] \in Nat
        /\ 0..(page - 1) \subseteq fetched[j] /\ fetched[j] \subseteq 0..(Batches[j] - 1)
    BY <1>8, BatchesAssumption DEF Continue, Complete, TypeOK, Worker, WindowInv
  <2>2. /\ fetched' = [fetched EXCEPT ![j] = @ \cup {page}]
        /\ 0..page \subseteq fetched'[j]
        /\ fetched'[j] \subseteq 0..(Batches[j] - 1)
        /\ \A i \in Jobs : fetched[i] \subseteq fetched'[i]
        /\ \A i \in Jobs : i # j => fetched'[i] = fetched[i]
    <3>1. fetched' = [fetched EXCEPT ![j] = @ \cup {page}]
      BY <1>8 DEF Continue, Complete, Fetch
    <3>2. fetched'[j] = fetched[j] \cup {page}
      BY <3>1, <2>1 DEF TypeOK
    <3>3. 0..page = 0..(page - 1) \cup {page}
      BY <2>1
    <3> QED BY <3>1, <3>2, <3>3, <2>1 DEF TypeOK
  <2>3. PICK new \in Row :
          /\ Outcome(w, new)
          /\ \/ new.cursor = page + 1 /\ new.status # "completed"
             \/ new.cursor = 0 /\ 0..page = 0..(Batches[j] - 1)
    <3>1. CASE Continue(w)
      BY <3>1, <2>1, WrittenRows DEF Continue
    <3>2. CASE Complete(w)
      <4>1. page = Batches[j] - 1
        BY <3>2, <2>1 DEF Complete, MorePages
      <4> QED BY <3>2, <2>1, <4>1, WrittenRows DEF Complete
    <3> QED BY <1>8, <3>1, <3>2
  <2>4. \A i \in Jobs : 0..(row'[i].cursor - 1) \subseteq fetched'[i]
    <3>1. \A i \in Jobs : i # j => row'[i] = row[i]
      BY <2>1, <2>3, <1>6
    <3>2. row'[j].cursor \in {row[j].cursor, page + 1, 0}
      BY <2>1, <2>3, <1>6
    <3>3. 0..(row[j].cursor - 1) \subseteq fetched'[j]
      BY <2>1, <2>2 DEF WindowInv
    <3>4. 0..(row'[j].cursor - 1) \subseteq fetched'[j]
      BY <2>1, <2>2, <3>2, <3>3
    <3> QED BY <2>2, <3>1, <3>4 DEF WindowInv
  <2>5. CompletedCoversWindow'
    <3>1. ASSUME NEW i \in Jobs, row'[i].status = "completed", i # j
          PROVE  fetched'[i] = 0..(Batches[i] - 1)
      BY <3>1, <2>1, <2>2, <2>3, <1>6 DEF WindowInv, CompletedCoversWindow
    <3>2. ASSUME row'[j].status = "completed"
          PROVE  fetched'[j] = 0..(Batches[j] - 1)
      <4>1. CASE row[j].status = "completed"
        BY <4>1, <2>1, <2>2 DEF WindowInv, CompletedCoversWindow
      <4>2. CASE row[j].status # "completed"
        BY <4>2, <3>2, <2>1, <2>2, <2>3, <1>6
      <4> QED BY <4>1, <4>2
    <3> QED BY <3>1, <3>2 DEF CompletedCoversWindow
  <2>6. \A i \in Jobs : fetched'[i] \subseteq 0..(Batches[i] - 1)
    BY <2>2 DEF WindowInv
  <2>7. \A v \in Workers : worker'[v].pc = "loaded" => worker'[v] = worker[v] /\ worker[v].job \in Jobs
    BY <2>1, <2>3, <1>6 DEF TypeOK, Worker
  <2>8. \A v \in Workers : worker'[v].pc = "loaded" =>
          /\ worker'[v].page < Batches[worker'[v].job]
          /\ 0..(worker'[v].page - 1) \subseteq fetched'[worker'[v].job]
    BY <2>2, <2>7 DEF WindowInv
  <2> QED BY <2>4, <2>5, <2>6, <2>8 DEF WindowInv
<1>9. ASSUME NEW w \in Workers, RowGone(w) \/ RunEscapes(w) PROVE WindowInv'
  <2>1. \A v \in Workers : worker'[v].pc = "loaded" => worker'[v] = worker[v]
    BY <1>9, InitialValues DEF RowGone, RunEscapes, TypeOK
  <2> QED BY <1>1, <1>9, <2>1 DEF RowGone, RunEscapes
<1>10. ASSUME NEW o \in Operators, CallWrite(o) PROVE WindowInv'
  <2> DEFINE j == call[o].job
             seen == call[o].seen
             new == IF call[o].kind = "cancel" THEN CancelledRow(seen) ELSE RetriedRow(seen)
             written == Update(row[j], seen, new)
  <2>1. j \in Jobs /\ seen \in Row /\ row[j] \in Row
    BY DEF TypeOK, Call
  <2>2. new \in Row /\ new.cursor = seen.cursor /\ new.status # "completed"
    BY <2>1, WrittenRows
  <2>3. /\ written.cursor = row[j].cursor
        /\ written.status = "completed" => row[j].status = "completed"
    BY <2>1, <2>2, UpdateRow
  <2>4. row' = [row EXCEPT ![j] = written] /\ UNCHANGED <<worker, fetched>>
    BY <1>10 DEF CallWrite
  <2> HIDE DEF written
  <2> QED BY <1>1, <2>1, <2>3, <2>4 DEF TypeOK
<1>11. ASSUME NEW o \in Operators, DeleteSource(o) PROVE WindowInv'
  <2>1. DeletedRow.status # "completed"
    BY InitialValues
  <2> QED BY <1>1, <1>11, <2>1, InitialValues DEF DeleteSource
<1>12. ASSUME NEW j \in Jobs, Create(j) PROVE WindowInv'
  <2>1. NewRow.cursor = 0 /\ NewRow.status # "completed"
    BY DEF NewRow
  <2> QED BY <1>1, <1>12, <2>1 DEF Create, TypeOK
<1>13. ASSUME NEW j \in Jobs, RetryDue(j) PROVE WindowInv'
  <2>1. \A i \in Jobs : row'[i].cursor = row[i].cursor /\ row'[i].status = row[i].status
    BY <1>13 DEF RetryDue, TypeOK, Row
  <2> QED BY <1>1, <1>13, <2>1 DEF RetryDue
<1>14. CASE Crash
  BY <1>1, <1>14, InitialValues DEF Crash
<1>15. ASSUME UNCHANGED <<row, worker, fetched>> PROVE WindowInv'
  BY <1>15 DEF WindowInv, CompletedCoversWindow
<1> QED
  BY <1>2, <1>3, <1>4, <1>5, <1>7, <1>8, <1>9, <1>10, <1>11, <1>12, <1>13, <1>14, <1>15
  DEF Next, WorkerStep, CallStep, SchedulerSelect, TaskSelect, TaskSkip, CallRead,
      ToggleSource, vars

\* A completed job has read its whole window, for any number of jobs, workers,
\* cancellations, retries and crashes, with and without row locks.
THEOREM CompletedWindows == Spec => []CompletedCoversWindow
<1>1. Init => WindowInv
  BY InitialValues DEF Init, WindowInv, CompletedCoversWindow, AbsentRow
<1>2. WindowInv => CompletedCoversWindow
  BY DEF WindowInv
<1> QED
  BY <1>1, <1>2, TypeCorrect, WindowStep, PTL DEF Spec
-----------------------------------------------------------------------------
(***************************************************************************)
(* No running row without a worker that will end it                        *)
(***************************************************************************)
Ends(w, j) ==
  /\ Runs(w, j)
  /\ worker[w].pc = "loaded" => worker[w].seen.status = "running"

LEMMA OrphanStep == TypeOK /\ NoOrphanedRunning /\ [Next]_vars => NoOrphanedRunning'
<1> SUFFICES ASSUME TypeOK, NoOrphanedRunning, [Next]_vars,
                    NEW j \in Jobs, j \notin lost', row'[j].status = "running"
             PROVE  \E v \in Workers : Ends(v, j)'
  BY DEF NoOrphanedRunning, Ends, Runs
<1> DEFINE Goal == \E v \in Workers : Ends(v, j)'
\* Nothing happens to the workers that run a job.
<1>1. ASSUME row[j].status = "running", lost \subseteq lost',
             \A v \in Workers : Ends(v, j) => Ends(v, j)'
      PROVE  Goal
  BY <1>1 DEF NoOrphanedRunning, Ends, Runs
<1>2. ASSUME NEW w \in Workers, NEW i \in Jobs, Select(w, i) PROVE Goal
  <2>1. \A v \in Workers : Ends(v, j) => v # w /\ worker'[v] = worker[v]
    BY <1>2 DEF Select, Ends, Runs, TypeOK
  <2> QED BY <1>1, <1>2, <2>1 DEF Select, Ends, Runs
<1>3. ASSUME NEW w \in Workers, Claim(w) PROVE Goal
  <2>1. worker'[w].pc = "claimed" /\ worker'[w].job = worker[w].job
    BY <1>3 DEF Claim, Commit, TypeOK
  <2>2. CASE worker[w].job = j
    BY <2>1, <2>2 DEF Ends, Runs
  <2>3. CASE worker[w].job # j
    <3>1. row'[j] = row[j] /\ UNCHANGED lost
      BY <1>3, <2>3 DEF Claim, Commit, TypeOK, Worker
    <3>2. \A v \in Workers : Ends(v, j) => worker'[v] = worker[v]
      BY <1>3 DEF Claim, Commit, Ends, Runs, TypeOK
    <3> QED BY <1>1, <3>1, <3>2 DEF Ends, Runs
  <2> QED BY <2>2, <2>3
<1>4. ASSUME NEW w \in Workers, Load(w) PROVE Goal
  <2>1. worker'[w].seen = row[worker[w].job] /\ worker'[w].job = worker[w].job
        /\ worker'[w].pc = "loaded"
    BY <1>4 DEF Load, TypeOK
  <2>2. UNCHANGED <<row, lost>> /\ \A v \in Workers \ {w} : worker'[v] = worker[v]
    BY <1>4 DEF Load, TypeOK
  <2> QED BY <1>1, <2>1, <2>2 DEF Ends, Runs
<1>5. ASSUME NEW w \in Workers, Reload(w) PROVE Goal
  <2>1. worker'[w].seen = row[worker[w].job] /\ worker'[w].job = worker[w].job
        /\ worker'[w].pc = "loaded"
    BY <1>5 DEF Reload, TypeOK, Worker
  <2>2. UNCHANGED <<row, lost>> /\ \A v \in Workers \ {w} : worker'[v] = worker[v]
    BY <1>5 DEF Reload, TypeOK
  <2> QED BY <1>1, <2>1, <2>2 DEF Ends, Runs
\* An outcome is not "running"; if it leaves the status alone, w's snapshot was
\* not "running", so w is not the worker that ends the run.
<1>6. ASSUME NEW w \in Workers, worker[w].pc = "loaded", NEW new \in Row,
             new.status # "running", Outcome(w, new)
      PROVE  Goal
  <2> DEFINE i == worker[w].job
  <2>1. /\ i \in Jobs /\ UNCHANGED lost
        /\ \A v \in Workers \ {w} : worker'[v] = worker[v]
    BY <1>6, OutcomeRow DEF TypeOK
  <2>2. PICK r \in Row :
          /\ row' = [row EXCEPT ![i] = r]
          /\ r.status \in {row[i].status, new.status}
          /\ new.status # worker[w].seen.status => r.status = new.status
    BY <1>6, OutcomeRow
  <2>3. CASE i = j
    <3>1. row'[j] = r
      BY <2>1, <2>2, <2>3 DEF TypeOK
    <3>2. row[j].status = "running" /\ worker[w].seen.status # "running"
      BY <3>1, <2>2, <2>3, <1>6
    <3>3. \A v \in Workers : Ends(v, j) => v # w
      BY <3>2, <1>6 DEF Ends
    <3> QED BY <1>1, <2>1, <3>2, <3>3 DEF Ends, Runs
  <2>4. CASE i # j
    <3>1. row'[j] = row[j]
      BY <2>1, <2>2, <2>4 DEF TypeOK
    <3>2. \A v \in Workers : Ends(v, j) => v # w
      BY <2>4 DEF Ends, Runs
    <3> QED BY <1>1, <2>1, <3>1, <3>2 DEF Ends, Runs
  <2> QED BY <2>3, <2>4
<1>7. ASSUME NEW w \in Workers, Continue(w) \/ Complete(w) \/ Fail(w) PROVE Goal
  <2>1. worker[w].seen \in Row /\ worker[w].page \in Nat
    BY DEF TypeOK, Worker
  <2> QED BY <1>7, <2>1, <1>6, WrittenRows DEF Continue, Complete, Fail
<1>8. ASSUME NEW w \in Workers, RowGone(w) PROVE Goal
  <2>1. UNCHANGED <<row, lost>> /\ \A v \in Workers \ {w} : worker'[v] = worker[v]
    BY <1>8 DEF RowGone, TypeOK
  <2>2. worker[w].job # j
    BY <1>8, <2>1 DEF RowGone
  <2> QED BY <1>1, <2>1, <2>2 DEF Ends, Runs
<1>9. ASSUME NEW w \in Workers, RunEscapes(w) PROVE Goal
  <2>1. UNCHANGED row /\ lost \subseteq lost' /\ \A v \in Workers \ {w} : worker'[v] = worker[v]
    BY <1>9 DEF RunEscapes, TypeOK
  <2>2. worker[w].job # j
    BY <1>9 DEF RunEscapes
  <2> QED BY <1>1, <2>1, <2>2 DEF Ends, Runs
<1>10. ASSUME NEW o \in Operators, CallWrite(o) PROVE Goal
  <2> DEFINE i == call[o].job
             seen == call[o].seen
             new == IF call[o].kind = "cancel" THEN CancelledRow(seen) ELSE RetriedRow(seen)
  <2>1. i \in Jobs /\ seen \in Row /\ row[i] \in Row
    BY DEF TypeOK, Call
  <2>2. new \in Row /\ new.status # "running"
    BY <2>1, WrittenRows
  <2>3. row' = [row EXCEPT ![i] = Update(row[i], seen, new)] /\ UNCHANGED <<worker, lost>>
    BY <1>10 DEF CallWrite
  <2>4. Update(row[i], seen, new).status \in {row[i].status, new.status}
    BY <2>1, <2>2, UpdateRow
  <2>5. row[j].status = "running"
    <3> HIDE DEF new
    <3> QED BY <2>1, <2>2, <2>3, <2>4 DEF TypeOK
  <2> QED BY <1>1, <2>3, <2>5 DEF Ends, Runs
<1>11. ASSUME NEW o \in Operators, DeleteSource(o) PROVE Goal
  BY <1>11, InitialValues DEF DeleteSource
<1>12. ASSUME NEW i \in Jobs, Create(i) PROVE Goal
  <2>1. row[j].status = "running" /\ UNCHANGED <<worker, lost>>
    BY <1>12 DEF Create, NewRow, TypeOK
  <2> QED BY <1>1, <2>1 DEF Ends, Runs
<1>13. ASSUME NEW i \in Jobs, RetryDue(i) PROVE Goal
  <2>1. row'[j].status = row[j].status /\ UNCHANGED <<worker, lost>>
    BY <1>13 DEF RetryDue, TypeOK, Row
  <2> QED BY <1>1, <2>1 DEF Ends, Runs
<1>14. CASE Crash
  <2>1. \A v \in Workers : ~Runs(v, j)
    BY <1>14 DEF Crash
  <2>2. row[j].status = "running" /\ lost \subseteq lost'
    BY <1>14 DEF Crash
  <2> QED BY <1>1, <2>1, <2>2 DEF Ends
<1>15. ASSUME UNCHANGED <<row, worker, lost>> PROVE Goal
  BY <1>15, <1>1 DEF Ends, Runs
<1> QED
  BY <1>2, <1>3, <1>4, <1>5, <1>7, <1>8, <1>9, <1>10, <1>11, <1>12, <1>13, <1>14, <1>15
  DEF Next, WorkerStep, CallStep, SchedulerSelect, TaskSelect, TaskSkip, CallRead,
      ToggleSource, vars

\* Unless its run died, a running job has a worker whose UPDATE will change its
\* status, for any interleaving of scheduler, background tasks and API calls and
\* also without row locks.
THEOREM NoOrphans == Spec => []NoOrphanedRunning
<1>1. Init => NoOrphanedRunning
  BY DEF Init, NoOrphanedRunning, AbsentRow
<1> QED
  BY <1>1, TypeCorrect, OrphanStep, PTL DEF Spec
-----------------------------------------------------------------------------
(***************************************************************************)
(* How many runs of a job can go on at once                                *)
(***************************************************************************)
Waits(j) == IF row[j].status \in RunnableStatuses THEN 1 ELSE 0

\* A worker is only ever given a job that was created.
WorkersHaveJobs ==
  \A w \in Workers : worker[w].pc # "idle" => row[worker[w].job].status # "none"

LEMMA WorkersHaveJobsStep ==
  TypeOK /\ WorkersHaveJobs /\ [Next]_vars => WorkersHaveJobs'
<1> SUFFICES ASSUME TypeOK, WorkersHaveJobs, [Next]_vars PROVE WorkersHaveJobs'
  OBVIOUS
\* No job disappears and no worker is given a job.
<1>1. ASSUME \A j \in Jobs : row'[j].status = "none" => row[j].status = "none",
             \A w \in Workers : worker'[w].pc # "idle" =>
               worker[w].pc # "idle" /\ worker'[w].job = worker[w].job
      PROVE  WorkersHaveJobs'
  BY <1>1 DEF WorkersHaveJobs, TypeOK, Worker
<1>2. ASSUME NEW w \in Workers, NEW j \in Jobs, Select(w, j) PROVE WorkersHaveJobs'
  BY <1>2 DEF Select, WorkersHaveJobs, Runnable, RunnableStatuses, TypeOK
<1>3. ASSUME NEW w \in Workers, Claim(w) PROVE WorkersHaveJobs'
  <2> DEFINE j == worker[w].job
             seen == worker[w].seen
             new == Update(row[j], seen, ClaimedRow(seen))
  <2>1. j \in Jobs /\ seen \in Row /\ row[j] \in Row
    BY DEF TypeOK, Worker
  <2>2. new.status = "none" => row[j].status = "none"
    BY <2>1, UpdateRow, WrittenRows
  <2>3. row' = [row EXCEPT ![j] = new]
    BY <1>3 DEF Claim, Commit
  <2>4. \A v \in Workers : worker'[v].pc # "idle" =>
          worker[v].pc # "idle" /\ worker'[v].job = worker[v].job
    BY <1>3 DEF Claim, Commit, TypeOK
  <2> HIDE DEF new
  <2> QED BY <1>1, <2>1, <2>2, <2>3, <2>4 DEF TypeOK
<1>4. ASSUME NEW w \in Workers, Load(w) \/ Reload(w) PROVE WorkersHaveJobs'
  <2>1. UNCHANGED row
    BY <1>4 DEF Load, Reload
  <2>2. \A v \in Workers : worker'[v].pc # "idle" =>
          worker[v].pc # "idle" /\ worker'[v].job = worker[v].job
    <3>1. CASE Load(w)
      BY <3>1 DEF Load, TypeOK
    <3>2. CASE Reload(w)
      BY <3>2 DEF Reload, TypeOK, Worker
    <3> QED BY <1>4, <3>1, <3>2
  <2> QED BY <1>1, <2>1, <2>2
<1>5. ASSUME NEW w \in Workers, worker[w].pc = "loaded", NEW new \in Row,
             new.status # "none", Outcome(w, new)
      PROVE  WorkersHaveJobs'
  <2>1. \A j \in Jobs : row'[j].status = "none" => row[j].status = "none"
    BY <1>5, OutcomeRow DEF TypeOK
  <2>2. \A v \in Workers : worker'[v].pc # "idle" => worker'[v] = worker[v]
    BY <1>5, OutcomeRow, InitialValues DEF TypeOK
  <2> QED BY <1>1, <2>1, <2>2
<1>6. ASSUME NEW w \in Workers, Continue(w) \/ Complete(w) \/ Fail(w) PROVE WorkersHaveJobs'
  <2>1. worker[w].seen \in Row /\ worker[w].page \in Nat
    BY DEF TypeOK, Worker
  <2> QED BY <1>6, <2>1, <1>5, WrittenRows DEF Continue, Complete, Fail
<1>7. ASSUME NEW w \in Workers, RowGone(w) \/ RunEscapes(w) PROVE WorkersHaveJobs'
  <2>1. UNCHANGED row
    BY <1>7 DEF RowGone, RunEscapes
  <2>2. \A v \in Workers : worker'[v].pc # "idle" => worker'[v] = worker[v]
    BY <1>7, InitialValues DEF RowGone, RunEscapes, TypeOK
  <2> QED BY <1>1, <2>1, <2>2
<1>8. ASSUME NEW o \in Operators, CallWrite(o) PROVE WorkersHaveJobs'
  <2> DEFINE i == call[o].job
             seen == call[o].seen
             new == IF call[o].kind = "cancel" THEN CancelledRow(seen) ELSE RetriedRow(seen)
             written == Update(row[i], seen, new)
  <2>1. i \in Jobs /\ seen \in Row /\ row[i] \in Row
    BY DEF TypeOK, Call
  <2>2. new \in Row /\ new.status # "none"
    BY <2>1, WrittenRows
  <2>3. row' = [row EXCEPT ![i] = written] /\ UNCHANGED worker
    BY <1>8 DEF CallWrite
  <2>4. written.status = "none" => row[i].status = "none"
    BY <2>1, <2>2, UpdateRow
  <2> HIDE DEF written
  <2> QED BY <1>1, <2>1, <2>3, <2>4 DEF TypeOK
<1>9. ASSUME NEW o \in Operators, DeleteSource(o) PROVE WorkersHaveJobs'
  BY <1>1, <1>9, InitialValues DEF DeleteSource
<1>10. ASSUME NEW j \in Jobs, Create(j) PROVE WorkersHaveJobs'
  BY <1>1, <1>10 DEF Create, NewRow, TypeOK
<1>11. ASSUME NEW j \in Jobs, RetryDue(j) PROVE WorkersHaveJobs'
  <2>1. \A i \in Jobs : row'[i].status = row[i].status
    BY <1>11 DEF RetryDue, TypeOK, Row
  <2> QED BY <1>1, <1>11, <2>1 DEF RetryDue
<1>12. CASE Crash
  BY <1>12, InitialValues DEF Crash, WorkersHaveJobs
<1>13. ASSUME UNCHANGED <<row, worker>> PROVE WorkersHaveJobs'
  BY <1>13 DEF WorkersHaveJobs
<1> QED
  BY <1>2, <1>3, <1>4, <1>6, <1>7, <1>8, <1>9, <1>10, <1>11, <1>12, <1>13
  DEF Next, WorkerStep, CallStep, SchedulerSelect, TaskSelect, TaskSkip, CallRead,
      ToggleSource, vars
LEMMA RunnersFinite ==
  ASSUME NEW j
  PROVE  IsFiniteSet(Runners(j)) /\ Cardinality(Runners(j)) \in Nat
BY WorkersAssumption, FS_Subset, FS_CardinalityType DEF Runners

LEMMA PermitsStep ==
  TypeOK /\ SelectedIsCurrent /\ WorkersHaveJobs /\ RunnerPermits /\ [Next]_vars
    => RunnerPermits'
<1> SUFFICES ASSUME TypeOK, SelectedIsCurrent, WorkersHaveJobs, RunnerPermits,
                    [Next]_vars, RowLocks, NEW j \in Jobs
             PROVE  Cardinality(Runners(j)') + Waits(j)' <= 1 + retried'[j]
  BY DEF RunnerPermits, Waits
<1> DEFINE Goal == Cardinality(Runners(j)') + Waits(j)' <= 1 + retried'[j]
<1>1. /\ Cardinality(Runners(j)) + Waits(j) <= 1 + retried[j]
      /\ Cardinality(Runners(j)) \in Nat /\ Waits(j) \in {0, 1} /\ Waits(j)' \in {0, 1}
      /\ retried[j] \in Nat /\ IsFiniteSet(Runners(j))
  BY RunnersFinite DEF RunnerPermits, Waits, TypeOK
\* No run starts, and the job is not put back into the queue.
<1>2. ASSUME Runners(j)' \subseteq Runners(j), retried'[j] = retried[j],
             Waits(j)' = 1 => Waits(j) = 1
      PROVE  Goal
  <2>1. Cardinality(Runners(j)') \in Nat /\ Cardinality(Runners(j)') <= Cardinality(Runners(j))
    BY <1>1, <1>2, FS_Subset, FS_CardinalityType
  <2> QED BY <1>1, <1>2, <2>1
<1>3. ASSUME NEW w \in Workers, NEW i \in Jobs, Select(w, i) PROVE Goal
  BY <1>2, <1>3 DEF Select, Runners, Runs, Waits, TypeOK
\* A claim turns the waiting job into one more run.
<1>4. ASSUME NEW w \in Workers, Claim(w) PROVE Goal
  <2>1. /\ worker[w].job \in Jobs
        /\ row[worker[w].job].status \in RunnableStatuses
        /\ row' = [row EXCEPT ![worker[w].job] = row'[worker[w].job]]
        /\ row'[worker[w].job].status = "running"
    BY <1>4, ClaimOfSelected
  <2>2. /\ worker' = [worker EXCEPT ![w] = worker'[w]] /\ UNCHANGED retried
        /\ worker'[w].pc = "claimed" /\ worker'[w].job = worker[w].job
        /\ worker[w].pc = "selected"
    BY <1>4 DEF Claim, Commit, TypeOK
  <2>3. CASE worker[w].job = j
    <3>1. Runners(j)' = Runners(j) \cup {w} /\ w \notin Runners(j)
      BY <2>2, <2>3 DEF Runners, Runs, TypeOK
    <3>2. Cardinality(Runners(j)') = Cardinality(Runners(j)) + 1
      BY <3>1, <1>1, FS_AddElement
    <3>3. Waits(j) = 1 /\ Waits(j)' = 0
      BY <2>1, <2>3 DEF Waits, RunnableStatuses
    <3> QED BY <1>1, <2>2, <3>2, <3>3
  <2>4. CASE worker[w].job # j
    <3>1. row'[j] = row[j]
      BY <2>1, <2>4 DEF TypeOK
    <3> QED BY <1>2, <2>2, <2>4, <3>1 DEF Runners, Runs, Waits, TypeOK
  <2> QED BY <2>3, <2>4
<1>5. ASSUME NEW w \in Workers, Load(w) \/ Reload(w) PROVE Goal
  <2>1. UNCHANGED <<row, retried>>
    BY <1>5 DEF Load, Reload
  <2>2. Runners(j)' \subseteq Runners(j)
    <3>1. CASE Load(w)
      BY <3>1 DEF Load, Runners, Runs, TypeOK
    <3>2. CASE Reload(w)
      BY <3>2 DEF Reload, Runners, Runs, TypeOK, Worker
    <3> QED BY <1>5, <3>1, <3>2
  <2> QED BY <1>2, <2>1, <2>2 DEF Waits
\* The end of a run gives its permit back, at most to the queue.
<1>6. ASSUME NEW w \in Workers, worker[w].pc = "loaded", NEW new \in Row, Outcome(w, new)
      PROVE  Goal
  <2>1. /\ worker[w].job \in Jobs /\ UNCHANGED retried
        /\ worker' = [worker EXCEPT ![w] = IdleWorker]
        /\ \A i \in Jobs : i # worker[w].job => row'[i] = row[i]
    BY <1>6, OutcomeRow DEF TypeOK
  <2>2. Runners(j)' = Runners(j) \ {w}
    BY <2>1, InitialValues DEF Runners, Runs, TypeOK
  <2>3. CASE worker[w].job = j
    <3>1. w \in Runners(j)
      BY <1>6, <2>3 DEF Runners, Runs
    <3>2. Cardinality(Runners(j)') = Cardinality(Runners(j)) - 1
      BY <1>1, <2>2, <3>1, FS_RemoveElement
    <3> QED BY <1>1, <2>1, <3>2
  <2>4. CASE worker[w].job # j
    <3>1. Waits(j)' = Waits(j)
      BY <2>1, <2>4 DEF Waits
    <3> QED BY <1>2, <2>1, <2>2, <3>1
  <2> QED BY <2>3, <2>4
<1>7. ASSUME NEW w \in Workers, Continue(w) \/ Complete(w) \/ Fail(w) PROVE Goal
  <2>1. worker[w].seen \in Row /\ worker[w].page \in Nat
    BY DEF TypeOK, Worker
  <2> QED BY <1>7, <2>1, <1>6, WrittenRows DEF Continue, Complete, Fail
<1>8. ASSUME NEW w \in Workers, RowGone(w) \/ RunEscapes(w) PROVE Goal
  <2>1. UNCHANGED <<row, retried>>
    BY <1>8 DEF RowGone, RunEscapes
  <2>2. Runners(j)' \subseteq Runners(j)
    BY <1>8, InitialValues DEF RowGone, RunEscapes, Runners, Runs, TypeOK
  <2> QED BY <1>2, <2>1, <2>2 DEF Waits
\* A retry adds a permit together with the entry in the queue.
<1>9. ASSUME NEW o \in Operators, CallWrite(o) PROVE Goal
  <2> DEFINE i == call[o].job
             seen == call[o].seen
             new == IF call[o].kind = "cancel" THEN CancelledRow(seen) ELSE RetriedRow(seen)
             written == Update(row[i], seen, new)
  <2>1. i \in Jobs /\ seen \in Row /\ row[i] \in Row /\ call[o].kind \in {"cancel", "retry"}
    BY DEF TypeOK, Call
  <2>2. /\ row' = [row EXCEPT ![i] = written] /\ UNCHANGED worker
        /\ retried' = [retried EXCEPT ![i] = @ + (IF call[o].kind = "retry" THEN 1 ELSE 0)]
    BY <1>9 DEF CallWrite
  <2>3. Runners(j)' = Runners(j)
    BY <2>2 DEF Runners, Runs
  <2>4. CASE i # j
    <3>1. row'[j] = row[j] /\ retried'[j] = retried[j]
      BY <2>1, <2>2, <2>4 DEF TypeOK
    <3> QED BY <1>2, <2>3, <3>1 DEF Waits
  <2>5. CASE i = j /\ call[o].kind = "retry"
    <3>1. retried'[j] = retried[j] + 1
      BY <2>1, <2>2, <2>5 DEF TypeOK
    <3> QED BY <1>1, <2>3, <3>1
  <2>6. CASE i = j /\ call[o].kind = "cancel"
    <3>1. retried'[j] = retried[j]
      BY <2>1, <2>2, <2>6 DEF TypeOK
    <3>2. new \in Row /\ new.status = "cancelled"
      BY <2>1, <2>6, WrittenRows
    <3>3. written.status \in {row[j].status, "cancelled"}
      BY <2>1, <2>6, <3>2, UpdateRow
    <3>4. Waits(j)' = 1 => Waits(j) = 1
      <4>1. row'[j] = written
        BY <2>1, <2>2, <2>6 DEF TypeOK
      <4> HIDE DEF written
      <4> QED BY <3>3, <4>1 DEF Waits, RunnableStatuses
    <3> QED BY <1>2, <2>3, <3>1, <3>4
  <2> QED BY <2>1, <2>4, <2>5, <2>6
<1>10. ASSUME NEW o \in Operators, DeleteSource(o) PROVE Goal
  <2>1. Waits(j)' = 0
    BY <1>10, InitialValues DEF DeleteSource, Waits, RunnableStatuses
  <2> QED BY <1>2, <1>10, <2>1 DEF DeleteSource, Runners, Runs
<1>11. ASSUME NEW i \in Jobs, Create(i) PROVE Goal
  <2>1. UNCHANGED <<worker, retried>> /\ row[i].status = "none"
    BY <1>11 DEF Create
  <2>2. Runners(j)' = Runners(j)
    BY <2>1 DEF Runners, Runs
  <2>3. CASE i = j
    <3>1. Runners(j) = {}
      BY <2>1, <2>3 DEF Runners, Runs, WorkersHaveJobs
    <3> QED BY <1>1, <2>1, <2>2, <3>1, FS_EmptySet
  <2>4. CASE i # j
    <3>1. row'[j] = row[j]
      BY <1>11, <2>4 DEF Create, TypeOK
    <3> QED BY <1>2, <2>1, <2>2, <3>1 DEF Waits
  <2> QED BY <2>3, <2>4
<1>12. ASSUME NEW i \in Jobs, RetryDue(i) PROVE Goal
  <2>1. row'[j].status = row[j].status /\ UNCHANGED <<worker, retried>>
    BY <1>12 DEF RetryDue, TypeOK, Row
  <2> QED BY <1>2, <2>1 DEF Runners, Runs, Waits
<1>13. CASE Crash
  <2>1. Runners(j)' = {}
    BY <1>13, InitialValues DEF Crash, Runners, Runs
  <2> QED BY <1>2, <1>13, <2>1 DEF Crash, Waits
<1>14. ASSUME UNCHANGED <<row, worker, retried>> PROVE Goal
  BY <1>14, <1>2 DEF Runners, Runs, Waits
<1> QED
  BY <1>3, <1>4, <1>5, <1>7, <1>8, <1>9, <1>10, <1>11, <1>12, <1>13, <1>14
  DEF Next, WorkerStep, CallStep, SchedulerSelect, TaskSelect, TaskSkip, CallRead,
      ToggleSource, vars

\* With row locks a job is run once at a time, plus once more for each accepted
\* retry, whatever the scheduler, the background tasks and the operators do.
THEOREM RunsNeedPermits == Spec => []RunnerPermits
<1>1. Init => SelectedIsCurrent /\ WorkersHaveJobs
  BY InitialValues DEF Init, SelectedIsCurrent, WorkersHaveJobs
<1>2. Init => RunnerPermits
  <2> SUFFICES ASSUME Init, NEW j \in Jobs
               PROVE  Cardinality(Runners(j)) + Waits(j) <= 1 + retried[j]
    BY DEF RunnerPermits, Waits
  <2>1. Runners(j) = {}
    BY InitialValues DEF Init, Runners, Runs
  <2>2. Waits(j) = 0 /\ retried[j] = 0
    BY DEF Init, Waits, AbsentRow, RunnableStatuses
  <2> QED BY <2>1, <2>2, FS_EmptySet
<1> QED
  BY <1>1, <1>2, TypeCorrect, SelectedStep, WorkersHaveJobsStep, PermitsStep, PTL DEF Spec
-----------------------------------------------------------------------------
(***************************************************************************)
(* Refinement: with row locks, and when jobs are neither cancelled nor     *)
(* retried nor deleted, each transaction is an atomic step of the job.     *)
(***************************************************************************)
\* A running worker is alone on its job and its snapshot is the row.
RunnerIsCurrent ==
  \A w \in Workers : worker[w].pc \in {"claimed", "loaded"} =>
    /\ row[worker[w].job].status = "running" /\ row[worker[w].job].retry = "none"
    /\ worker[w].pc = "loaded" =>
         /\ worker[w].seen = row[worker[w].job]
         /\ worker[w].page = row[worker[w].job].cursor
    /\ \A v \in Workers :
         worker[v].pc \in {"claimed", "loaded"} /\ worker[v].job = worker[w].job => v = w

NoCallLoaded == \A o \in Operators : call[o].pc # "loaded"

Undisturbed == RowLocks /\ Calls \subseteq {"toggle"}

\* The row a claim writes, and the rows an outcome may write.
LEMMA ClaimWrites ==
  ASSUME TypeOK, SelectedIsCurrent, RowLocks, NEW w \in Workers, Claim(w)
  PROVE  LET j == worker[w].job IN
         /\ j \in Jobs /\ Runnable(row[j])
         /\ row' = [row EXCEPT ![j] = ClaimedRow(row[j])]
         /\ worker' = [worker EXCEPT ![w] =
              [pc |-> "claimed", job |-> j, seen |-> AbsentRow, page |-> 0]]
<1> DEFINE j == worker[w].job
           seen == worker[w].seen
<1>1. j \in Jobs /\ seen \in Row
  BY DEF TypeOK, Worker
<1>2. seen = row[j] /\ Runnable(row[j])
  BY DEF Claim, SelectedIsCurrent
<1>3. Update(row[j], seen, ClaimedRow(seen)) = ClaimedRow(row[j])
  BY <1>1, <1>2 DEF Update, Column, ClaimedRow, RowOf, Row
<1> QED BY <1>1, <1>2, <1>3 DEF Claim, Commit

LEMMA OutcomeWrites ==
  ASSUME TypeOK, RunnerIsCurrent, NEW w \in Workers, worker[w].pc = "loaded",
         NEW new \in Row, Outcome(w, new)
  PROVE  LET j == worker[w].job IN
         /\ j \in Jobs /\ worker[w].seen = row[j] /\ worker[w].page = row[j].cursor
         /\ row' = [row EXCEPT ![j] = new]
         /\ worker' = [worker EXCEPT ![w] = IdleWorker]
<1> DEFINE j == worker[w].job
           seen == worker[w].seen
           written == Update(row[j], seen, new)
<1>1. j \in Jobs /\ row[j] \in Row /\ seen = row[j] /\ worker[w].page = row[j].cursor
  BY DEF TypeOK, Worker, RunnerIsCurrent
<1>2. /\ written.status = new.status /\ written.attempts = new.attempts
      /\ written.cursor = new.cursor /\ written.retry = new.retry
  BY <1>1 DEF Update, Column, Row
<1>3. \E c \in {written.cursor, new.cursor} :
        row' = [row EXCEPT ![j] = RowOf(written.status, written.attempts, c, written.retry)]
  BY DEF Outcome, Commit
<1>4. new = RowOf(new.status, new.attempts, new.cursor, new.retry)
  BY DEF Row, RowOf
<1>5. row' = [row EXCEPT ![j] = new]
  BY <1>2, <1>3, <1>4
<1> QED BY <1>1, <1>5 DEF Outcome, Commit

LEMMA RunnerStep ==
  TypeOK /\ SelectedIsCurrent /\ RunnerIsCurrent /\ NoCallLoaded /\ Undisturbed
    /\ [Next]_vars => RunnerIsCurrent' /\ NoCallLoaded'
<1> SUFFICES ASSUME TypeOK, SelectedIsCurrent, RunnerIsCurrent, NoCallLoaded, Undisturbed,
                    [Next]_vars
             PROVE  RunnerIsCurrent' /\ NoCallLoaded'
  OBVIOUS
<1> DEFINE Goal == RunnerIsCurrent' /\ NoCallLoaded'
<1>1. ASSUME NEW w \in Workers, NEW j \in Jobs, Select(w, j) PROVE Goal
  BY <1>1 DEF Select, RunnerIsCurrent, NoCallLoaded, TypeOK
<1>2. ASSUME NEW w \in Workers, Claim(w) PROVE Goal
  <2> DEFINE j == worker[w].job
  <2>1. /\ j \in Jobs /\ Runnable(row[j]) /\ UNCHANGED call
        /\ row' = [row EXCEPT ![j] = ClaimedRow(row[j])]
        /\ worker' = [worker EXCEPT ![w] =
             [pc |-> "claimed", job |-> j, seen |-> AbsentRow, page |-> 0]]
    BY <1>2, ClaimWrites DEF Claim, Commit, HoldsLock, Undisturbed
  <2>2. ClaimedRow(row[j]).status = "running" /\ ClaimedRow(row[j]).retry = "none"
    BY DEF ClaimedRow, RowOf
  <2>3. \A v \in Workers : worker[v].pc \in {"claimed", "loaded"} => worker[v].job # j
    BY <2>1 DEF RunnerIsCurrent, Runnable, RunnableStatuses
  <2> HIDE DEF j
  <2> QED BY <2>1, <2>2, <2>3 DEF RunnerIsCurrent, NoCallLoaded, TypeOK, Worker
<1>3. ASSUME NEW w \in Workers, Load(w) PROVE Goal
  BY <1>3 DEF Load, RunnerIsCurrent, NoCallLoaded, TypeOK
<1>4. ASSUME NEW w \in Workers, Reload(w) PROVE Goal
  <2>1. worker[w].seen = row[worker[w].job]
    BY <1>4 DEF Reload, RunnerIsCurrent
  <2>2. worker' = worker
    BY <1>4, <2>1 DEF Reload, TypeOK, Worker
  <2> QED BY <1>4, <2>2 DEF Reload, RunnerIsCurrent, NoCallLoaded
<1>5. ASSUME NEW w \in Workers, worker[w].pc = "loaded", NEW new \in Row, Outcome(w, new)
      PROVE  Goal
  <2>1. /\ worker[w].job \in Jobs
        /\ row' = [row EXCEPT ![worker[w].job] = new]
        /\ worker' = [worker EXCEPT ![w] = IdleWorker]
        /\ UNCHANGED call
    BY <1>5, OutcomeWrites, OutcomeRow
  <2>2. \A v \in Workers \ {w} :
          worker[v].pc \in {"claimed", "loaded"} => worker[v].job # worker[w].job
    BY <1>5 DEF RunnerIsCurrent
  <2> QED BY <2>1, <2>2, InitialValues DEF RunnerIsCurrent, NoCallLoaded, TypeOK, Worker
<1>6. ASSUME NEW w \in Workers, Continue(w) \/ Complete(w) \/ Fail(w) PROVE Goal
  <2>1. worker[w].seen \in Row /\ worker[w].page \in Nat
    BY DEF TypeOK, Worker
  <2> QED BY <1>6, <2>1, <1>5, WrittenRows DEF Continue, Complete, Fail
<1>7. ASSUME NEW w \in Workers, RowGone(w) \/ RunEscapes(w) PROVE Goal
  BY <1>7, InitialValues DEF RowGone, RunEscapes, RunnerIsCurrent, NoCallLoaded, TypeOK
<1>8. ASSUME NEW o \in Operators, NEW j \in Jobs, NEW kind, CallRead(o, j, kind) PROVE Goal
  BY <1>8 DEF CallRead, Undisturbed
<1>9. ASSUME NEW o \in Operators, CallWrite(o) PROVE Goal
  BY <1>9 DEF CallWrite, NoCallLoaded
<1>10. ASSUME NEW o \in Operators, DeleteSource(o) PROVE Goal
  BY <1>10 DEF DeleteSource, SourceCall, Undisturbed
<1>11. ASSUME NEW o \in Operators, ToggleSource(o) PROVE Goal
  BY <1>11, InitialValues DEF ToggleSource, SourceCall, RunnerIsCurrent, NoCallLoaded, TypeOK
<1>12. ASSUME NEW j \in Jobs, Create(j) PROVE Goal
  <2>1. \A w \in Workers : worker[w].pc \in {"claimed", "loaded"} => worker[w].job # j
    BY <1>12 DEF Create, RunnerIsCurrent
  <2> QED BY <1>12, <2>1 DEF Create, RunnerIsCurrent, NoCallLoaded, TypeOK, Worker
<1>13. ASSUME NEW j \in Jobs, RetryDue(j) PROVE Goal
  <2>1. \A w \in Workers : worker[w].pc \in {"claimed", "loaded"} => worker[w].job # j
    BY <1>13 DEF RetryDue, RunnerIsCurrent
  <2> QED BY <1>13, <2>1 DEF RetryDue, RunnerIsCurrent, NoCallLoaded, TypeOK, Worker
<1>14. CASE Crash
  <2>1. RunnerIsCurrent'
    BY <1>14, InitialValues DEF Crash, RunnerIsCurrent
  <2>2. NoCallLoaded'
    BY <1>14, InitialValues DEF Crash, NoCallLoaded
  <2> QED BY <2>1, <2>2
<1>15. ASSUME UNCHANGED <<row, worker, call>> PROVE Goal
  BY <1>15 DEF RunnerIsCurrent, NoCallLoaded
<1> QED
  BY <1>1, <1>2, <1>3, <1>4, <1>6, <1>7, <1>8, <1>9, <1>10, <1>11, <1>12, <1>13,
     <1>14, <1>15
  DEF Next, WorkerStep, CallStep, SchedulerSelect, TaskSelect, TaskSkip, vars
\* A job that was not created yet has an empty row.
AbsentIsEmpty ==
  \A j \in Jobs : row[j].status = "none" => row[j].cursor = 0 /\ row[j].attempts = 0

LEMMA AbsentStep ==
  TypeOK /\ SelectedIsCurrent /\ RunnerIsCurrent /\ NoCallLoaded /\ Undisturbed
    /\ AbsentIsEmpty /\ [Next]_vars => AbsentIsEmpty'
<1> SUFFICES ASSUME TypeOK, SelectedIsCurrent, RunnerIsCurrent, NoCallLoaded, Undisturbed,
                    AbsentIsEmpty, [Next]_vars
             PROVE  AbsentIsEmpty'
  OBVIOUS
<1>1. ASSUME UNCHANGED row PROVE AbsentIsEmpty'
  BY <1>1 DEF AbsentIsEmpty
<1>2. ASSUME NEW j \in Jobs, NEW new \in Row, row' = [row EXCEPT ![j] = new],
             new.status # "none"
      PROVE  AbsentIsEmpty'
  BY <1>2 DEF AbsentIsEmpty, TypeOK
<1>3. ASSUME NEW w \in Workers, Claim(w) PROVE AbsentIsEmpty'
  <2>1. row[worker[w].job] \in Row /\ worker[w].job \in Jobs
    BY DEF TypeOK, Worker
  <2> QED BY <1>2, <1>3, <2>1, ClaimWrites, WrittenRows DEF Undisturbed
<1>4. ASSUME NEW w \in Workers, worker[w].pc = "loaded", NEW new \in Row,
             new.status # "none", Outcome(w, new)
      PROVE  AbsentIsEmpty'
  BY <1>2, <1>4, OutcomeWrites
<1>5. ASSUME NEW w \in Workers, Continue(w) \/ Complete(w) \/ Fail(w) PROVE AbsentIsEmpty'
  <2>1. worker[w].seen \in Row /\ worker[w].page \in Nat
    BY DEF TypeOK, Worker
  <2> QED BY <1>5, <2>1, <1>4, WrittenRows DEF Continue, Complete, Fail
<1>6. ASSUME NEW j \in Jobs, Create(j) PROVE AbsentIsEmpty'
  BY <1>6, <1>2, InitialValues DEF Create, NewRow
<1>7. ASSUME NEW j \in Jobs, RetryDue(j) PROVE AbsentIsEmpty'
  BY <1>7 DEF RetryDue, AbsentIsEmpty, TypeOK, Row
<1>8. ASSUME NEW w \in Workers, WorkerStep(w), ~Claim(w),
             ~(Continue(w) \/ Complete(w) \/ Fail(w))
      PROVE  UNCHANGED row
  BY <1>8 DEF WorkerStep, SchedulerSelect, TaskSelect, Select, TaskSkip, Load, Reload,
       RowGone, RunEscapes
<1>9. ASSUME NEW o \in Operators, CallStep(o) PROVE UNCHANGED row
  BY <1>9 DEF CallStep, CallRead, CallWrite, DeleteSource, SourceCall, ToggleSource,
       NoCallLoaded, Undisturbed
<1>10. ASSUME Crash PROVE UNCHANGED row
  BY <1>10 DEF Crash
<1> QED
  BY <1>1, <1>3, <1>5, <1>6, <1>7, <1>8, <1>9, <1>10 DEF Next, vars

\* Writing one row moves that job alone in the abstract state.
LEMMA MapOneRow ==
  ASSUME TypeOK, NEW j \in Jobs, NEW new \in Row, row' = [row EXCEPT ![j] = new]
  PROVE  /\ [i \in Jobs |-> Phase(row'[i])] =
              [[i \in Jobs |-> Phase(row[i])] EXCEPT ![j] = Phase(new)]
         /\ [i \in Jobs |-> BatchesRead(i, row'[i])] =
              [[i \in Jobs |-> BatchesRead(i, row[i])] EXCEPT ![j] = BatchesRead(j, new)]
         /\ [i \in Jobs |-> row'[i].attempts] =
              [[i \in Jobs |-> row[i].attempts] EXCEPT ![j] = new.attempts]
<1>1. row'[j] = new /\ \A i \in Jobs : i # j => row'[i] = row[i]
  BY DEF TypeOK
<1>2. [i \in Jobs |-> Phase(row'[i])] =
        [[i \in Jobs |-> Phase(row[i])] EXCEPT ![j] = Phase(new)]
  <2>1. \A i \in Jobs : Phase(row'[i]) = IF i = j THEN Phase(new) ELSE Phase(row[i])
    BY <1>1
  <2> QED BY <2>1
<1>3. [i \in Jobs |-> BatchesRead(i, row'[i])] =
        [[i \in Jobs |-> BatchesRead(i, row[i])] EXCEPT ![j] = BatchesRead(j, new)]
  <2>1. \A i \in Jobs : BatchesRead(i, row'[i]) =
          IF i = j THEN BatchesRead(j, new) ELSE BatchesRead(i, row[i])
    BY <1>1
  <2> QED BY <2>1
<1>4. [i \in Jobs |-> row'[i].attempts] =
        [[i \in Jobs |-> row[i].attempts] EXCEPT ![j] = new.attempts]
  <2>1. \A i \in Jobs : row'[i].attempts = IF i = j THEN new.attempts ELSE row[i].attempts
    BY <1>1
  <2> QED BY <2>1
<1> QED BY <1>2, <1>3, <1>4

\* The abstract step of one job, from its row before and after.
AbstractStep(j, old, new) ==
  LET was == Phase(old)
      is == Phase(new)
      read == BatchesRead(j, old)
      readNow == BatchesRead(j, new)
  IN
  \/ is = was /\ readNow = read /\ new.attempts = old.attempts
  \/ was = "absent" /\ is = "waiting" /\ readNow = read /\ new.attempts = old.attempts
  \/ was = "waiting" /\ is = "working" /\ readNow = read /\ new.attempts = old.attempts + 1
  \/ /\ was = "working" /\ is = (IF read + 1 < Batches[j] THEN "waiting" ELSE "completed")
     /\ readNow = read + 1 /\ new.attempts = old.attempts
  \/ /\ was = "working" /\ is = (IF old.attempts < MaxAttempts THEN "waiting" ELSE "failed")
     /\ readNow = 0 /\ new.attempts = old.attempts

LEMMA OneRowStep ==
  ASSUME TypeOK, NEW j \in Jobs, NEW new \in Row, row' = [row EXCEPT ![j] = new],
         AbstractStep(j, row[j], new)
  PROVE  [Lifecycle!Next]_(Lifecycle!vars)
<1> DEFINE phase == [i \in Jobs |-> Phase(row[i])]
           next == [i \in Jobs |-> BatchesRead(i, row[i])]
           attempts == [i \in Jobs |-> row[i].attempts]
           phase1 == [i \in Jobs |-> Phase(row'[i])]
           next1 == [i \in Jobs |-> BatchesRead(i, row'[i])]
           attempts1 == [i \in Jobs |-> row'[i].attempts]
<1>1. /\ phase1 = [phase EXCEPT ![j] = Phase(new)]
      /\ next1 = [next EXCEPT ![j] = BatchesRead(j, new)]
      /\ attempts1 = [attempts EXCEPT ![j] = new.attempts]
  BY MapOneRow
<1>2. /\ phase[j] = Phase(row[j]) /\ next[j] = BatchesRead(j, row[j])
      /\ attempts[j] = row[j].attempts
      /\ phase = [phase EXCEPT ![j] = phase[j]]
      /\ next = [next EXCEPT ![j] = next[j]]
      /\ attempts = [attempts EXCEPT ![j] = attempts[j]]
  OBVIOUS
<1>3. \/ phase1 = phase /\ next1 = next /\ attempts1 = attempts
      \/ Lifecycle!Submit(j) \/ Lifecycle!Start(j) \/ Lifecycle!ReadBatch(j)
      \/ Lifecycle!Failure(j)
  <2> HIDE DEF phase, next, attempts, phase1, next1, attempts1
  <2>1. CASE /\ Phase(new) = phase[j] /\ BatchesRead(j, new) = next[j]
             /\ new.attempts = attempts[j]
    BY <2>1, <1>1, <1>2
  <2>2. CASE /\ phase[j] = "absent" /\ Phase(new) = "waiting"
             /\ BatchesRead(j, new) = next[j] /\ new.attempts = attempts[j]
    <3>1. /\ phase[j] = "absent" /\ phase1 = [phase EXCEPT ![j] = "waiting"]
          /\ next1 = next /\ attempts1 = attempts
      BY <2>2, <1>1, <1>2
    <3> QED BY <3>1 DEF Lifecycle!Submit, Lifecycle!Move, phase, next, attempts, phase1, next1, attempts1
  <2>3. CASE /\ phase[j] = "waiting" /\ Phase(new) = "working"
             /\ BatchesRead(j, new) = next[j] /\ new.attempts = attempts[j] + 1
    <3>1. /\ phase[j] = "waiting" /\ phase1 = [phase EXCEPT ![j] = "working"]
          /\ next1 = next /\ attempts1 = [attempts EXCEPT ![j] = attempts[j] + 1]
      BY <2>3, <1>1, <1>2
    <3> QED BY <3>1 DEF Lifecycle!Start, Lifecycle!Move, phase, next, attempts, phase1, next1, attempts1
  <2>4. CASE /\ phase[j] = "working"
             /\ Phase(new) = (IF next[j] + 1 < Batches[j] THEN "waiting" ELSE "completed")
             /\ BatchesRead(j, new) = next[j] + 1 /\ new.attempts = attempts[j]
    <3>1. /\ phase[j] = "working"
          /\ phase1 = [phase EXCEPT ![j] = IF next[j] + 1 < Batches[j] THEN "waiting" ELSE "completed"]
          /\ next1 = [next EXCEPT ![j] = next[j] + 1] /\ attempts1 = attempts
      BY <2>4, <1>1, <1>2
    <3> QED BY <3>1 DEF Lifecycle!ReadBatch, Lifecycle!Move, phase, next, attempts, phase1, next1, attempts1
  <2>5. CASE /\ phase[j] = "working"
             /\ Phase(new) = (IF attempts[j] < MaxAttempts THEN "waiting" ELSE "failed")
             /\ BatchesRead(j, new) = 0 /\ new.attempts = attempts[j]
    <3>1. /\ phase[j] = "working"
          /\ phase1 = [phase EXCEPT ![j] = IF attempts[j] < MaxAttempts THEN "waiting" ELSE "failed"]
          /\ next1 = [next EXCEPT ![j] = 0] /\ attempts1 = attempts
      BY <2>5, <1>1, <1>2
    <3> QED BY <3>1 DEF Lifecycle!Failure, Lifecycle!Move, phase, next, attempts, phase1, next1, attempts1
  <2> QED BY <1>2, <2>1, <2>2, <2>3, <2>4, <2>5 DEF AbstractStep
<1> QED BY <1>3 DEF Lifecycle!Next, Lifecycle!vars
LEMMA StepSimulation ==
  TypeOK /\ SelectedIsCurrent /\ RunnerIsCurrent /\ NoCallLoaded /\ Undisturbed
    /\ AbsentIsEmpty /\ [Next]_vars => [Lifecycle!Next]_(Lifecycle!vars)
<1> SUFFICES ASSUME TypeOK, SelectedIsCurrent, RunnerIsCurrent, NoCallLoaded, Undisturbed,
                    AbsentIsEmpty, [Next]_vars
             PROVE  [Lifecycle!Next]_(Lifecycle!vars)
  OBVIOUS
<1> DEFINE Goal == [Lifecycle!Next]_(Lifecycle!vars)
<1>1. ASSUME UNCHANGED row PROVE Goal
  BY <1>1 DEF Lifecycle!vars
<1>2. ASSUME NEW w \in Workers, Claim(w) PROVE Goal
  <2> DEFINE j == worker[w].job
             new == ClaimedRow(row[j])
  <2>1. j \in Jobs /\ Runnable(row[j]) /\ row[j] \in Row /\ row' = [row EXCEPT ![j] = new]
    BY <1>2, ClaimWrites DEF Undisturbed, TypeOK
  <2>2. new \in Row
    BY <2>1, WrittenRows
  <2>3. AbstractStep(j, row[j], new)
    BY <2>1 DEF AbstractStep, Phase, BatchesRead, Runnable, RunnableStatuses, ClaimedRow,
         RowOf, Row
  <2> QED BY <2>1, <2>2, <2>3, OneRowStep
<1>3. ASSUME NEW w \in Workers, worker[w].pc = "loaded"
      PROVE  LET j == worker[w].job IN
             /\ j \in Jobs /\ row[j] \in Row /\ worker[w].seen = row[j]
             /\ worker[w].page = row[j].cursor /\ row[j].status = "running"
             /\ row[j].cursor < Batches[j] /\ row[j].cursor \in Nat /\ Batches[j] \in Nat
             /\ row[j].attempts \in Nat /\ MaxAttempts \in Nat
  BY <1>3, BatchesAssumption, MaxAttemptsAssumption DEF TypeOK, Worker, Row, RunnerIsCurrent
<1>4. ASSUME NEW w \in Workers, Continue(w) PROVE Goal
  <2> DEFINE j == worker[w].job
             new == NextPageRow(row[j], row[j].cursor)
  <2>1. worker[w].pc = "loaded" /\ Outcome(w, new) /\ row[j].cursor + 1 < Batches[j]
    BY <1>3, <1>4 DEF Continue, MorePages
  <2>2. new \in Row
    BY <2>1, <1>3, WrittenRows
  <2>3. AbstractStep(j, row[j], new)
    BY <2>1, <1>3 DEF AbstractStep, Phase, BatchesRead, RunnableStatuses, NextPageRow, RowOf
  <2>4. row' = [row EXCEPT ![j] = new]
    BY <2>1, <2>2, OutcomeWrites
  <2> QED BY <2>1, <2>2, <2>3, <2>4, <1>3, OneRowStep
<1>5. ASSUME NEW w \in Workers, Complete(w) PROVE Goal
  <2> DEFINE j == worker[w].job
             new == CompletedRow(row[j])
  <2>1. worker[w].pc = "loaded" /\ Outcome(w, new) /\ row[j].cursor + 1 = Batches[j]
    BY <1>3, <1>5 DEF Complete, MorePages
  <2>2. new \in Row
    BY <2>1, <1>3, WrittenRows
  <2>3. AbstractStep(j, row[j], new)
    BY <2>1, <1>3 DEF AbstractStep, Phase, BatchesRead, RunnableStatuses, CompletedRow, RowOf
  <2>4. row' = [row EXCEPT ![j] = new]
    BY <2>1, <2>2, OutcomeWrites
  <2> QED BY <2>1, <2>2, <2>3, <2>4, <1>3, OneRowStep
<1>6. ASSUME NEW w \in Workers, Fail(w) PROVE Goal
  <2> DEFINE j == worker[w].job
             new == FailedRow(row[j])
  <2>1. worker[w].pc = "loaded" /\ Outcome(w, new)
    BY <1>3, <1>6 DEF Fail
  <2>2. new \in Row
    BY <2>1, <1>3, WrittenRows
  <2>3. AbstractStep(j, row[j], new)
    <3>1. CASE row[j].attempts >= MaxAttempts
      BY <3>1, <2>1, <1>3 DEF AbstractStep, Phase, BatchesRead, RunnableStatuses, FailedRow, RowOf
    <3>2. CASE ~(row[j].attempts >= MaxAttempts)
      BY <3>2, <2>1, <1>3 DEF AbstractStep, Phase, BatchesRead, RunnableStatuses, FailedRow, RowOf
    <3> QED BY <3>1, <3>2
  <2>4. row' = [row EXCEPT ![j] = new]
    BY <2>1, <2>2, OutcomeWrites
  <2> QED BY <2>1, <2>2, <2>3, <2>4, <1>3, OneRowStep
<1>7. ASSUME NEW j \in Jobs, Create(j) PROVE Goal
  <2>1. row[j].status = "none" /\ row[j] \in Row /\ row' = [row EXCEPT ![j] = NewRow]
    BY <1>7 DEF Create, TypeOK
  <2>2. row[j].cursor = 0 /\ row[j].attempts = 0
    BY <2>1 DEF AbsentIsEmpty
  <2>3. AbstractStep(j, row[j], NewRow)
    BY <2>1, <2>2 DEF AbstractStep, Phase, BatchesRead, RunnableStatuses, NewRow
  <2> QED BY <2>1, <2>3, InitialValues, OneRowStep
<1>8. ASSUME NEW j \in Jobs, RetryDue(j) PROVE Goal
  <2> DEFINE new == [row[j] EXCEPT !.retry = "due"]
  <2>1. row' = [row EXCEPT ![j] = new] /\ new \in Row /\ row[j] \in Row
    <3>1. row[j] \in Row /\ row' = [row EXCEPT ![j].retry = "due"]
      BY <1>8 DEF RetryDue, TypeOK
    <3>2. new \in Row
      BY <3>1 DEF Row
    <3>3. row' = [row EXCEPT ![j] = new]
      BY <3>1 DEF TypeOK
    <3> QED BY <3>1, <3>2, <3>3
  <2>2. new.status = row[j].status /\ new.cursor = row[j].cursor /\ new.attempts = row[j].attempts
    BY <2>1 DEF Row
  <2>3. AbstractStep(j, row[j], new)
    <3> HIDE DEF new
    <3> QED BY <2>2 DEF AbstractStep, Phase, BatchesRead
  <2> QED BY <2>1, <2>3, OneRowStep
<1>9. ASSUME NEW o \in Operators, CallStep(o) PROVE UNCHANGED row
  BY <1>9 DEF CallStep, CallRead, CallWrite, DeleteSource, SourceCall, ToggleSource,
       NoCallLoaded, Undisturbed
<1>10. ASSUME NEW w \in Workers, WorkerStep(w), ~Claim(w), ~Continue(w), ~Complete(w), ~Fail(w)
       PROVE  UNCHANGED row
  BY <1>10 DEF WorkerStep, SchedulerSelect, TaskSelect, Select, TaskSkip, Load, Reload,
       RowGone, RunEscapes
<1>11. ASSUME Crash PROVE UNCHANGED row
  BY <1>11 DEF Crash
<1> QED
  BY <1>1, <1>2, <1>4, <1>5, <1>6, <1>7, <1>8, <1>9, <1>10, <1>11 DEF Next, vars

\* With row locks and without cancellations, retries and deletions, any number of
\* schedulers and background tasks together behave like one atomic run at a time
\* per job: no claim, page batch or failure is lost, doubled or undone.
THEOREM Implementation ==
  ASSUME Undisturbed
  PROVE  Spec => ImplementsLifecycle
<1>1. Init => SelectedIsCurrent /\ RunnerIsCurrent /\ NoCallLoaded /\ AbsentIsEmpty
  BY InitialValues DEF Init, SelectedIsCurrent, RunnerIsCurrent, NoCallLoaded, AbsentIsEmpty,
       AbsentRow, NewCall
<1>2. Init => Lifecycle!Init
  <2> SUFFICES ASSUME Init PROVE Lifecycle!Init
    OBVIOUS
  <2>1. \A j \in Jobs : /\ Phase(row[j]) = "absent" /\ BatchesRead(j, row[j]) = 0
                        /\ row[j].attempts = 0
    <3> SUFFICES ASSUME NEW j \in Jobs
                 PROVE  /\ Phase(row[j]) = "absent" /\ BatchesRead(j, row[j]) = 0
                        /\ row[j].attempts = 0
      OBVIOUS
    <3>1. row[j].status = "none" /\ row[j].cursor = 0 /\ row[j].attempts = 0
      BY DEF Init, AbsentRow
    <3> QED BY <3>1 DEF Phase, BatchesRead, RunnableStatuses
  <2> QED BY <2>1 DEF Lifecycle!Init
<1>3. TypeOK /\ SelectedIsCurrent /\ RunnerIsCurrent /\ NoCallLoaded /\ AbsentIsEmpty
        /\ [Next]_vars
      => RunnerIsCurrent' /\ NoCallLoaded' /\ AbsentIsEmpty' /\ [Lifecycle!Next]_(Lifecycle!vars)
  BY Undisturbed, RunnerStep, AbsentStep, StepSimulation
<1> QED
  BY <1>1, <1>2, <1>3, TypeCorrect, SelectedStep, PTL
  DEF Spec, ImplementsLifecycle, Lifecycle!Spec
=============================================================================

---------------------------- MODULE BackfillJob ----------------------------
(***************************************************************************)
(* Mail-source backfill jobs: one database row per job, the scheduler      *)
(* thread and the API background tasks that run jobs, and the API handlers *)
(* that create, cancel, retry and delete them.                             *)
(*                                                                         *)
(* Every action is one database transaction, because between two           *)
(* transactions of one actor any other actor may run.  A worker goes       *)
(* through "selected" (row read, and locked on PostgreSQL), "claimed" (the *)
(* claim is committed, which expires the loaded row), "loaded" (the row    *)
(* was read again) and back to "idle" when the outcome is committed.       *)
(* SQLAlchemy writes only the columns whose value differs from the one it  *)
(* loaded, so an outcome is merged into the row through that snapshot.     *)
(*                                                                         *)
(* One mail source is modelled; result counters, error texts and the       *)
(* started/finished/cancelled timestamps are left out.  The page cursor is *)
(* the number of the next page batch, 0 standing for "no page cursor".     *)
(***************************************************************************)
EXTENDS Integers, FiniteSets

CONSTANTS
  Jobs,          \* job ids; their order is the order of created_at, id
  Schedulers,    \* scheduler threads (one per application process)
  TaskThreads,   \* threads that run API background tasks
  Operators,     \* API calls on an existing job or source, each used once
  Calls,         \* which calls the operators make
  RowLocks,      \* TRUE: PostgreSQL; FALSE: SQLite, which ignores FOR UPDATE
  Batches,       \* Batches[j]: page batches in the window of j (1 for IMAP)
  MaxAttempts,   \* max_attempts of every job
  MaxFaults      \* bound on process crashes and escaped exceptions

Workers == Schedulers \cup TaskThreads

ASSUME JobsAssumption == Jobs \subseteq Nat /\ Jobs # {}
ASSUME WorkersAssumption ==
  IsFiniteSet(Workers) /\ Schedulers \cap TaskThreads = {}
ASSUME CallsAssumption == Calls \subseteq {"cancel", "retry", "delete", "toggle"}
ASSUME RowLocksAssumption == RowLocks \in BOOLEAN
ASSUME BatchesAssumption == Batches \in [Jobs -> Nat \ {0}]
ASSUME MaxAttemptsAssumption == MaxAttempts \in 1..10
ASSUME MaxFaultsAssumption == MaxFaults \in Nat

VARIABLES
  row,      \* row[j]: the job's database row
  enabled,  \* MailSource.enabled
  worker,   \* worker[w]: where w is, and the row it has loaded
  call,     \* call[o]: an API handler between its read and its write
  tasks,    \* tasks[j]: background tasks waiting to run j
  retried,  \* retried[j]: accepted retry calls (history)
  fetched,  \* fetched[j]: page batches read from the mailbox (history)
  lost,     \* jobs whose run died before it committed an outcome (history)
  faults    \* crashes and escaped exceptions so far

vars == <<row, enabled, worker, call, tasks, retried, fetched, lost, faults>>

Statuses ==
  {"none", "queued", "running", "backoff", "completed", "failed",
   "cancelled", "deleted"}
RunnableStatuses == {"queued", "backoff"}
CancelableStatuses == {"queued", "running", "backoff"}
RetryableStatuses == {"failed", "cancelled", "backoff"}

\* retry is next_retry_at: "none" is NULL, "wait" is in the future, "due" has passed.
Row == [status : Statuses, attempts : Nat, cursor : Nat,
        retry : {"none", "wait", "due"}]
Worker == [pc : {"idle", "selected", "claimed", "loaded"}, job : Jobs,
           seen : Row, page : Nat]
Call == [pc : {"new", "loaded", "done"}, kind : {"cancel", "retry"},
         job : Jobs, seen : Row]

AbsentRow == [status |-> "none", attempts |-> 0, cursor |-> 0, retry |-> "none"]
NewRow == [status |-> "queued", attempts |-> 0, cursor |-> 0, retry |-> "none"]
DeletedRow == [status |-> "deleted", attempts |-> 0, cursor |-> 0, retry |-> "none"]
AnyJob == CHOOSE j \in Jobs : TRUE
IdleWorker == [pc |-> "idle", job |-> AnyJob, seen |-> AbsentRow, page |-> 0]
NewCall == [pc |-> "new", kind |-> "cancel", job |-> AnyJob, seen |-> AbsentRow]
DoneCall == [pc |-> "done", kind |-> "cancel", job |-> AnyJob, seen |-> AbsentRow]

(***************************************************************************)
(* Operators named *Bug are what a definition would be with a plausible    *)
(* mistake in the code.  No other definition uses them: substituted for    *)
(* the definition they precede, each makes a property fail.                *)
(***************************************************************************)
\* A failed job is never picked up again.
RunnableBug(r) == r.status = "queued" /\ r.retry # "wait"

\* due_mail_source_backfill_jobs and _job_is_runnable ask the same of a row.
Runnable(r) == r.status \in RunnableStatuses /\ r.retry # "wait"

\* The rows are selected without FOR UPDATE.
HoldsLockBug(w, j) == FALSE

\* FOR UPDATE holds the row from the select to the commit of the claim; the
\* scheduler's query joins mail_sources and locks the source with the job.
HoldsLock(w, j) == RowLocks /\ worker[w].pc = "selected" /\ worker[w].job = j
Locked(j) == \E w \in Workers : HoldsLock(w, j)
SourceLocked == RowLocks /\ \E w \in Schedulers : worker[w].pc = "selected"

\* Handlers run on one event loop and never yield between their read and commit.
EventLoopFree == \A o \in Operators : call[o].pc # "loaded"

(***************************************************************************)
(* Writing a row.  A column is written only if it differs from the         *)
(* snapshot; a new retry time differs from every earlier one.  The cursor  *)
(* column of an outcome is text that also holds the state and the counts,  *)
(* so an equal page may or may not be written again.                       *)
(***************************************************************************)
Column(old, seen, new) == IF new = seen THEN old ELSE new

Update(old, seen, new) ==
  [status |-> Column(old.status, seen.status, new.status),
   attempts |-> Column(old.attempts, seen.attempts, new.attempts),
   cursor |-> Column(old.cursor, seen.cursor, new.cursor),
   retry |-> IF new.retry = "wait" THEN "wait"
             ELSE Column(old.retry, seen.retry, new.retry)]

RowOf(status, attempts, cursor, retry) ==
  [status |-> status, attempts |-> attempts, cursor |-> cursor, retry |-> retry]

ClaimedRow(r) == RowOf("running", r.attempts + 1, r.cursor, "none")
\* The job is not put back in the queue between two page batches.
NextPageRowBug(r, page) == RowOf(r.status, r.attempts, page + 1, "none")
NextPageRow(r, page) == RowOf("queued", r.attempts, page + 1, "none")
CompletedRow(r) == RowOf("completed", r.attempts, 0, "none")
\* One attempt too many.
FailedRowBug(r) ==
  IF r.attempts > MaxAttempts
  THEN RowOf("failed", r.attempts, 0, "none")
  ELSE RowOf("backoff", r.attempts, 0, "wait")
FailedRow(r) ==
  IF r.attempts >= MaxAttempts
  THEN RowOf("failed", r.attempts, 0, "none")
  ELSE RowOf("backoff", r.attempts, 0, "wait")
CancelledRow(r) == RowOf("cancelled", r.attempts, r.cursor, "none")
RetriedRow(r) == RowOf("queued", r.attempts + 1, r.cursor, "none")

Init ==
  /\ row = [j \in Jobs |-> AbsentRow]
  /\ enabled = TRUE
  /\ worker = [w \in Workers |-> IdleWorker]
  /\ call = [o \in Operators |-> NewCall]
  /\ tasks = [j \in Jobs |-> 0]
  /\ retried = [j \in Jobs |-> 0]
  /\ fetched = [j \in Jobs |-> {}]
  /\ lost = {}
  /\ faults = 0

(***************************************************************************)
(* Workers                                                                 *)
(***************************************************************************)
Select(w, j) ==
  /\ worker[w].pc = "idle"
  /\ Runnable(row[j]) /\ ~Locked(j)
  /\ worker' = [worker EXCEPT ![w] =
                  [pc |-> "selected", job |-> j, seen |-> row[j], page |-> 0]]
  /\ UNCHANGED <<row, enabled, call, retried, fetched, lost, faults>>

\* Oldest due job of an enabled source, locked rows skipped.
SchedulerSelect(w) ==
  /\ w \in Schedulers
  /\ enabled /\ ~SourceLocked
  /\ \E j \in Jobs :
       /\ Select(w, j)
       /\ \A i \in Jobs : Runnable(row[i]) /\ ~Locked(i) => j <= i
  /\ UNCHANGED tasks

\* A background task asks for its job by id; it does not look at enabled.
TaskSelect(w, j) ==
  /\ w \in TaskThreads
  /\ tasks[j] > 0
  /\ Select(w, j)
  /\ tasks' = [tasks EXCEPT ![j] = @ - 1]

\* The task finds its row gone, locked or not runnable, and is over.
TaskSkip(w, j) ==
  /\ w \in TaskThreads
  /\ worker[w].pc = "idle"
  /\ tasks[j] > 0
  /\ ~Runnable(row[j]) \/ Locked(j)
  /\ tasks' = [tasks EXCEPT ![j] = @ - 1]
  /\ UNCHANGED <<row, enabled, worker, call, retried, fetched, lost, faults>>

\* w's transaction on its own row, which must still be there; an UPDATE waits
\* for the lock of another worker.
Commit(w, new, next) ==
  LET j == worker[w].job IN
  /\ row[j].status # "deleted"
  /\ \A v \in Workers \ {w} : ~HoldsLock(v, j)
  /\ row' = [row EXCEPT ![j] = new]
  /\ worker' = [worker EXCEPT ![w] = next]
  /\ UNCHANGED <<enabled, call, tasks, retried, lost, faults>>

Claim(w) ==
  LET seen == worker[w].seen IN
  /\ worker[w].pc = "selected"
  /\ Commit(w, Update(row[worker[w].job], seen, ClaimedRow(seen)),
            [pc |-> "claimed", job |-> worker[w].job, seen |-> AbsentRow, page |-> 0])
  /\ UNCHANGED fetched

\* The end of a run, decided on the snapshot.
Outcome(w, new) ==
  LET written == Update(row[worker[w].job], worker[w].seen, new) IN
  \E cursor \in {written.cursor, new.cursor} :
    Commit(w, RowOf(written.status, written.attempts, cursor, written.retry), IdleWorker)

\* The page cursor is read at the start of the run.
Load(w) ==
  LET r == row[worker[w].job] IN
  /\ worker[w].pc = "claimed"
  /\ r.status # "deleted"
  /\ worker' = [worker EXCEPT ![w] =
       [pc |-> "loaded", job |-> worker[w].job, seen |-> r, page |-> r.cursor]]
  /\ UNCHANGED <<row, enabled, call, tasks, retried, fetched, lost, faults>>

\* A commit inside the run (delivery events) expires the row: it is read again.
Reload(w) ==
  LET r == row[worker[w].job] IN
  /\ worker[w].pc = "loaded"
  /\ r.status # "deleted"
  /\ worker' = [worker EXCEPT ![w].seen = r]
  /\ UNCHANGED <<row, enabled, call, tasks, retried, fetched, lost, faults>>

\* The end of the window is missed, or assumed one batch early.
MorePagesPastEndBug(w) == worker[w].page + 1 <= Batches[worker[w].job]
MorePagesEarlyBug(w) == worker[w].page + 2 < Batches[worker[w].job]
MorePages(w) == worker[w].page + 1 < Batches[worker[w].job]

\* w has read its page batch from the mailbox.
Fetch(w) ==
  fetched' = [fetched EXCEPT ![worker[w].job] = @ \cup {worker[w].page}]

Continue(w) ==
  /\ worker[w].pc = "loaded"
  /\ MorePages(w)
  /\ Outcome(w, NextPageRow(worker[w].seen, worker[w].page))
  /\ Fetch(w)

Complete(w) ==
  /\ worker[w].pc = "loaded"
  /\ ~MorePages(w)
  /\ Outcome(w, CompletedRow(worker[w].seen))
  /\ Fetch(w)

Fail(w) ==
  /\ worker[w].pc = "loaded"
  /\ Outcome(w, FailedRow(worker[w].seen))
  /\ UNCHANGED fetched

\* The row was deleted under the worker: its next statement on it raises, the
\* exception leaves the worker and nothing is written.
RowGone(w) ==
  /\ worker[w].pc # "idle"
  /\ row[worker[w].job].status = "deleted"
  /\ worker' = [worker EXCEPT ![w] = IdleWorker]
  /\ UNCHANGED <<row, enabled, call, tasks, retried, fetched, lost, faults>>

Finish(w) == Continue(w) \/ Complete(w) \/ Fail(w)

(***************************************************************************)
(* API handlers                                                            *)
(***************************************************************************)
Create(j) ==
  /\ EventLoopFree /\ ~SourceLocked
  /\ row[j].status = "none"
  /\ \A i \in Jobs : i < j => row[i].status # "none"
  /\ \A i \in Jobs : row[i].status # "deleted"
  /\ row' = [row EXCEPT ![j] = NewRow]
  /\ tasks' = [tasks EXCEPT ![j] = @ + 1]
  /\ UNCHANGED <<enabled, worker, call, retried, fetched, lost, faults>>

\* What the handler of a call accepts; it answers 404 or 409 otherwise.
Accepts(kind, r) ==
  \/ kind = "cancel" /\ r.status \in CancelableStatuses
  \/ kind = "retry" /\ r.status \in RetryableStatuses /\ r.attempts < MaxAttempts

\* The handler reads the row and checks it, without a lock.
CallRead(o, j, kind) ==
  /\ kind \in Calls \cap {"cancel", "retry"}
  /\ EventLoopFree
  /\ call[o].pc = "new"
  /\ Accepts(kind, row[j])
  /\ call' = [call EXCEPT ![o] =
                [pc |-> "loaded", kind |-> kind, job |-> j, seen |-> row[j]]]
  /\ UNCHANGED <<row, enabled, worker, tasks, retried, fetched, lost, faults>>

\* The handler commits what it decided from the row it read.
CallWrite(o) ==
  LET j == call[o].job
      seen == call[o].seen
      new == IF call[o].kind = "cancel" THEN CancelledRow(seen) ELSE RetriedRow(seen)
      again == IF call[o].kind = "retry" THEN 1 ELSE 0
  IN
  /\ call[o].pc = "loaded"
  /\ ~Locked(j)
  /\ row' = [row EXCEPT ![j] = Update(row[j], seen, new)]
  /\ tasks' = [tasks EXCEPT ![j] = @ + again]
  /\ retried' = [retried EXCEPT ![j] = @ + again]
  /\ call' = [call EXCEPT ![o] = DoneCall]
  /\ UNCHANGED <<enabled, worker, fetched, lost, faults>>

SourceCall(o, kind) ==
  /\ kind \in Calls
  /\ EventLoopFree /\ ~SourceLocked
  /\ call[o].pc = "new"
  /\ \A j \in Jobs : row[j].status # "deleted"
  /\ call' = [call EXCEPT ![o] = DoneCall]

\* Deleting the source deletes its jobs.
DeleteSource(o) ==
  /\ SourceCall(o, "delete")
  /\ \A j \in Jobs : ~Locked(j)
  /\ row' = [j \in Jobs |-> DeletedRow]
  /\ UNCHANGED <<enabled, worker, tasks, retried, fetched, lost, faults>>

ToggleSource(o) ==
  /\ SourceCall(o, "toggle")
  /\ enabled' = ~enabled
  /\ UNCHANGED <<row, worker, tasks, retried, fetched, lost, faults>>

(***************************************************************************)
(* Time and failures                                                       *)
(***************************************************************************)
RetryDue(j) ==
  /\ row[j].retry = "wait"
  /\ row' = [row EXCEPT ![j].retry = "due"]
  /\ UNCHANGED <<enabled, worker, call, tasks, retried, fetched, lost, faults>>

Runs(w, j) == worker[w].pc \in {"claimed", "loaded"} /\ worker[w].job = j

\* The exception handler of the run uses the session whose flush failed: it
\* raises again and the transaction is rolled back.
RunEscapes(w) ==
  /\ faults < MaxFaults
  /\ worker[w].pc \in {"claimed", "loaded"}
  /\ worker' = [worker EXCEPT ![w] = IdleWorker]
  /\ lost' = lost \cup {worker[w].job}
  /\ faults' = faults + 1
  /\ UNCHANGED <<row, enabled, call, tasks, retried, fetched>>

\* The process dies and is started again; nothing at startup looks at jobs.
Crash ==
  /\ faults < MaxFaults
  /\ worker' = [w \in Workers |-> IdleWorker]
  /\ call' = [o \in Operators |->
               IF call[o].pc = "loaded" THEN DoneCall ELSE call[o]]
  /\ tasks' = [j \in Jobs |-> 0]
  /\ lost' = lost \cup {j \in Jobs : \E w \in Workers : Runs(w, j)}
  /\ faults' = faults + 1
  /\ UNCHANGED <<row, enabled, retried, fetched>>

WorkerStep(w) ==
  \/ SchedulerSelect(w)
  \/ \E j \in Jobs : TaskSelect(w, j) \/ TaskSkip(w, j)
  \/ Claim(w) \/ Load(w) \/ Reload(w)
  \/ Continue(w) \/ Complete(w) \/ Fail(w)
  \/ RowGone(w) \/ RunEscapes(w)

CallStep(o) ==
  \/ \E j \in Jobs, kind \in {"cancel", "retry"} : CallRead(o, j, kind)
  \/ CallWrite(o)
  \/ DeleteSource(o) \/ ToggleSource(o)

Next ==
  \/ \E w \in Workers : WorkerStep(w)
  \/ \E o \in Operators : CallStep(o)
  \/ \E j \in Jobs : Create(j) \/ RetryDue(j)
  \/ Crash

Spec == Init /\ [][Next]_vars

(***************************************************************************)
(* The scheduler loops for ever and catches every error, a thread that     *)
(* started a job goes on, time passes.  Background tasks get no fairness:  *)
(* they die with the process and the scheduler must do without them.       *)
(***************************************************************************)
Fairness ==
  /\ \A w \in Schedulers : WF_vars(SchedulerSelect(w))
  /\ \A w \in Workers :
       WF_vars(Claim(w)) /\ WF_vars(Load(w)) /\ WF_vars(Finish(w) \/ RowGone(w))
  /\ \A o \in Operators : WF_vars(CallWrite(o))
  /\ \A j \in Jobs : WF_vars(RetryDue(j))

FairSpec == Spec /\ Fairness

-----------------------------------------------------------------------------
(***************************************************************************)
(* Properties                                                              *)
(***************************************************************************)
\* Every variable has its type, and a stored page cursor points inside the
\* job's window: `_mark_queued_for_next_page` never stores one past the end.
TypeOK ==
  /\ row \in [Jobs -> Row]
  /\ \A j \in Jobs : row[j].cursor < Batches[j]
  /\ enabled \in BOOLEAN
  /\ worker \in [Workers -> Worker]
  /\ call \in [Operators -> Call]
  /\ tasks \in [Jobs -> Nat]
  /\ retried \in [Jobs -> Nat]
  /\ fetched \in [Jobs -> SUBSET Nat]
  /\ lost \subseteq Jobs
  /\ faults \in 0..MaxFaults

Runners(j) == {w \in Workers : Runs(w, j)}

\* Each accepted retry lets at most one more run of a job start beside one that
\* is still going on (the cancelled run is not stopped); without a retry a job is
\* run by one worker and cannot be picked up again while that one is at work.
\* About the row locks of due_mail_source_backfill_jobs and
\* run_mail_source_backfill_job_by_id, and every status the worker writes back.
RunnerPermits ==
  RowLocks =>
    \A j \in Jobs :
      Cardinality(Runners(j)) + (IF row[j].status \in RunnableStatuses THEN 1 ELSE 0)
        <= 1 + retried[j]

\* A "running" row always has a worker that will overwrite that status: one
\* that has not read the row back yet, or whose snapshot says "running".  About
\* the columns SQLAlchemy leaves out of the UPDATE that ends a run; it fails only
\* for runs that died (lost), which nothing in the code picks up again.
NoOrphanedRunning ==
  \A j \in Jobs \ lost :
    row[j].status = "running" =>
      \E w \in Workers :
        /\ Runs(w, j)
        /\ worker[w].pc = "loaded" => worker[w].seen.status = "running"

\* A completed job has read every page batch of its window, however often it
\* failed, was cancelled and retried, or was run twice at once: the stored page
\* cursor never skips a batch that no run has read.
CompletedCoversWindow ==
  \A j \in Jobs : row[j].status = "completed" => fetched[j] = 0..(Batches[j] - 1)

\* A claim takes a job that is still waiting: it never overwrites a cancellation,
\* another claim or a deletion, and it counts as one attempt.  About _claim_job
\* being in the transaction that selected the row for update.
Claimed(j) ==
  \E w \in Workers : worker[w].pc = "selected" /\ worker[w].job = j /\ worker'[w].pc = "claimed"

ClaimTakesWaitingJob ==
  [][\A j \in Jobs : RowLocks /\ Claimed(j) =>
       /\ row[j].status \in RunnableStatuses
       /\ row'[j].attempts = row[j].attempts + 1]_vars

Settled(j) == row[j].status \in {"completed", "failed", "cancelled", "deleted"}

\* Every job that was created settles, whatever becomes of its background tasks:
\* the scheduler finds it, each failure is retried until max_attempts, and a
\* requeued page batch is picked up again.
EventuallySettles == \A j \in Jobs : row[j].status # "none" ~> Settled(j)

\* What one job promises when nobody cancels, retries or deletes it.
Phase(r) ==
  CASE r.status = "none" -> "absent"
    [] r.status \in RunnableStatuses -> "waiting"
    [] r.status = "running" -> "working"
    [] OTHER -> r.status
BatchesRead(j, r) == IF r.status = "completed" THEN Batches[j] ELSE r.cursor

Lifecycle == INSTANCE BackfillLifecycle WITH
  phase <- [j \in Jobs |-> Phase(row[j])],
  next <- [j \in Jobs |-> BatchesRead(j, row[j])],
  attempts <- [j \in Jobs |-> row[j].attempts]

\* Locks, snapshots, background tasks and partial UPDATEs together behave like
\* one atomic step per claim and per outcome on the job itself.
ImplementsLifecycle == Lifecycle!Spec

-----------------------------------------------------------------------------
(***************************************************************************)
(* What the repository says and the code does not do                       *)
(***************************************************************************)
\* "Cancel a queued, running, or backoff job" (docs/reference/api.md): a
\* cancelled job stays cancelled until it is retried or deleted.
CancelSticks ==
  [][\A j \in Jobs : row[j].status = "cancelled" =>
       \/ row'[j].status \in {"cancelled", "deleted"}
       \/ retried'[j] > retried[j]]_vars
=============================================================================

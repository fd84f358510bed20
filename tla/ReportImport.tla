---------------------------- MODULE ReportImport ----------------------------
(***************************************************************************)
(* How aggregate reports get into DMARQ on PostgreSQL, and how the daily   *)
(* sender counters follow them.  Mailbox importers (a scheduled poll, a    *)
(* manual import, a backfill job) read messages, look each report up,      *)
(* store it and add it to the counters in one transaction, which also      *)
(* records the messages as ingested.  Uploads do the same for one report.  *)
(* A background worker projects the rows that are not in the counters yet, *)
(* and an operator deletes reports.  The process keeps a copy of the       *)
(* reports in memory, ahead of the transactions that fill it.              *)
(*                                                                         *)
(* One domain and one mailbox are modelled.  A counter row belongs to a    *)
(* cell (a sender on a day) and stands for its report_count; its other     *)
(* sums are written together with it.  What a transaction changes is sent  *)
(* to the database, and locked there, row by row: when the next report is  *)
(* inserted, and at the end.                                               *)
(***************************************************************************)
EXTENDS Naturals, FiniteSets

CONSTANTS
  Messages,           \* the messages of the mailbox
  Reports,            \* the report ids of the domain
  Carries,            \* [Messages -> Reports], the report each message holds
  Cells,              \* the senders on a day
  CellsOf,            \* [Reports -> SUBSET Cells], the counters a report adds to
  NewPolicy,          \* the reports with a policy the domain may not have yet
  RowIds,             \* bound on the report rows of the database
  Legacy,             \* rows stored before the counters existed ...
  LegacyReport,       \* ... and [Legacy -> Reports], what they hold
  Scheduler,          \* the importer that polls for ever
  Manual,             \* importers that an operator or a job starts
  Threads,            \* the importers that run in a thread of their own
  Retrying,           \* importers that leave a message they could not fetch
  Keeping,            \* importers that commit what they have when reading breaks off
  Uploaders,          \* clients that upload reports
  Uploads,            \* the reports they upload
  BatchLimit,         \* rows the worker takes at a time
  MaxManual, MaxUploads, MaxDeletes, MaxHydrates, MaxFaults,  \* bounds on what
  MaxTotal            \* happens, each and all together

Importers == Manual \cup {Scheduler}
Writers == Importers \cup Uploaders
Procs == Writers \cup {"projector"}

ASSUME ImportAssumption ==
  /\ "none" \notin Reports /\ Carries \in [Messages -> Reports] /\ CellsOf \in [Reports -> SUBSET Cells]
  /\ IsFiniteSet(RowIds) /\ Legacy \subseteq RowIds /\ LegacyReport \in [Legacy -> Reports]
  /\ Scheduler \notin Manual /\ Importers \cap Uploaders = {} /\ "projector" \notin Writers
  /\ Scheduler \in Threads /\ Threads \subseteq Importers
  /\ Retrying \subseteq Importers /\ Keeping \subseteq Manual
  /\ Uploads \subseteq Reports /\ NewPolicy \subseteq Reports
  /\ BatchLimit \in Nat \ {0}
  /\ {MaxManual, MaxUploads, MaxDeletes, MaxHydrates, MaxFaults, MaxTotal} \subseteq Nat

VARIABLES
  rows,      \* [RowIds -> the committed report row, or NoRow]
  counters,  \* [Cells -> the committed counter row: its generation and its sum]
  ingested,  \* the message ids recorded for the mailbox
  store,     \* the reports the in-memory store holds
  tx,        \* [Procs -> the transaction each one has open, or Idle]
  del,       \* the deletion under way, or NoDeletion
  fate,      \* history: what became of reports that are not stored
  count      \* history: how often each bounded thing has happened

vars == <<rows, counters, ingested, store, tx, del, fate, count>>

None == "none"
NoRow == [report |-> None, projected |-> FALSE]
RowState == {NoRow} \cup [report : Reports, projected : BOOLEAN]

\* What a transaction is about to write to a counter: the generation of the
\* row it read, whether there was one, and the new sum.  flushed: the rows of
\* which it has told the database.  domain: its policy is "dirty" when it is to
\* be written, "held" when it has been and the row is locked.
NoWrite == [gen |-> 0, had |-> FALSE, n |-> 0]

Idle == [at |-> "idle", known |-> {}, todo |-> {}, seen |-> {}, report |-> None,
         new |-> [r \in RowIds |-> None], picked |-> {}, locked |-> FALSE,
         writes |-> [c \in Cells |-> NoWrite], flushed |-> {}, domain |-> "clean"]

NoDeletion == [at |-> "idle", row |-> None, todo |-> {}, dropped |-> {}, reset |-> {}]

-----------------------------------------------------------------------------
Present == { r \in RowIds : rows[r] # NoRow }
Stored == { rows[r].report : r \in Present }
Inserted(p) == { r \in RowIds : tx[p].new[r] # None }
Pending(p) == { tx[p].new[r] : r \in Inserted(p) }
\* What memory learnt from a transaction before it was committed.
Exposed(p) == IF p \in Importers THEN Pending(p) \ {tx[p].report} ELSE {}
Projected(c) == { r \in Present : rows[r].projected /\ c \in CellsOf[rows[r].report] }

\* MUTANT: projection writers do not wait for one another.
LockFreeBug(p) == TRUE

\* MUTANT: a transaction that has the lock waits for it.
LockTakenBug(p) == \A q \in Procs : ~tx[q].locked

LockFree(p) == \A q \in Procs \ {p} : ~tx[q].locked
Quiet == \A p \in Procs : tx[p].at = "idle"

\* Uploads, the worker, deletions and some imports run from start to end on
\* the event loop, one at a time; a thread meets them only in the database.
LoopFree == del.at = "idle" /\ \A p \in Procs \ Threads : tx[p].at = "idle"

\* History: the transaction starts while a deletion is under way.
MetBy == [fate EXCEPT !.overlap = @ \/ del.at # "idle"]

FreeRows == RowIds \ (Present \cup UNION { Inserted(p) : p \in Procs })

\* materialize_source_projection: gain[c] reports are added to the counter of
\* cell c, on top of what the transaction has written or the table holds.
Added(writes, gain) ==
  [c \in Cells |->
     IF gain[c] = 0 THEN writes[c]
     ELSE IF writes[c] # NoWrite THEN [writes[c] EXCEPT !.n = @ + gain[c]]
     ELSE [gen |-> counters[c].gen, had |-> counters[c].n > 0, n |-> counters[c].n + gain[c]]]

GainOf(rep) == [c \in Cells |-> IF c \in CellsOf[rep] THEN 1 ELSE 0]
GainOfRows(ids) == [c \in Cells |-> Cardinality({ r \in ids : c \in CellsOf[rows[r].report] })]

\* The counter row is as the transaction read it: otherwise its UPDATE finds
\* no row, or its INSERT meets another one, and the flush fails.
Fits(p, c) == LET w == tx[p].writes[c] IN w.gen = counters[c].gen /\ w.had = (counters[c].n > 0)

Unflushed(p) == { c \in Cells : tx[p].writes[c] # NoWrite } \ tx[p].flushed
Flushed(p) == Unflushed(p) = {} /\ tx[p].domain # "dirty"
Flushing(p) == tx[p].at \in {"project", "commit"}

\* The row of the domain is locked by whoever has written it, and a counter
\* row by whoever has written or deleted it.
DomainFree(p) == \A q \in Procs \ {p} : tx[q].domain # "held"
Undropped(p) == Unflushed(p) \ del.dropped
Droppable == del.todo \ UNION { tx[p].flushed : p \in Procs }

-----------------------------------------------------------------------------
Init ==
  /\ rows = [r \in RowIds |-> IF r \in Legacy
                              THEN [report |-> LegacyReport[r], projected |-> FALSE] ELSE NoRow]
  /\ counters = [c \in Cells |-> [gen |-> 0, n |-> 0]]
  /\ ingested = {} /\ store = {}
  /\ tx = [p \in Procs |-> Idle]
  /\ del = NoDeletion
  /\ fate = [deleted |-> {}, refused |-> {}, shadowed |-> {}, unread |-> {}, overlap |-> FALSE]
  /\ count = [manual |-> 0, uploads |-> 0, deletes |-> 0, hydrates |-> 0, faults |-> 0]

Counted(what, bound) ==
  /\ count[what] < bound
  /\ count.manual + count.uploads + count.deletes + count.hydrates + count.faults < MaxTotal
  /\ count' = [count EXCEPT ![what] = @ + 1]

\* A poll, a manual import or a backfill batch loads the ids and lists the mailbox.
StartImport(p) ==
  /\ tx[p].at = "idle" /\ (p \in Threads \/ LoopFree)
  /\ IF p = Scheduler THEN UNCHANGED count ELSE Counted("manual", MaxManual)
  /\ tx' = [tx EXCEPT ![p] = [Idle EXCEPT !.at = IF Messages \subseteq ingested THEN "commit" ELSE "read",
                                          !.known = ingested, !.todo = Messages \ ingested]]
  /\ fate' = MetBy
  /\ UNCHANGED <<rows, counters, ingested, store, del>>

\* MUTANT: a message that could not be fetched is recorded like any other.
DoneBug(t, m, counts) ==
  [t EXCEPT !.todo = @ \ {m}, !.seen = @ \cup {m}, !.at = IF t.todo = {m} THEN "commit" ELSE "read"]

\* What the transaction does next when message m is dealt with.
Done(t, m, counts) ==
  [t EXCEPT !.todo = @ \ {m}, !.seen = IF counts THEN @ \cup {m} ELSE @,
            !.at = IF t.todo = {m} THEN "commit" ELSE "read"]

\* The provider does not answer: Gmail's importer counts the message as
\* examined, Microsoft Graph's leaves it for the next poll.
FetchFails(p, m) ==
  /\ tx[p].at = "read" /\ m \in tx[p].todo
  /\ Counted("faults", MaxFaults)
  /\ tx' = [tx EXCEPT ![p] = Done(@, m, p \notin Retrying)]
  /\ fate' = IF p \in Retrying THEN fate ELSE [fate EXCEPT !.unread = @ \cup {m}]
  /\ UNCHANGED <<rows, counters, ingested, store, del>>

\* Reading breaks off.  A backfill commits the reports it has stored, without
\* the ids of their messages; for the others this is a failure like any other.
BreaksOff(p) ==
  /\ tx[p].at = "read" /\ p \in Keeping
  /\ Counted("faults", MaxFaults)
  /\ tx' = [tx EXCEPT ![p] = [@ EXCEPT !.at = "commit", !.todo = {}, !.seen = {}]]
  /\ UNCHANGED <<rows, counters, ingested, store, del, fate>>

\* The report of message m is looked up in memory, then in the database.
Look(p, m) ==
  /\ tx[p].at = "read" /\ m \in tx[p].todo
  /\ tx' = [tx EXCEPT ![p] =
               IF Carries[m] \in store \cup Stored \cup Pending(p) THEN Done(@, m, TRUE)
               ELSE [Done(@, m, TRUE) EXCEPT !.at = "insert", !.report = Carries[m]]]
  /\ UNCHANGED <<rows, counters, ingested, store, del, fate, count>>

\* An upload looks in the database only.
StartUpload(p, rep) ==
  /\ LoopFree /\ rep \notin Stored
  /\ Counted("uploads", MaxUploads)
  /\ tx' = [tx EXCEPT ![p] = [Idle EXCEPT !.at = "insert", !.report = rep]]
  /\ UNCHANGED <<rows, counters, ingested, store, del, fate>>

AfterReport(t) == [t EXCEPT !.at = IF t.todo = {} THEN "commit" ELSE "read", !.report = None]

\* MUTANT: the report is let go before it is put into memory.
RememberedBug(p) == IF p \in Importers THEN store \cup {AfterReport(tx[p]).report} ELSE store

\* The memory store once the report is saved, which is before it is committed.
Remembered(p) == IF p \in Importers THEN store \cup {tx[p].report} ELSE store

\* The domain takes over the policy of a report, also of one that is then
\* found to be stored, or refused.
TakesPolicy(p, changes) ==
  /\ changes => tx[p].report \in NewPolicy
  /\ tx[p].at = "insert"

WithPolicy(t, changes) == IF changes /\ t.domain = "clean" THEN [t EXCEPT !.domain = "dirty"] ELSE t

\* save_parsed_report: the second look-up, then the new row.
Insert(p, changes) ==
  /\ TakesPolicy(p, changes)
  /\ IF tx[p].report \in Stored \cup Pending(p)
     THEN tx' = [tx EXCEPT ![p] = WithPolicy(AfterReport(@), changes)] /\ store' = Remembered(p)
     ELSE /\ \E r \in FreeRows :
               /\ r = CHOOSE q \in FreeRows : TRUE
               /\ tx' = [tx EXCEPT ![p] = WithPolicy([@ EXCEPT !.at = "project", !.new[r] = tx[p].report],
                                                     changes)]
          /\ UNCHANGED store
  /\ UNCHANGED <<rows, counters, ingested, del, fate, count>>

\* The volume limit of the plan is reached: an import goes on without the
\* report, an upload is rolled back.
Refuse(p, changes) ==
  /\ TakesPolicy(p, changes) /\ tx[p].report \notin Stored \cup Pending(p)
  /\ Counted("faults", MaxFaults)
  /\ tx' = [tx EXCEPT ![p] = IF p \in Importers THEN WithPolicy(AfterReport(@), changes) ELSE Idle]
  /\ fate' = IF p \in Importers THEN [fate EXCEPT !.refused = @ \cup {tx[p].report}] ELSE fate
  /\ UNCHANGED <<rows, counters, ingested, store, del>>

\* The new row is added to the counters under the advisory lock, which the
\* transaction keeps; the report goes into memory before anything is committed.
Project(p) ==
  /\ tx[p].at = "project" /\ p \in Writers /\ Flushed(p) /\ LockFree(p)
  /\ tx' = [tx EXCEPT ![p] = [AfterReport(@) EXCEPT !.locked = TRUE,
                                 !.writes = Added(tx[p].writes, GainOf(tx[p].report))]]
  /\ store' = Remembered(p)
  /\ UNCHANGED <<rows, counters, ingested, del, fate, count>>

Due == { r \in Present : ~rows[r].projected }

\* MUTANT: only full batches are taken.
IsBatchBug(batch) == batch \subseteq Due /\ Cardinality(batch) = BatchLimit

\* The background worker takes unprojected rows that nobody else has locked.
IsBatch(batch) ==
  /\ batch \subseteq Due /\ batch # {}
  /\ Cardinality(batch) = BatchLimit \/ (batch = Due /\ Cardinality(Due) < BatchLimit)

Pick ==
  /\ LoopFree
  /\ \E batch \in SUBSET Due :
       /\ IsBatch(batch)
       /\ tx' = [tx EXCEPT !["projector"] = [Idle EXCEPT !.at = "project", !.picked = batch]]
  /\ UNCHANGED <<rows, counters, ingested, store, del, fate, count>>

ProjectBatch ==
  /\ tx["projector"].at = "project" /\ LockFree("projector")
  /\ tx' = [tx EXCEPT !["projector"] =
               [@ EXCEPT !.at = "commit", !.locked = TRUE,
                         !.writes = Added(tx["projector"].writes, GainOfRows(tx["projector"].picked))]]
  /\ UNCHANGED <<rows, counters, ingested, store, del, fate, count>>

RowsAfter(p) ==
  [r \in RowIds |-> IF r \in Inserted(p) THEN [report |-> tx[p].new[r], projected |-> TRUE]
                    ELSE IF r \in tx[p].picked THEN [rows[r] EXCEPT !.projected = TRUE]
                    ELSE rows[r]]

\* The ids loaded at the start and the new ones replace the recorded ones.
IngestedAfter(p) == IF p \in Importers /\ tx[p].seen # {} THEN tx[p].known \cup tx[p].seen ELSE ingested

\* MUTANT: the ids are recorded in a transaction of their own.
RolledBackBug(p, again) ==
  /\ tx' = [tx EXCEPT ![p] = Idle]
  /\ ingested' = IngestedAfter(p)
  /\ UNCHANGED <<rows, counters, store, del, fate>>

\* What is left of a transaction that is rolled back.  Memory keeps its
\* reports; an upload whose flush conflicted is saved once more.
RolledBack(p, again) ==
  /\ tx' = [tx EXCEPT ![p] = IF again THEN [Idle EXCEPT !.at = "insert", !.report = tx[p].report] ELSE Idle]
  /\ fate' = [fate EXCEPT !.shadowed = @ \cup Exposed(p)]
  /\ UNCHANGED <<rows, counters, ingested, store, del>>

\* A flush writes a row, and waits for whoever has it locked.
FlushDomain(p) ==
  /\ Flushing(p) /\ tx[p].domain = "dirty" /\ DomainFree(p)
  /\ tx' = [tx EXCEPT ![p].domain = "held"]
  /\ UNCHANGED <<rows, counters, ingested, store, del, fate, count>>

FlushCounter(p, c) ==
  /\ Flushing(p) /\ c \in Undropped(p)
  /\ UNCHANGED count
  /\ IF Fits(p, c)
     THEN tx' = [tx EXCEPT ![p].flushed = @ \cup {c}] /\ UNCHANGED <<rows, counters, ingested, store, del, fate>>
     ELSE RolledBack(p, FALSE)

Commit(p) ==
  /\ tx[p].at = "commit" /\ Flushed(p)
  /\ rows' = RowsAfter(p)
  /\ counters' = [c \in Cells |-> IF tx[p].writes[c] = NoWrite THEN counters[c]
                                  ELSE [counters[c] EXCEPT !.n = tx[p].writes[c].n]]
  /\ ingested' = IngestedAfter(p)
  /\ tx' = [tx EXCEPT ![p] = Idle]
  /\ UNCHANGED <<store, del, fate, count>>

\* Any error of the database or of the process fails the whole transaction.
Fails(p) ==
  /\ tx[p].at # "idle"
  /\ Counted("faults", MaxFaults)
  /\ \E again \in { b \in BOOLEAN : b => p \in Uploaders /\ tx[p].at = "project" } : RolledBack(p, again)

-----------------------------------------------------------------------------
\* delete_persisted_report, statement by statement and without the lock: the
\* counters of the domain go, row by row, every report is to be projected
\* again, and the report goes.
BeginDeletion(r) ==
  /\ LoopFree /\ r \in Present
  /\ Counted("deletes", MaxDeletes)
  /\ del' = [NoDeletion EXCEPT !.at = "drop", !.row = r, !.todo = { c \in Cells : counters[c].n > 0 }]
  /\ fate' = [fate EXCEPT !.overlap = @ \/ ~Quiet]
  /\ UNCHANGED <<rows, counters, ingested, store, tx>>

DropCounter(c) ==
  /\ c \in Droppable
  /\ del' = [del EXCEPT !.todo = @ \ {c}, !.dropped = @ \cup {c}]
  /\ UNCHANGED <<rows, counters, ingested, store, tx, fate, count>>

ResetRows ==
  /\ del.at = "drop" /\ del.todo = {}
  /\ del' = [del EXCEPT !.at = "commit", !.reset = Present]
  /\ UNCHANGED <<rows, counters, ingested, store, tx, fate, count>>

CommitDeletion ==
  /\ del.at = "commit"
  /\ rows' = [r \in RowIds |-> IF r = del.row THEN NoRow
                               ELSE IF r \in del.reset THEN [rows[r] EXCEPT !.projected = FALSE]
                               ELSE rows[r]]
  /\ counters' = [c \in Cells |-> IF c \in del.dropped THEN [gen |-> counters[c].gen + 1, n |-> 0]
                                  ELSE counters[c]]
  /\ fate' = [fate EXCEPT !.deleted = @ \cup {rows[del.row].report}]
  /\ del' = NoDeletion
  /\ UNCHANGED <<ingested, store, tx, count>>

\* The deletion waits for a counter row that the transaction has written, which
\* waits for one that the deletion has dropped ...
MeetsDeletion(p) ==
  Flushing(p) /\ del.todo \cap tx[p].flushed # {} /\ Unflushed(p) \cap del.dropped # {}

\* ... or one transaction has the advisory lock and waits for the row of the
\* domain, and the other has that row and waits for the lock.
Meets(p, q) ==
  /\ Flushing(p) /\ tx[p].locked /\ tx[p].domain = "dirty"
  /\ tx[q].at = "project" /\ tx[q].domain = "held" /\ ~tx[q].locked

\* PostgreSQL ends one of the two.
Deadlock(p) ==
  /\ UNCHANGED count
  /\ \/ (MeetsDeletion(p) \/ \E q \in Procs : Meets(p, q) \/ Meets(q, p)) /\ RolledBack(p, FALSE)
     \/ MeetsDeletion(p) /\ del' = NoDeletion /\ UNCHANGED <<rows, counters, ingested, store, tx, fate>>

-----------------------------------------------------------------------------
\* A page of the web front end reloads the in-memory store from the database.
Hydrate ==
  /\ LoopFree /\ Counted("hydrates", MaxHydrates)
  /\ store' = Stored
  /\ UNCHANGED <<rows, counters, ingested, tx, del, fate>>

\* The process dies, with everything that is not committed.
Crash ==
  /\ Counted("faults", MaxFaults)
  /\ store' = {} /\ tx' = [p \in Procs |-> Idle] /\ del' = NoDeletion
  /\ fate' = [fate EXCEPT !.shadowed = @ \cup UNION { Exposed(p) : p \in Importers }]
  /\ UNCHANGED <<rows, counters, ingested>>

ImportStep(p) ==
  \/ StartImport(p)
  \/ \E m \in Messages : Look(p, m) \/ FetchFails(p, m)
  \/ BreaksOff(p)

FlushStep(p) == FlushDomain(p) \/ \E c \in Cells : FlushCounter(p, c)

Next ==
  \/ \E p \in Importers : ImportStep(p)
  \/ \E p \in Uploaders, rep \in Uploads : StartUpload(p, rep)
  \/ \E p \in Writers : Project(p) \/ \E changes \in BOOLEAN : Insert(p, changes) \/ Refuse(p, changes)
  \/ Pick \/ ProjectBatch
  \/ \E p \in Procs : FlushStep(p) \/ Commit(p) \/ Fails(p) \/ Deadlock(p)
  \/ \E r \in RowIds : BeginDeletion(r)
  \/ \E c \in Cells : DropCounter(c)
  \/ ResetRows \/ CommitDeletion
  \/ Hydrate \/ Crash

Spec == Init /\ [][Next]_vars

\* What a process that has begun goes on to do, and what a deletion does.
Continue(p) ==
  \/ p \in Importers /\ \E m \in Messages : Look(p, m)
  \/ p \in Writers /\ (Project(p) \/ \E changes \in BOOLEAN : Insert(p, changes))
  \/ p = "projector" /\ ProjectBatch
  \/ FlushStep(p) \/ Commit(p)

Delete == (\E c \in Cells : DropCounter(c)) \/ ResetRows \/ CommitDeletion

\* The scheduler and the worker run for ever and what has begun goes on.
\* PostgreSQL grants a lock in the order in which it is asked for, which is why
\* these are strong, and ends deadlocks.
Fairness ==
  /\ WF_vars(StartImport(Scheduler)) /\ WF_vars(Pick)
  /\ \A p \in Procs : SF_vars(Continue(p))
  /\ SF_vars(Delete) /\ WF_vars(\E p \in Procs : Deadlock(p))

FairSpec == Spec /\ Fairness

-----------------------------------------------------------------------------
\* Every variable keeps its shape.
TypeOK ==
  /\ rows \in [RowIds -> RowState]
  /\ counters \in [Cells -> [gen : Nat, n : Nat]]
  /\ ingested \subseteq Messages /\ store \subseteq Reports
  /\ tx \in [Procs -> [at : {"idle", "read", "insert", "project", "commit"},
                       known : SUBSET Messages, todo : SUBSET Messages, seen : SUBSET Messages,
                       report : Reports \cup {None}, new : [RowIds -> Reports \cup {None}],
                       picked : SUBSET RowIds, locked : BOOLEAN,
                       writes : [Cells -> [gen : Nat, had : BOOLEAN, n : Nat]],
                       flushed : SUBSET Cells, domain : {"clean", "dirty", "held"}]]
  /\ del \in [at : {"idle", "drop", "commit"}, row : RowIds \cup {None},
              todo : SUBSET Cells, dropped : SUBSET Cells, reset : SUBSET RowIds]
  /\ fate \in [deleted : SUBSET Reports, refused : SUBSET Reports,
               shadowed : SUBSET Reports, unread : SUBSET Messages, overlap : BOOLEAN]
  /\ count \in [{"manual", "uploads", "deletes", "hydrates", "faults"} -> Nat]

-----------------------------------------------------------------------------
\* source_projection_is_complete
Complete == \A r \in Present : rows[r].projected

CountersMatch == \A c \in Cells : counters[c].n = Cardinality(Projected(c))

\* As long as no deletion has overlapped other work, the committed counter of a
\* sender and day is the number of the stored reports that are marked as
\* projected into it, however importers, uploads and the worker overlap.
CountersAreRight == fate.overlap \/ CountersMatch

\* Reports a message may be recorded for although they are not stored: deleted,
\* over the volume limit, or once seen in memory and then rolled back.
Kept(rep) ==
  \/ rep \in Stored \cup fate.deleted \cup fate.refused \cup fate.shadowed
  \/ \E p \in Importers : rep \in Exposed(p)

\* A message is not recorded as ingested, and so never read again, unless its
\* report is kept or its fetch failed in an importer that does not retry.
IngestedIsAccountedFor == \A m \in ingested : m \in fate.unread \/ Kept(Carries[m])

\* What a transaction, or the deletion, does next waits for nobody.
GoesOn(p) ==
  \/ tx[p].at = "read" /\ tx[p].todo # {}
  \/ tx[p].at = "insert"
  \/ Flushing(p) /\ Undropped(p) # {}
  \/ Flushing(p) /\ tx[p].domain = "dirty" /\ DomainFree(p)
  \/ tx[p].at = "project" /\ Flushed(p) /\ LockFree(p)
  \/ tx[p].at = "commit" /\ Flushed(p)

DeletionGoesOn == del.at = "commit" \/ (del.at = "drop" /\ del.todo = {}) \/ Droppable # {}

\* Importers, uploads, the worker and a deletion never wait for one another in a
\* circle, unless it is one that PostgreSQL sees: a deletion and a transaction that
\* want each other's counter rows, or two transactions that want each other's
\* advisory lock and row of the domain.  About locks that importers keep from the
\* middle of a batch until they commit.
SomebodyGoesOn ==
  ~Quiet \/ del.at # "idle" =>
    \/ \E p \in Procs : GoesOn(p)
    \/ DeletionGoesOn
    \/ \E p \in Procs : MeetsDeletion(p) \/ \E q \in Procs : Meets(p, q)

Settled(m) ==
  m \in fate.unread \/ Carries[m] \in Stored \cup fate.deleted \cup fate.refused \cup fate.shadowed

\* The scheduler gets round to every message, although overlapping importers
\* overwrite each other's ids and any of their transactions may fail.
EveryMessageIsHandled == <>(\A m \in Messages : Settled(m))

\* The worker never falls behind for good: again and again every stored report
\* is in the counters, also after a deletion that resets all of them.
EveryRowIsProjected == []<>Complete
=============================================================================

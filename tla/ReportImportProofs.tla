------------------------- MODULE ReportImportProofs -------------------------
(***************************************************************************)
(* Theorems about ReportImport, for any importers, reports, rows and       *)
(* bounds.                                                                 *)
(*                                                                         *)
(* A step changes one transaction, and ShapeInv says what a transaction    *)
(* may look like; RowsInv says how transactions and a deletion relate to   *)
(* the committed rows.  For an ingested message, what has to be followed   *)
(* is everything that may make one: the ids an importer has loaded, those  *)
(* it has read, and the reports in memory (TraceInv).  For the counters,   *)
(* it is what a transaction has not committed (CountInv).                  *)
(* For waiting, it is who has the advisory lock, the counter rows written  *)
(* under it, and the row of the domain (WaitInv).                          *)
(***************************************************************************)
EXTENDS ReportImport, FiniteSetTheorems, TLAPS

-----------------------------------------------------------------------------
(***************************************************************************)
(* Transactions                                                            *)
(***************************************************************************)
WriteType == [gen : Nat, had : BOOLEAN, n : Nat]

TxType ==
  [at : {"idle", "read", "insert", "project", "commit"},
   known : SUBSET Messages, todo : SUBSET Messages, seen : SUBSET Messages,
   report : Reports \cup {None}, new : [RowIds -> Reports \cup {None}],
   picked : SUBSET RowIds, locked : BOOLEAN, writes : [Cells -> WriteType],
   flushed : SUBSET Cells, domain : {"clean", "dirty", "held"}]

DelType == [at : {"idle", "drop", "commit"}, row : RowIds \cup {None},
            todo : SUBSET Cells, dropped : SUBSET Cells, reset : SUBSET RowIds]

FateType == [deleted : SUBSET Reports, refused : SUBSET Reports,
             shadowed : SUBSET Reports, unread : SUBSET Messages, overlap : BOOLEAN]

Bounded == {"manual", "uploads", "deletes", "hydrates", "faults"}

\* What the transaction t of process p looks like: where it has a report at
\* hand, which rows it has inserted, and what it has written to counters.
Shape(p, t) ==
  /\ t \in TxType
  /\ t.at = "idle" => t = Idle
  /\ t.at \notin {"insert", "project"} => t.report = None
  /\ t.at = "insert" => t.report # None /\ \A r \in RowIds : t.new[r] # t.report
  /\ \A r, s \in RowIds : t.new[r] # None /\ t.new[r] = t.new[s] => r = s
  /\ ~t.locked => \A c \in Cells : t.writes[c] = NoWrite
  /\ \A c \in t.flushed : t.writes[c] # NoWrite
  /\ ~t.locked => \A r \in RowIds : t.new[r] \in {None, t.report}
  /\ p \in Writers => /\ t.picked = {}
                      /\ t.at = "project" => t.report # None /\ \E r \in RowIds : t.new[r] = t.report
  /\ p \notin Writers => /\ t.at \in {"idle", "project", "commit"} /\ t.report = None
                         /\ \A r \in RowIds : t.new[r] = None
                         /\ t.at = "project" => ~t.locked
                         /\ t.at = "commit" => t.locked

ShapeInv == \A p \in Procs : Shape(p, tx[p])

\* Rows that are being inserted are new and belong to one transaction; those
\* the worker has picked are there and not projected; and the worker and a
\* deletion, which share the event loop, are not under way at once.
RowsInv ==
  /\ \A p \in Procs : \A r \in RowIds : tx[p].new[r] # None =>
       rows[r] = NoRow /\ \A q \in Procs \ {p} : tx[q].new[r] = None
  /\ \A r \in tx["projector"].picked : rows[r] # NoRow /\ ~rows[r].projected
  /\ del.at # "idle" => /\ del.row \in RowIds /\ rows[del.row] # NoRow
                        /\ tx["projector"].at = "idle"
  /\ del.at = "commit" => del.row \in del.reset /\ \A r \in del.reset : rows[r] # NoRow

LEMMA NoneIsNoReport == None \notin Reports
BY ImportAssumption DEF None

LEMMA ProcKinds ==
  /\ Importers \subseteq Writers /\ Uploaders \subseteq Writers /\ Writers \subseteq Procs
  /\ "projector" \in Procs /\ "projector" \notin Writers
  /\ \A p \in Procs \ Writers : p = "projector"
  /\ Importers \cap Uploaders = {} /\ Scheduler \in Importers
  /\ "projector" \notin Threads
BY ImportAssumption DEF Importers, Writers, Procs

LEMMA IdleFields ==
  /\ Idle \in TxType
  /\ Idle.at = "idle" /\ Idle.known = {} /\ Idle.todo = {} /\ Idle.seen = {} /\ Idle.report = None
  /\ Idle.new = [r \in RowIds |-> None] /\ Idle.picked = {} /\ Idle.locked = FALSE
  /\ Idle.writes = [c \in Cells |-> NoWrite] /\ Idle.flushed = {} /\ Idle.domain = "clean"
<1>1. NoWrite \in WriteType
  BY DEF NoWrite, WriteType
<1> QED BY <1>1 DEF Idle, TxType

LEMMA IdleShape == ASSUME NEW p PROVE Shape(p, Idle)
BY IdleFields DEF Shape

\* A transaction that keeps the rows it has and the counters it has written.
Keeps(t, u) == u.new = t.new /\ u.picked = t.picked /\ u.locked = t.locked /\ u.writes = t.writes

LEMMA AfterReportFields ==
  ASSUME NEW t \in TxType
  PROVE  LET u == AfterReport(t) IN
         /\ u \in TxType /\ Keeps(t, u) /\ u.flushed = t.flushed /\ u.domain = t.domain
         /\ u.known = t.known /\ u.seen = t.seen /\ u.report = None /\ u.at \in {"read", "commit"}
BY DEF AfterReport, TxType, Keeps

\* Taking over a policy changes nothing else.
LEMMA PolicyFields ==
  ASSUME NEW t \in TxType, NEW changes \in BOOLEAN
  PROVE  LET u == WithPolicy(t, changes) IN
         /\ u \in TxType /\ Keeps(t, u) /\ u.flushed = t.flushed /\ (u.domain = "held" <=> t.domain = "held")
         /\ u.at = t.at /\ u.known = t.known /\ u.todo = t.todo /\ u.seen = t.seen /\ u.report = t.report
BY DEF WithPolicy, TxType, Keeps

LEMMA PolicyShape ==
  ASSUME NEW p, NEW t, Shape(p, t), t.at # "idle", NEW changes \in BOOLEAN
  PROVE  Shape(p, WithPolicy(t, changes))
<1> DEFINE u == WithPolicy(t, changes)
<1>1. t \in TxType
  BY DEF Shape
<1>2. /\ u \in TxType /\ Keeps(t, u) /\ u.flushed = t.flushed /\ u.at = t.at /\ u.report = t.report
  BY <1>1, PolicyFields
<1> HIDE DEF u
<1>3. Shape(p, u)
  BY <1>2 DEF Shape, Keeps
<1> QED BY <1>3 DEF u

LEMMA DoneFields ==
  ASSUME NEW t \in TxType, NEW m \in Messages, NEW counts \in BOOLEAN
  PROVE  LET u == Done(t, m, counts) IN
         /\ u \in TxType /\ Keeps(t, u) /\ u.flushed = t.flushed /\ u.domain = t.domain
         /\ u.known = t.known /\ u.report = t.report /\ u.at \in {"read", "commit"}
         /\ u.seen = IF counts THEN t.seen \cup {m} ELSE t.seen
BY DEF Done, TxType, Keeps

\* A report is let go at the insertion.
LEMMA AfterReportShape ==
  ASSUME NEW p \in Writers, NEW t, Shape(p, t), t.at = "insert"
  PROVE  Shape(p, AfterReport(t))
<1> DEFINE u == AfterReport(t)
<1>1. t \in TxType
  BY DEF Shape
<1>2. /\ u \in TxType /\ Keeps(t, u) /\ u.flushed = t.flushed
      /\ u.known = t.known /\ u.seen = t.seen /\ u.report = None /\ u.at \in {"read", "commit"}
  BY <1>1, AfterReportFields
<1>3. p \in Writers /\ u.at \notin {"idle", "insert", "project"}
  BY <1>2
<1> HIDE DEF u
<1>4. Shape(p, u)
  BY <1>2, <1>3 DEF Shape, Keeps
<1> QED BY <1>4 DEF u

\* A message is dealt with.
LEMMA DoneShape ==
  ASSUME NEW p \in Writers, NEW t, Shape(p, t), t.at = "read",
         NEW m \in Messages, NEW counts \in BOOLEAN
  PROVE  Shape(p, Done(t, m, counts))
<1> DEFINE u == Done(t, m, counts)
<1>1. t \in TxType /\ t.report = None
  BY DEF Shape
<1>2. u \in TxType /\ Keeps(t, u) /\ u.flushed = t.flushed /\ u.report = None /\ u.at \in {"read", "commit"}
  BY <1>1, DoneFields
<1>3. p \in Writers /\ u.at \notin {"idle", "insert", "project"}
  BY <1>2
<1> HIDE DEF u
<1>4. Shape(p, u)
  BY <1>1, <1>2, <1>3 DEF Shape, Keeps
<1> QED BY <1>4 DEF u

\* A message whose report is to be stored.
FoundTx(t, m, rep) == [Done(t, m, TRUE) EXCEPT !.at = "insert", !.report = rep]

LEMMA FoundShape ==
  ASSUME NEW p \in Writers, NEW t, Shape(p, t), t.at = "read", NEW m \in Messages,
         NEW rep \in Reports, \A r \in RowIds : t.new[r] # rep
  PROVE  LET u == FoundTx(t, m, rep) IN
         /\ Shape(p, u) /\ Keeps(t, u) /\ u.at = "insert"
         /\ u.known = t.known /\ u.seen = t.seen \cup {m} /\ u.report = rep
<1> DEFINE v == Done(t, m, TRUE)
           u == FoundTx(t, m, rep)
<1>1. t \in TxType /\ t.report = None /\ rep # None
  BY NoneIsNoReport DEF Shape
<1>2. /\ v \in TxType /\ Keeps(t, v) /\ v.flushed = t.flushed /\ v.known = t.known
      /\ v.seen = t.seen \cup {m}
  BY <1>1, DoneFields
<1> HIDE DEF v
<1>3. /\ u \in TxType /\ Keeps(t, u) /\ u.flushed = t.flushed /\ u.known = v.known /\ u.seen = v.seen
      /\ u.at = "insert" /\ u.report = rep
  BY <1>2 DEF FoundTx, v, TxType, Keeps
<1> HIDE DEF u
<1>4. \A r \in RowIds : u.new[r] # u.report
  BY <1>3 DEF Keeps
<1>5. ~t.locked => \A r \in RowIds : t.new[r] = None
  BY <1>1 DEF Shape
<1>6. Shape(p, u)
  BY <1>1, <1>3, <1>4, <1>5 DEF Shape, Keeps
<1> QED BY <1>2, <1>3, <1>6 DEF u

\* A transaction begins.
ImportTx(at, ids) == [Idle EXCEPT !.at = at, !.known = ids, !.todo = Messages \ ids]
UploadTx(rep) == [Idle EXCEPT !.at = "insert", !.report = rep]
BatchTx(batch) == [Idle EXCEPT !.at = "project", !.picked = batch]

LEMMA ImportShape ==
  ASSUME NEW p \in Writers, NEW at \in {"read", "commit"}, NEW ids \in SUBSET Messages
  PROVE  LET u == ImportTx(at, ids) IN
         Shape(p, u) /\ Keeps(Idle, u) /\ u.at = at /\ u.known = ids /\ u.seen = {} /\ u.report = None
<1> DEFINE u == ImportTx(at, ids)
<1>1. /\ u \in TxType /\ Keeps(Idle, u) /\ u.flushed = {} /\ u.at = at /\ u.known = ids /\ u.seen = {} /\ u.report = None
  BY IdleFields DEF ImportTx, TxType, Keeps
<1> HIDE DEF u
<1>2. p \in Writers /\ u.at \notin {"idle", "insert", "project"}
  BY <1>1
<1>3. Shape(p, u)
  BY <1>1, <1>2, IdleFields DEF Shape, Keeps
<1> QED BY <1>1, <1>3 DEF u

LEMMA UploadShape ==
  ASSUME NEW p \in Writers, NEW rep \in Reports
  PROVE  LET u == UploadTx(rep) IN
         /\ Shape(p, u) /\ Keeps(Idle, u) /\ u.at = "insert" /\ u.known = {} /\ u.seen = {} /\ u.report = rep
<1> DEFINE u == UploadTx(rep)
<1>1. /\ u \in TxType /\ Keeps(Idle, u) /\ u.flushed = {}
      /\ u.at = "insert" /\ u.known = {} /\ u.seen = {} /\ u.report = rep
  BY IdleFields DEF UploadTx, TxType, Keeps
<1> HIDE DEF u
<1>2. Shape(p, u)
  BY <1>1, IdleFields, NoneIsNoReport DEF Shape, Keeps
<1> QED BY <1>1, <1>2 DEF u

LEMMA BatchShape ==
  ASSUME NEW batch \in SUBSET RowIds
  PROVE  LET u == BatchTx(batch) IN
         /\ Shape("projector", u) /\ u.at = "project" /\ u.report = None /\ u.new = Idle.new
         /\ u.picked = batch /\ u.locked = FALSE /\ u.writes = Idle.writes /\ u.known = {} /\ u.seen = {}
<1> DEFINE u == BatchTx(batch)
<1>1. /\ u \in TxType /\ u.flushed = {} /\ u.at = "project" /\ u.report = None /\ u.new = Idle.new
      /\ u.picked = batch /\ u.locked = FALSE /\ u.writes = Idle.writes /\ u.known = {} /\ u.seen = {}
  BY IdleFields DEF BatchTx, TxType
<1> HIDE DEF u
<1>2. Shape("projector", u)
  BY <1>1, IdleFields, ProcKinds DEF Shape
<1> QED BY <1>1, <1>2 DEF u

\* The row of the report at hand is inserted.
RowTx(t, r) == [t EXCEPT !.at = "project", !.new[r] = t.report]
InsertTx(t, r, changes) == WithPolicy(RowTx(t, r), changes)

LEMMA InsertShape ==
  ASSUME NEW p \in Writers, NEW t, Shape(p, t), t.at = "insert", NEW r \in RowIds, t.new[r] = None,
         NEW changes \in BOOLEAN
  PROVE  LET u == InsertTx(t, r, changes) IN
         /\ Shape(p, u) /\ u.at = "project" /\ u.known = t.known /\ u.seen = t.seen
         /\ u.report = t.report /\ u.picked = t.picked /\ u.locked = t.locked /\ u.writes = t.writes
         /\ \A s \in RowIds : u.new[s] = IF s = r THEN t.report ELSE t.new[s]
<1> DEFINE v == RowTx(t, r)
           u == InsertTx(t, r, changes)
<1>1. t \in TxType /\ t.report # None /\ t.report \in Reports
  BY DEF Shape, TxType
<1>2. /\ v \in TxType /\ v.at = "project" /\ v.known = t.known /\ v.seen = t.seen
      /\ v.report = t.report /\ v.picked = t.picked /\ v.locked = t.locked /\ v.writes = t.writes
      /\ v.flushed = t.flushed
      /\ \A s \in RowIds : v.new[s] = IF s = r THEN t.report ELSE t.new[s]
  BY <1>1 DEF RowTx, TxType
<1> HIDE DEF v
<1>3. \A a, b \in RowIds : v.new[a] # None /\ v.new[a] = v.new[b] => a = b
  BY <1>2 DEF Shape
<1>4. v.report # None /\ v.new[r] = v.report
  BY <1>1, <1>2
<1>5. Shape(p, v)
  BY <1>2, <1>3, <1>4 DEF Shape
<1>6. u = WithPolicy(v, changes)
  BY DEF InsertTx, v
<1> HIDE DEF u
<1>7. /\ Shape(p, u) /\ Keeps(v, u) /\ u.at = v.at /\ u.known = v.known /\ u.seen = v.seen
      /\ u.report = v.report
  BY <1>2, <1>5, <1>6, PolicyShape, PolicyFields
<1> QED BY <1>2, <1>7 DEF u, Keeps

\* What is written to the counters.
LEMMA AddedType ==
  ASSUME NEW w \in [Cells -> WriteType], NEW gain \in [Cells -> Nat],
         counters \in [Cells -> [gen : Nat, n : Nat]]
  PROVE  /\ Added(w, gain) \in [Cells -> WriteType]
         /\ \A c \in Cells : gain[c] = 0 => Added(w, gain)[c] = w[c]
         /\ \A c \in Cells : gain[c] # 0 =>
              /\ Added(w, gain)[c] # NoWrite
              /\ Added(w, gain)[c].n = gain[c] + IF w[c] = NoWrite THEN counters[c].n ELSE w[c].n
<1>1. ASSUME NEW c \in Cells
      PROVE  /\ Added(w, gain)[c] \in WriteType
             /\ gain[c] = 0 => Added(w, gain)[c] = w[c]
             /\ gain[c] # 0 =>
                  Added(w, gain)[c].n = gain[c] + IF w[c] = NoWrite THEN counters[c].n ELSE w[c].n
  BY DEF Added, WriteType
<1>2. ASSUME NEW c \in Cells, gain[c] # 0 PROVE Added(w, gain)[c] # NoWrite
  <2>1. Added(w, gain)[c].n > 0
    <3> DEFINE old == IF w[c] = NoWrite THEN counters[c].n ELSE w[c].n
    <3>1. old \in Nat /\ gain[c] \in Nat
      BY DEF WriteType
    <3>2. Added(w, gain)[c].n = gain[c] + old
      BY <1>1, <1>2
    <3> HIDE DEF old
    <3> QED BY <1>2, <3>1, <3>2
  <2> QED BY <2>1 DEF NoWrite
<1>3. Added(w, gain) = [c \in Cells |-> Added(w, gain)[c]]
  BY DEF Added
<1> QED BY <1>1, <1>2, <1>3

\* The report at hand is added to its counter.
ProjectTx(t) == [AfterReport(t) EXCEPT !.locked = TRUE, !.writes = Added(t.writes, GainOf(t.report))]

LEMMA GainType == ASSUME NEW rep \in Reports PROVE GainOf(rep) \in [Cells -> Nat]
BY DEF GainOf

LEMMA ProjectShape ==
  ASSUME NEW p \in Writers, NEW t, Shape(p, t), t.at = "project",
         counters \in [Cells -> [gen : Nat, n : Nat]]
  PROVE  LET u == ProjectTx(t) IN
         /\ Shape(p, u) /\ u.at \in {"read", "commit"} /\ u.known = t.known /\ u.seen = t.seen
         /\ u.report = None /\ u.new = t.new /\ u.picked = t.picked /\ u.locked
         /\ u.writes = Added(t.writes, GainOf(t.report))
<1> DEFINE v == AfterReport(t)
           u == ProjectTx(t)
<1>1. t \in TxType /\ t.report \in Reports
  BY DEF Shape, TxType
<1>2. /\ v \in TxType /\ Keeps(t, v) /\ v.flushed = t.flushed
      /\ v.known = t.known /\ v.seen = t.seen /\ v.report = None /\ v.at \in {"read", "commit"}
  BY <1>1, AfterReportFields
<1>3. t.writes \in [Cells -> WriteType] /\ t.flushed \subseteq Cells
  BY <1>1 DEF TxType
<1>4. /\ Added(t.writes, GainOf(t.report)) \in [Cells -> WriteType]
      /\ \A c \in t.flushed : Added(t.writes, GainOf(t.report))[c] # NoWrite
  BY <1>1, <1>3, AddedType, GainType DEF Shape
<1> HIDE DEF v
<1>5. /\ u \in TxType /\ u.at = v.at /\ u.known = v.known /\ u.seen = v.seen /\ u.report = v.report
      /\ u.new = v.new /\ u.picked = v.picked /\ u.locked /\ u.writes = Added(t.writes, GainOf(t.report))
      /\ u.flushed = v.flushed
  BY <1>2, <1>4 DEF ProjectTx, TxType, v, Keeps
<1> HIDE DEF u
<1>6. Shape(p, u)
  BY <1>2, <1>4, <1>5 DEF Shape, Keeps
<1> QED BY <1>2, <1>5, <1>6 DEF u, Keeps

BatchedTx(t) == [t EXCEPT !.at = "commit", !.locked = TRUE, !.writes = Added(t.writes, GainOfRows(t.picked))]

LEMMA GainOfRowsType ==
  ASSUME NEW ids \in SUBSET RowIds
  PROVE  GainOfRows(ids) \in [Cells -> Nat]
<1>1. ASSUME NEW c \in Cells PROVE Cardinality({ r \in ids : c \in CellsOf[rows[r].report] }) \in Nat
  BY ImportAssumption, FS_Subset, FS_CardinalityType
<1> QED BY <1>1 DEF GainOfRows

LEMMA BatchedShape ==
  ASSUME NEW t, Shape("projector", t), t.at = "project",
         counters \in [Cells -> [gen : Nat, n : Nat]]
  PROVE  LET u == BatchedTx(t) IN
         /\ Shape("projector", u) /\ u.at = "commit" /\ u.known = t.known /\ u.seen = t.seen
         /\ u.report = t.report /\ u.new = t.new /\ u.picked = t.picked /\ u.locked
         /\ u.writes = Added(t.writes, GainOfRows(t.picked))
<1> DEFINE u == BatchedTx(t)
<1>1. t \in TxType /\ t.report = None
  BY ProcKinds DEF Shape
<1>2. /\ t.writes \in [Cells -> WriteType] /\ t.picked \in SUBSET RowIds
      /\ t.flushed = {}
  BY <1>1, ProcKinds DEF TxType, Shape
<1>3. Added(t.writes, GainOfRows(t.picked)) \in [Cells -> WriteType]
  BY <1>2, AddedType, GainOfRowsType
<1>4. /\ u \in TxType /\ u.at = "commit" /\ u.known = t.known /\ u.seen = t.seen
      /\ u.report = t.report /\ u.new = t.new /\ u.picked = t.picked /\ u.locked
      /\ u.writes = Added(t.writes, GainOfRows(t.picked)) /\ u.flushed = {}
  BY <1>1, <1>2, <1>3 DEF BatchedTx, TxType
<1> HIDE DEF u
<1>5. Shape("projector", u)
  BY <1>1, <1>4, ProcKinds DEF Shape
<1> QED BY <1>4, <1>5 DEF u

-----------------------------------------------------------------------------
(***************************************************************************)
(* Kinds of steps                                                          *)
(***************************************************************************)
CoreType ==
  /\ rows \in [RowIds -> RowState]
  /\ counters \in [Cells -> [gen : Nat, n : Nat]]
  /\ del \in DelType
  /\ fate.overlap \in BOOLEAN

\* A transaction goes on without touching rows and counters.  One that begins
\* while a deletion is under way says so.
Moves(p) ==
  /\ tx' = [tx EXCEPT ![p] = tx'[p]]
  /\ Shape(p, tx'[p]) /\ Keeps(tx[p], tx'[p])
  /\ \A r \in RowIds : tx[p].new[r] # None => (tx[p].new[r] = tx'[p].report <=> tx[p].new[r] = tx[p].report)
  /\ fate'.overlap \in BOOLEAN /\ (fate.overlap => fate'.overlap)
  /\ fate'.overlap \/ del.at = "idle" \/ tx[p].at # "idle"
  /\ p \in Writers \/ tx[p].at # "idle"
  /\ UNCHANGED <<rows, counters, del>>

InsertsRow(p) ==
  /\ tx[p].at = "insert"
  /\ \E r \in FreeRows, changes \in BOOLEAN : tx' = [tx EXCEPT ![p] = InsertTx(tx[p], r, changes)]
  /\ UNCHANGED <<rows, counters, del, fate>>

Projects(p) ==
  /\ tx[p].at = "project" /\ LockFree(p)
  /\ tx' = [tx EXCEPT ![p] = ProjectTx(tx[p])]
  /\ UNCHANGED <<rows, counters, del, fate>>

Picks ==
  /\ tx["projector"].at = "idle" /\ del.at = "idle"
  /\ \E batch \in SUBSET Due : tx' = [tx EXCEPT !["projector"] = BatchTx(batch)]
  /\ UNCHANGED <<rows, counters, del, fate>>

ProjectsBatch ==
  /\ tx["projector"].at = "project" /\ LockFree("projector")
  /\ tx' = [tx EXCEPT !["projector"] = BatchedTx(tx["projector"])]
  /\ UNCHANGED <<rows, counters, del, fate>>

Commits(p) ==
  /\ tx[p].at = "commit"
  /\ rows' = RowsAfter(p)
  /\ counters' = [c \in Cells |-> IF tx[p].writes[c] = NoWrite THEN counters[c]
                                  ELSE [counters[c] EXCEPT !.n = tx[p].writes[c].n]]
  /\ tx' = [tx EXCEPT ![p] = Idle]
  /\ UNCHANGED <<del, fate>>

\* Transactions, or the deletion, are rolled back.
Undoes ==
  /\ \A p \in Procs : \/ tx'[p] = tx[p] \/ tx'[p] = Idle
                      \/ p \in Writers /\ tx[p].at = "project" /\ tx'[p] = UploadTx(tx[p].report)
  /\ tx' = [p \in Procs |-> tx'[p]]
  /\ \A p \in Procs : tx'[p] = tx[p] \/ Exposed(p) \subseteq fate'.shadowed
  /\ del' \in {del, NoDeletion}
  /\ fate'.overlap = fate.overlap
  /\ UNCHANGED <<rows, counters>>

Deletes ==
  \/ \E r \in RowIds : BeginDeletion(r)
  \/ \E c \in Cells : DropCounter(c)
  \/ ResetRows
  \/ CommitDeletion

\* What a rolled back transaction may become.
LEMMA RolledBackKind ==
  ASSUME TypeOK, NEW p \in Procs, NEW again \in BOOLEAN,
         again => p \in Uploaders /\ tx[p].at = "project", RolledBack(p, again)
  PROVE  Undoes
<1>1. tx'[p] = IF again THEN UploadTx(tx[p].report) ELSE Idle
  BY DEF RolledBack, TypeOK, UploadTx
<1>2. \A q \in Procs : q # p => tx'[q] = tx[q]
  BY DEF RolledBack, TypeOK
<1>3. /\ fate'.overlap = fate.overlap /\ tx' = [q \in Procs |-> tx'[q]]
      /\ Exposed(p) \subseteq fate'.shadowed
  BY DEF RolledBack, TypeOK
<1> QED BY <1>1, <1>2, <1>3, ProcKinds DEF RolledBack, Undoes

LEMMA MetByKind ==
  ASSUME TypeOK, fate' = MetBy
  PROVE  /\ fate'.overlap = (fate.overlap \/ del.at # "idle") /\ fate'.overlap \in BOOLEAN
         /\ fate'.deleted = fate.deleted /\ fate'.refused = fate.refused
         /\ fate'.shadowed = fate.shadowed /\ fate'.unread = fate.unread
BY DEF TypeOK, MetBy

LEMMA StartImportKind ==
  ASSUME TypeOK, ShapeInv, NEW p \in Importers, StartImport(p)
  PROVE  /\ Moves(p) /\ tx'[p].known = ingested /\ tx'[p].seen = {} /\ tx'[p].report = None
<1> DEFINE at == IF Messages \subseteq ingested THEN "commit" ELSE "read"
<1>1. p \in Writers /\ p \in Procs /\ Shape(p, tx[p]) /\ tx[p] = Idle
  BY ProcKinds DEF StartImport, ShapeInv, Shape
<1>2. at \in {"read", "commit"} /\ ingested \in SUBSET Messages
  BY DEF TypeOK
<1>3. tx'[p] = ImportTx(at, ingested) /\ tx' = [tx EXCEPT ![p] = tx'[p]]
  BY <1>1 DEF StartImport, TypeOK, ImportTx
<1> HIDE DEF at
<1>4. /\ Shape(p, tx'[p]) /\ Keeps(Idle, tx'[p]) /\ tx'[p].known = ingested /\ tx'[p].seen = {}
      /\ tx'[p].report = None
  BY <1>1, <1>2, <1>3, ImportShape
<1>5. fate'.overlap = (fate.overlap \/ del.at # "idle") /\ fate'.overlap \in BOOLEAN
  BY MetByKind DEF StartImport
<1>6. UNCHANGED <<rows, counters, del>>
  BY DEF StartImport
<1>7. Moves(p)
  BY <1>1, <1>3, <1>4, <1>5, <1>6, IdleFields DEF Moves
<1> QED BY <1>4, <1>7

LEMMA StartUploadKind ==
  ASSUME TypeOK, ShapeInv, NEW p \in Uploaders, NEW rep \in Uploads, StartUpload(p, rep)
  PROVE  Moves(p)
<1>1. /\ p \in Writers /\ p \in Procs /\ p \notin Threads /\ Shape(p, tx[p]) /\ tx[p] = Idle
      /\ rep \in Reports
  BY ProcKinds, ImportAssumption DEF StartUpload, LoopFree, ShapeInv, Shape
<1>2. tx'[p] = UploadTx(rep) /\ tx' = [tx EXCEPT ![p] = tx'[p]]
  BY <1>1 DEF StartUpload, TypeOK, UploadTx
<1>3. Shape(p, tx'[p]) /\ Keeps(Idle, tx'[p])
  BY <1>1, <1>2, UploadShape
<1>4. fate'.overlap = fate.overlap /\ fate'.overlap \in BOOLEAN /\ del.at = "idle"
  BY DEF StartUpload, LoopFree, TypeOK
<1>5. UNCHANGED <<rows, counters, del>>
  BY DEF StartUpload
<1> QED BY <1>1, <1>2, <1>3, <1>4, <1>5, IdleFields DEF Moves

LEMMA FetchFailsKind ==
  ASSUME TypeOK, ShapeInv, NEW p \in Importers, NEW m \in Messages, FetchFails(p, m)
  PROVE  /\ Moves(p) /\ tx'[p].known = tx[p].known /\ tx'[p].report = None
         /\ tx'[p].seen = IF p \in Retrying THEN tx[p].seen ELSE tx[p].seen \cup {m}
<1>1. p \in Writers /\ p \in Procs /\ Shape(p, tx[p]) /\ tx[p].at = "read"
  BY ProcKinds DEF FetchFails, ShapeInv
<1>2. tx'[p] = Done(tx[p], m, p \notin Retrying) /\ tx' = [tx EXCEPT ![p] = tx'[p]]
  BY <1>1 DEF FetchFails, TypeOK
<1>3. Shape(p, tx'[p])
  BY <1>1, <1>2, DoneShape
<1>4. tx[p] \in TxType /\ tx[p].report = None
  BY <1>1 DEF Shape
<1>5. /\ Keeps(tx[p], tx'[p]) /\ tx'[p].known = tx[p].known /\ tx'[p].report = None
      /\ tx'[p].seen = IF p \in Retrying THEN tx[p].seen ELSE tx[p].seen \cup {m}
  BY <1>2, <1>4 DEF Done, TxType, Keeps
<1>6. UNCHANGED <<rows, counters, del>>
  BY DEF FetchFails
<1>7. fate'.overlap = fate.overlap /\ fate.overlap \in BOOLEAN
  BY DEF FetchFails, TypeOK
<1>8. Moves(p)
  BY <1>1, <1>2, <1>3, <1>4, <1>5, <1>6, <1>7 DEF Moves
<1> QED BY <1>5, <1>8

LEMMA LookKind ==
  ASSUME TypeOK, ShapeInv, NEW p \in Importers, NEW m \in Messages, Look(p, m)
  PROVE  /\ Moves(p) /\ tx'[p].known = tx[p].known /\ tx'[p].seen = tx[p].seen \cup {m}
         /\ tx[p].report = None
         /\ Carries[m] \in Reports
         /\ \/ Carries[m] \in store \cup Stored \cup Pending(p) /\ tx'[p].report = None
            \/ tx'[p].report = Carries[m]
<1>1. p \in Writers /\ p \in Procs /\ Shape(p, tx[p]) /\ tx[p].at = "read"
  BY ProcKinds DEF Look, ShapeInv
<1>2. tx[p] \in TxType /\ tx[p].report = None /\ Carries[m] \in Reports /\ Carries[m] # None
  BY <1>1, ImportAssumption, NoneIsNoReport DEF Shape
<1>3. UNCHANGED <<rows, counters, del, fate>> /\ fate.overlap \in BOOLEAN
  BY DEF Look, TypeOK
<1>4. CASE Carries[m] \in store \cup Stored \cup Pending(p)
  <2>1. tx'[p] = Done(tx[p], m, TRUE) /\ tx' = [tx EXCEPT ![p] = tx'[p]]
    BY <1>1, <1>4 DEF Look, TypeOK
  <2>2. Shape(p, tx'[p])
    BY <1>1, <2>1, DoneShape
  <2>3. /\ Keeps(tx[p], tx'[p]) /\ tx'[p].known = tx[p].known /\ tx'[p].report = None
        /\ tx'[p].seen = tx[p].seen \cup {m}
    BY <1>2, <2>1 DEF Done, TxType, Keeps
  <2>4. Moves(p)
    BY <1>1, <1>2, <1>3, <2>1, <2>2, <2>3 DEF Moves
  <2> QED BY <1>2, <1>4, <2>3, <2>4
<1>5. CASE Carries[m] \notin store \cup Stored \cup Pending(p)
  <2>1. tx'[p] = FoundTx(tx[p], m, Carries[m]) /\ tx' = [tx EXCEPT ![p] = tx'[p]]
    BY <1>1, <1>5 DEF Look, TypeOK, FoundTx
  <2>2. \A r \in RowIds : tx[p].new[r] # Carries[m]
    BY <1>2, <1>5 DEF Pending, Inserted
  <2>3. /\ Shape(p, tx'[p]) /\ Keeps(tx[p], tx'[p]) /\ tx'[p].known = tx[p].known
        /\ tx'[p].seen = tx[p].seen \cup {m} /\ tx'[p].report = Carries[m]
    BY <1>1, <1>2, <2>1, <2>2, FoundShape
  <2>4. Moves(p)
    BY <1>1, <1>2, <1>3, <2>1, <2>2, <2>3 DEF Moves
  <2> QED BY <1>2, <2>3, <2>4
<1> QED BY <1>4, <1>5

\* Reading breaks off: the ids read so far are let go.
LEMMA BreaksOffKind ==
  ASSUME TypeOK, ShapeInv, NEW p \in Importers, BreaksOff(p)
  PROVE  Moves(p) /\ tx'[p].known = tx[p].known /\ tx'[p].seen = {} /\ tx[p].report = None
<1>1. p \in Writers /\ p \in Procs /\ Shape(p, tx[p]) /\ tx[p].at = "read"
  BY ProcKinds DEF BreaksOff, ShapeInv
<1>2. tx[p] \in TxType /\ tx[p].report = None
  BY <1>1 DEF Shape
<1>3. /\ tx'[p] = [tx[p] EXCEPT !.at = "commit", !.todo = {}, !.seen = {}]
      /\ tx' = [tx EXCEPT ![p] = tx'[p]]
  BY <1>1 DEF BreaksOff, TypeOK
<1>4. /\ tx'[p] \in TxType /\ Keeps(tx[p], tx'[p]) /\ tx'[p].at = "commit" /\ tx'[p].flushed = tx[p].flushed
      /\ tx'[p].known = tx[p].known /\ tx'[p].seen = {} /\ tx'[p].report = None
  BY <1>2, <1>3 DEF TxType, Keeps
<1>5. Shape(p, tx'[p])
  BY <1>1, <1>2, <1>4 DEF Shape, Keeps
<1>6. UNCHANGED <<rows, counters, del, fate>> /\ fate.overlap \in BOOLEAN
  BY DEF BreaksOff, TypeOK
<1>7. Moves(p)
  BY <1>1, <1>2, <1>3, <1>4, <1>5, <1>6 DEF Moves
<1> QED BY <1>2, <1>4, <1>7

\* A row is flushed.
FlushedTx(t, c) == [t EXCEPT !.flushed = @ \cup {c}]
HeldTx(t) == [t EXCEPT !.domain = "held"]

LEMMA FlushedFields ==
  ASSUME NEW t \in TxType, NEW c \in Cells
  PROVE  LET u == FlushedTx(t, c) IN
         /\ u \in TxType /\ Keeps(t, u) /\ u.at = t.at /\ u.flushed = t.flushed \cup {c}
         /\ u.known = t.known /\ u.seen = t.seen /\ u.report = t.report
         /\ u.todo = t.todo /\ u.domain = t.domain
<1>1. t.flushed \cup {c} \in SUBSET Cells
  BY DEF TxType
<1> PICK flushed \in SUBSET Cells : flushed = t.flushed \cup {c}
  BY <1>1
<1> DEFINE u == [t EXCEPT !.flushed = flushed]
<1>2. /\ u \in TxType /\ Keeps(t, u) /\ u.at = t.at /\ u.flushed = flushed
      /\ u.known = t.known /\ u.seen = t.seen /\ u.report = t.report
      /\ u.todo = t.todo /\ u.domain = t.domain
  BY DEF TxType, Keeps
<1>3. u = FlushedTx(t, c)
  BY DEF FlushedTx
<1> QED BY <1>2, <1>3

LEMMA FlushKind ==
  ASSUME TypeOK, ShapeInv, NEW p \in Procs, FlushStep(p)
  PROVE  \/ RolledBack(p, FALSE)
         \/ /\ Moves(p) /\ tx'[p].known = tx[p].known /\ tx'[p].seen = tx[p].seen
            /\ tx'[p].report = tx[p].report /\ UNCHANGED <<ingested, store, fate>>
            /\ tx'[p] = HeldTx(tx[p]) \/ \E c \in Cells : tx'[p] = FlushedTx(tx[p], c)
<1> DEFINE same == /\ Moves(p) /\ tx'[p].known = tx[p].known /\ tx'[p].seen = tx[p].seen
                   /\ tx'[p].report = tx[p].report /\ UNCHANGED <<ingested, store, fate>>
                   /\ tx'[p] = HeldTx(tx[p]) \/ \E c \in Cells : tx'[p] = FlushedTx(tx[p], c)
<1>1. Shape(p, tx[p]) /\ tx[p] \in TxType /\ tx \in [Procs -> TxType]
  BY DEF ShapeInv, Shape, TypeOK, TxType, WriteType
<1>2. CASE FlushDomain(p)
  <2>1. tx[p].at \in {"project", "commit"} /\ tx' = [tx EXCEPT ![p].domain = "held"]
        /\ UNCHANGED <<rows, counters, ingested, store, del, fate>>
    BY <1>2 DEF FlushDomain, Flushing
  <2>2. tx'[p] = HeldTx(tx[p]) /\ tx' = [tx EXCEPT ![p] = tx'[p]]
    BY <1>1, <2>1 DEF HeldTx
  <2>3. /\ tx'[p] \in TxType /\ Keeps(tx[p], tx'[p]) /\ tx'[p].at = tx[p].at /\ tx'[p].flushed = tx[p].flushed
        /\ tx'[p].known = tx[p].known /\ tx'[p].seen = tx[p].seen /\ tx'[p].report = tx[p].report
    BY <1>1, <2>2 DEF HeldTx, TxType, Keeps
  <2>4. Shape(p, tx'[p])
    BY <1>1, <2>1, <2>3 DEF Shape, Keeps
  <2>5. fate.overlap \in BOOLEAN
    BY DEF TypeOK
  <2>6. same
    BY <2>1, <2>2, <2>3, <2>4, <2>5 DEF Moves
  <2> QED BY <2>6
<1>3. ASSUME NEW c \in Cells, FlushCounter(p, c), Fits(p, c) PROVE same
  <2>1. /\ tx[p].at \in {"project", "commit"} /\ tx' = [tx EXCEPT ![p].flushed = @ \cup {c}]
        /\ tx[p].writes[c] # NoWrite
        /\ UNCHANGED <<rows, counters, ingested, store, del, fate>>
    BY <1>3 DEF FlushCounter, Flushing, Undropped, Unflushed
  <2>2. tx'[p] = FlushedTx(tx[p], c) /\ tx' = [tx EXCEPT ![p] = tx'[p]]
    BY <1>1, <2>1 DEF FlushedTx
  <2>3. /\ tx'[p] \in TxType /\ Keeps(tx[p], tx'[p]) /\ tx'[p].at = tx[p].at
        /\ tx'[p].flushed = tx[p].flushed \cup {c}
        /\ tx'[p].known = tx[p].known /\ tx'[p].seen = tx[p].seen /\ tx'[p].report = tx[p].report
    BY <1>1, <2>2, FlushedFields
  <2>4. Shape(p, tx'[p])
    BY <1>1, <2>1, <2>3 DEF Shape, Keeps
  <2>5. fate.overlap \in BOOLEAN
    BY DEF TypeOK
  <2> QED BY <2>1, <2>2, <2>3, <2>4, <2>5 DEF Moves
<1>4. ASSUME NEW c \in Cells, FlushCounter(p, c), ~Fits(p, c) PROVE RolledBack(p, FALSE)
  BY <1>4 DEF FlushCounter
<1> QED BY <1>2, <1>3, <1>4 DEF FlushStep

\* A report that is stored already, or refused, is let go.
LEMMA LetGoKind ==
  ASSUME TypeOK, ShapeInv, NEW p \in Writers, tx[p].at = "insert", NEW changes \in BOOLEAN,
         tx' = [tx EXCEPT ![p] = WithPolicy(AfterReport(@), changes)], UNCHANGED <<rows, counters, del>>,
         fate'.overlap = fate.overlap
  PROVE  Moves(p) /\ tx'[p].known = tx[p].known /\ tx'[p].seen = tx[p].seen /\ tx'[p].report = None
<1> DEFINE v == AfterReport(tx[p])
<1>1. p \in Procs /\ Shape(p, tx[p]) /\ tx[p] \in TxType
  BY ProcKinds DEF ShapeInv, Shape
<1>2. tx'[p] = WithPolicy(v, changes) /\ tx' = [tx EXCEPT ![p] = tx'[p]]
  BY <1>1 DEF TypeOK
<1>3. /\ Shape(p, v) /\ v \in TxType /\ Keeps(tx[p], v) /\ v.at # "idle"
      /\ v.known = tx[p].known /\ v.seen = tx[p].seen /\ v.report = None
  BY <1>1, AfterReportShape, AfterReportFields
<1> HIDE DEF v
<1>4. /\ Shape(p, tx'[p]) /\ Keeps(v, tx'[p])
      /\ tx'[p].known = v.known /\ tx'[p].seen = v.seen /\ tx'[p].report = v.report
  BY <1>2, <1>3, PolicyShape, PolicyFields
<1>5. \A r \in RowIds : tx[p].new[r] # tx[p].report
  BY <1>1 DEF Shape
<1>6. fate'.overlap = fate.overlap /\ fate.overlap \in BOOLEAN
  BY DEF TypeOK
<1>7. Moves(p)
  BY <1>1, <1>2, <1>3, <1>4, <1>5, <1>6 DEF Moves, Keeps
<1> QED BY <1>3, <1>4, <1>7

LEMMA InsertRowKind ==
  ASSUME NEW p, NEW changes \in BOOLEAN, Insert(p, changes), tx[p].report \notin Stored \cup Pending(p)
  PROVE  InsertsRow(p)
<1>1. PICK r \in FreeRows :
        tx' = [tx EXCEPT ![p] = WithPolicy([@ EXCEPT !.at = "project", !.new[r] = tx[p].report], changes)]
  BY Zenon DEF Insert
<1>2. tx' = [tx EXCEPT ![p] = InsertTx(tx[p], r, changes)]
  BY <1>1 DEF InsertTx, RowTx
<1> QED BY <1>2 DEF Insert, TakesPolicy, InsertsRow

LEMMA InsertKind ==
  ASSUME TypeOK, ShapeInv, NEW p \in Writers, NEW changes \in BOOLEAN, Insert(p, changes)
  PROVE  Moves(p) \/ InsertsRow(p)
<1>1. CASE tx[p].report \in Stored \cup Pending(p)
  BY <1>1, LetGoKind DEF Insert, TakesPolicy
<1>2. CASE tx[p].report \notin Stored \cup Pending(p)
  BY <1>2, InsertRowKind
<1> QED BY <1>1, <1>2

LEMMA RefuseKind ==
  ASSUME TypeOK, ShapeInv, NEW p \in Writers, NEW changes \in BOOLEAN, Refuse(p, changes)
  PROVE  Moves(p) \/ Undoes
<1>1. p \in Procs /\ fate'.overlap = fate.overlap
  BY ProcKinds DEF Refuse, TypeOK
<1>2. CASE p \in Importers
  BY <1>1, <1>2, LetGoKind DEF Refuse, TakesPolicy
<1>3. CASE p \notin Importers
  <2>1. tx' = [tx EXCEPT ![p] = Idle]
    BY <1>3 DEF Refuse
  <2>2. /\ \A q \in Procs : tx'[q] = tx[q] \/ tx'[q] = Idle
        /\ tx' = [q \in Procs |-> tx'[q]]
    BY <2>1 DEF TypeOK
  <2>3. Exposed(p) = {} /\ \A q \in Procs : q # p => tx'[q] = tx[q]
    BY <1>3, <2>1 DEF Exposed, TypeOK
  <2> QED BY <1>1, <2>2, <2>3 DEF Undoes, Refuse
<1> QED BY <1>2, <1>3

LEMMA FailureKind ==
  ASSUME TypeOK, NEW p \in Procs, Fails(p) \/ Deadlock(p) \/ Hydrate \/ Crash \/ UNCHANGED vars
  PROVE  Undoes
<1>1. CASE Fails(p)
  BY <1>1, RolledBackKind DEF Fails
<1>2. CASE Deadlock(p)
  <2>1. CASE RolledBack(p, FALSE)
    BY <2>1, RolledBackKind
  <2>2. CASE del' = NoDeletion /\ UNCHANGED <<rows, counters, ingested, store, tx, fate>>
    BY <2>2 DEF Undoes, TypeOK
  <2> QED BY <1>2, <2>1, <2>2 DEF Deadlock
<1>3. CASE Hydrate \/ UNCHANGED vars
  BY <1>3 DEF Hydrate, vars, Undoes, TypeOK
<1>4. CASE Crash
  <2>1. \A q \in Importers : Exposed(q) \subseteq fate'.shadowed
    BY <1>4 DEF Crash, TypeOK
  <2>2. \A q \in Procs : Exposed(q) \subseteq fate'.shadowed
    BY <2>1 DEF Exposed
  <2>3. /\ tx' = [q \in Procs |-> Idle] /\ fate'.overlap = fate.overlap /\ del' = NoDeletion
        /\ UNCHANGED <<rows, counters>>
    BY <1>4 DEF Crash, TypeOK
  <2> QED BY <2>2, <2>3 DEF Undoes
<1> QED BY <1>1, <1>2, <1>3, <1>4

\* Every step is of one of these kinds.
LEMMA StepKinds ==
  ASSUME TypeOK, ShapeInv, [Next]_vars
  PROVE  \/ \E p \in Procs : Moves(p)
         \/ \E p \in Writers : InsertsRow(p) \/ Projects(p)
         \/ Picks \/ ProjectsBatch
         \/ \E p \in Procs : Commits(p)
         \/ Undoes \/ Deletes
<1>1. ASSUME NEW p \in Importers, ImportStep(p) PROVE Moves(p) /\ p \in Procs
  BY <1>1, StartImportKind, LookKind, FetchFailsKind, BreaksOffKind, ProcKinds DEF ImportStep
<1>2. ASSUME NEW p \in Uploaders, NEW rep \in Uploads, StartUpload(p, rep) PROVE Moves(p) /\ p \in Procs
  BY <1>2, StartUploadKind, ProcKinds
<1>3. ASSUME NEW p \in Writers, NEW changes \in BOOLEAN, Insert(p, changes) \/ Refuse(p, changes)
      PROVE  Moves(p) \/ InsertsRow(p) \/ Undoes
  BY <1>3, InsertKind, RefuseKind
<1>4. ASSUME NEW p \in Writers, Project(p) PROVE Projects(p)
  BY <1>4 DEF Project, Projects, ProjectTx
<1>5. ASSUME Pick PROVE Picks
  BY <1>5, ProcKinds DEF Pick, Picks, BatchTx, LoopFree
<1>6. ASSUME ProjectBatch PROVE ProjectsBatch
  BY <1>6 DEF ProjectBatch, ProjectsBatch, BatchedTx
<1>7. ASSUME NEW p \in Procs, FlushStep(p) PROVE Moves(p) \/ Undoes
  BY <1>7, FlushKind, RolledBackKind
<1>8. ASSUME NEW p \in Procs, Commit(p) PROVE Commits(p)
  BY <1>8 DEF Commit, Commits
<1>9. ASSUME NEW p \in Procs, Fails(p) \/ Deadlock(p) PROVE Undoes
  BY <1>9, FailureKind
<1>10. ASSUME Hydrate \/ Crash \/ UNCHANGED vars PROVE Undoes
  BY <1>10, FailureKind, ProcKinds
<1> QED BY <1>1, <1>2, <1>3, <1>4, <1>5, <1>6, <1>7, <1>8, <1>9, <1>10, ProcKinds DEF Next, Deletes

-----------------------------------------------------------------------------
(***************************************************************************)
(* Transactions, rows and the lock                                         *)
(***************************************************************************)
\* The advisory lock has one holder.
LockInv == \A p, q \in Procs : tx[p].locked /\ tx[q].locked => p = q

Structure == CoreType /\ tx \in [Procs -> TxType] /\ ShapeInv /\ RowsInv /\ LockInv

LEMMA InitStructure == Init => Structure
<1> SUFFICES ASSUME Init PROVE Structure
  OBVIOUS
<1>1. CoreType
  BY ImportAssumption DEF Init, CoreType, RowState, DelType, NoDeletion, NoRow
<1>2. \A p \in Procs : tx[p] = Idle
  BY DEF Init
<1>3. tx \in [Procs -> TxType] /\ ShapeInv
  BY <1>2, IdleFields, IdleShape DEF Init, ShapeInv
<1>4. RowsInv /\ LockInv
  BY <1>2, IdleFields, ProcKinds DEF Init, RowsInv, LockInv, NoDeletion
<1> QED BY <1>1, <1>3, <1>4 DEF Structure

LEMMA MovesStructure ==
  ASSUME Structure, NEW p \in Procs, Moves(p)
  PROVE  Structure'
<1>1. CoreType'
  BY DEF Structure, CoreType, Moves
<1>2. \A q \in Procs : q # p => tx'[q] = tx[q]
  BY DEF Structure, Moves
<1>3. tx' \in [Procs -> TxType] /\ ShapeInv'
  BY <1>2 DEF Structure, ShapeInv, Moves, Shape
<1>4. \A q \in Procs : Keeps(tx[q], tx'[q])
  BY <1>2 DEF Moves, Keeps
<1>5. tx["projector"].at = "idle" /\ p \in Writers => tx'["projector"].at = "idle"
  BY <1>2, ProcKinds
<1>6. p \notin Writers => tx["projector"].at # "idle"
  BY ProcKinds DEF Moves
<1>7. RowsInv' /\ LockInv'
  BY <1>4, <1>5, <1>6, ProcKinds DEF Structure, RowsInv, LockInv, Keeps, Moves
<1> QED BY <1>1, <1>3, <1>7 DEF Structure

LEMMA InsertsRowFacts ==
  ASSUME Structure, NEW p \in Writers, InsertsRow(p)
  PROVE  \E r \in RowIds, changes \in BOOLEAN :
           /\ rows[r] = NoRow /\ \A q \in Procs : tx[q].new[r] = None
           /\ tx' = [tx EXCEPT ![p] = InsertTx(tx[p], r, changes)]
           /\ tx'[p] = InsertTx(tx[p], r, changes) /\ \A q \in Procs : q # p => tx'[q] = tx[q]
           /\ Shape(p, tx'[p]) /\ tx'[p].at = "project"
           /\ tx'[p].known = tx[p].known /\ tx'[p].seen = tx[p].seen
           /\ tx'[p].report = tx[p].report /\ tx'[p].picked = tx[p].picked
           /\ tx'[p].locked = tx[p].locked /\ tx'[p].writes = tx[p].writes
           /\ \A s \in RowIds : tx'[p].new[s] = IF s = r THEN tx[p].report ELSE tx[p].new[s]
<1>1. PICK r \in FreeRows, changes \in BOOLEAN : tx' = [tx EXCEPT ![p] = InsertTx(tx[p], r, changes)]
  BY DEF InsertsRow
<1>2. r \in RowIds /\ rows[r] = NoRow /\ \A q \in Procs : tx[q].new[r] = None
  BY DEF FreeRows, Present, Inserted
<1>3. tx'[p] = InsertTx(tx[p], r, changes) /\ \A q \in Procs : q # p => tx'[q] = tx[q]
  BY <1>1, ProcKinds DEF Structure
<1>4. Shape(p, tx[p]) /\ tx[p].at = "insert" /\ tx[p].new[r] = None
  BY <1>2, ProcKinds DEF Structure, ShapeInv, InsertsRow
<1>5. /\ Shape(p, tx'[p]) /\ tx'[p].at = "project"
      /\ tx'[p].known = tx[p].known /\ tx'[p].seen = tx[p].seen
      /\ tx'[p].report = tx[p].report /\ tx'[p].picked = tx[p].picked
      /\ tx'[p].locked = tx[p].locked /\ tx'[p].writes = tx[p].writes
      /\ \A s \in RowIds : tx'[p].new[s] = IF s = r THEN tx[p].report ELSE tx[p].new[s]
  BY <1>2, <1>3, <1>4, InsertShape
<1> QED BY <1>1, <1>2, <1>3, <1>5

LEMMA InsertsRowStructure ==
  ASSUME Structure, NEW p \in Writers, InsertsRow(p)
  PROVE  Structure'
<1>1. PICK r \in RowIds, changes \in BOOLEAN :
        /\ rows[r] = NoRow /\ \A q \in Procs : tx[q].new[r] = None
        /\ tx' = [tx EXCEPT ![p] = InsertTx(tx[p], r, changes)]
        /\ tx'[p] = InsertTx(tx[p], r, changes) /\ \A q \in Procs : q # p => tx'[q] = tx[q]
        /\ Shape(p, tx'[p]) /\ tx'[p].at = "project"
        /\ tx'[p].known = tx[p].known /\ tx'[p].seen = tx[p].seen
        /\ tx'[p].report = tx[p].report /\ tx'[p].picked = tx[p].picked
        /\ tx'[p].locked = tx[p].locked /\ tx'[p].writes = tx[p].writes
        /\ \A s \in RowIds : tx'[p].new[s] = IF s = r THEN tx[p].report ELSE tx[p].new[s]
  BY InsertsRowFacts
<1>2. CoreType'
  BY DEF Structure, CoreType, InsertsRow
<1>3. p \in Procs /\ "projector" \in Procs
  BY ProcKinds
<1>4. tx' \in [Procs -> TxType] /\ ShapeInv'
  BY <1>1, <1>3 DEF Structure, ShapeInv, Shape
<1>5. UNCHANGED <<rows, del>> /\ tx'["projector"] = tx["projector"]
  BY <1>1, <1>3, ProcKinds DEF InsertsRow
<1>6. ASSUME NEW q \in Procs, NEW s \in RowIds, tx'[q].new[s] # None
      PROVE  rows'[s] = NoRow /\ \A o \in Procs \ {q} : tx'[o].new[s] = None
  <2>1. CASE s = r
    BY <1>1, <1>3, <1>5, <1>6, <2>1
  <2>2. CASE s # r
    <3>1. \A o \in Procs : tx'[o].new[s] = tx[o].new[s]
      BY <1>1, <2>2
    <3> QED BY <1>5, <1>6, <3>1 DEF Structure, RowsInv
  <2> QED BY <2>1, <2>2
<1>7. RowsInv'
  BY <1>5, <1>6 DEF Structure, RowsInv, Present
<1>8. LockInv'
  BY <1>1 DEF Structure, LockInv
<1> QED BY <1>2, <1>4, <1>7, <1>8 DEF Structure

LEMMA ProjectsFacts ==
  ASSUME Structure, NEW p \in Writers, Projects(p)
  PROVE  /\ tx' = [tx EXCEPT ![p] = tx'[p]] /\ \A q \in Procs : q # p => tx'[q] = tx[q]
         /\ Shape(p, tx'[p]) /\ tx'[p].at \in {"read", "commit"}
         /\ tx'[p].known = tx[p].known /\ tx'[p].seen = tx[p].seen
         /\ tx'[p].report = None /\ tx'[p].new = tx[p].new /\ tx'[p].picked = tx[p].picked
         /\ tx'[p].locked /\ tx'[p].writes = Added(tx[p].writes, GainOf(tx[p].report))
<1>1. p \in Procs /\ Shape(p, tx[p]) /\ counters \in [Cells -> [gen : Nat, n : Nat]]
  BY ProcKinds DEF Structure, ShapeInv, CoreType
<1>2. tx'[p] = ProjectTx(tx[p]) /\ tx' = [tx EXCEPT ![p] = tx'[p]]
  BY <1>1 DEF Projects, Structure
<1>3. \A q \in Procs : q # p => tx'[q] = tx[q]
  BY <1>2 DEF Structure
<1> QED BY <1>1, <1>2, <1>3, ProjectShape DEF Projects

LEMMA ProjectsStructure ==
  ASSUME Structure, NEW p \in Writers, Projects(p)
  PROVE  Structure'
<1>1. CoreType'
  BY DEF Structure, CoreType, Projects
<1>2. p \in Procs /\ tx' = [tx EXCEPT ![p] = tx'[p]] /\ \A q \in Procs : q # p => tx'[q] = tx[q]
  BY ProjectsFacts, ProcKinds
<1>3. /\ Shape(p, tx'[p]) /\ tx'[p].new = tx[p].new /\ tx'[p].picked = tx[p].picked /\ tx'[p].locked
  BY ProjectsFacts
<1>4. tx' \in [Procs -> TxType] /\ ShapeInv'
  BY <1>2, <1>3 DEF Structure, ShapeInv, Shape
<1>5. \A q \in Procs : tx'[q].new = tx[q].new /\ tx'[q].picked = tx[q].picked
  BY <1>2, <1>3
<1>6. tx'["projector"] = tx["projector"]
  BY <1>2, ProcKinds
<1>7. RowsInv'
  BY <1>5, <1>6, ProcKinds DEF Structure, RowsInv, Projects
<1>8. LockInv'
  BY <1>2, <1>3 DEF Structure, LockInv, Projects, LockFree
<1> QED BY <1>1, <1>4, <1>7, <1>8 DEF Structure

LEMMA PicksFacts ==
  ASSUME Structure, Picks
  PROVE  \E batch \in SUBSET Due :
           /\ tx' = [tx EXCEPT !["projector"] = tx'["projector"]]
           /\ \A q \in Procs : q # "projector" => tx'[q] = tx[q]
           /\ tx["projector"] = Idle
           /\ LET u == tx'["projector"] IN
                /\ Shape("projector", u) /\ u.at = "project" /\ u.report = None /\ u.new = Idle.new
                /\ u.picked = batch /\ u.locked = FALSE /\ u.writes = Idle.writes /\ u.known = {} /\ u.seen = {}
<1>1. PICK batch \in SUBSET Due : tx' = [tx EXCEPT !["projector"] = BatchTx(batch)]
  BY DEF Picks
<1>2. batch \in SUBSET RowIds
  BY DEF Due, Present
<1>3. /\ tx'["projector"] = BatchTx(batch) /\ tx' = [tx EXCEPT !["projector"] = tx'["projector"]]
      /\ \A q \in Procs : q # "projector" => tx'[q] = tx[q]
  BY <1>1, ProcKinds DEF Structure
<1>4. tx["projector"] = Idle
  BY ProcKinds DEF Structure, ShapeInv, Shape, Picks
<1>5. LET u == tx'["projector"] IN
        /\ Shape("projector", u) /\ u.at = "project" /\ u.report = None /\ u.new = Idle.new
        /\ u.picked = batch /\ u.locked = FALSE /\ u.writes = Idle.writes /\ u.known = {} /\ u.seen = {}
  BY <1>2, <1>3, BatchShape
<1> QED BY <1>3, <1>4, <1>5

LEMMA PicksStructure ==
  ASSUME Structure, Picks
  PROVE  Structure'
<1>1. PICK batch \in SUBSET Due :
        /\ tx' = [tx EXCEPT !["projector"] = tx'["projector"]]
        /\ \A q \in Procs : q # "projector" => tx'[q] = tx[q]
        /\ tx["projector"] = Idle
        /\ LET u == tx'["projector"] IN
             /\ Shape("projector", u) /\ u.at = "project" /\ u.report = None /\ u.new = Idle.new
             /\ u.picked = batch /\ u.locked = FALSE /\ u.writes = Idle.writes /\ u.known = {} /\ u.seen = {}
  BY PicksFacts
<1>2. CoreType'
  BY DEF Structure, CoreType, Picks
<1>3. tx' \in [Procs -> TxType] /\ ShapeInv'
  BY <1>1, ProcKinds DEF Structure, ShapeInv, Shape
<1>4. \A q \in Procs : tx'[q].new = tx[q].new /\ tx'[q].locked = tx[q].locked
  BY <1>1, IdleFields
<1>5. \A r \in batch : rows[r] # NoRow /\ ~rows[r].projected
  BY DEF Due, Present
<1>6. UNCHANGED <<rows, del>> /\ del.at = "idle" /\ tx'["projector"].picked = batch
  BY <1>1 DEF Picks
<1>7. RowsInv'
  BY <1>4, <1>5, <1>6 DEF Structure, RowsInv
<1>8. LockInv'
  BY <1>4 DEF Structure, LockInv
<1> QED BY <1>2, <1>3, <1>7, <1>8 DEF Structure

LEMMA ProjectsBatchFacts ==
  ASSUME Structure, ProjectsBatch
  PROVE  /\ tx' = [tx EXCEPT !["projector"] = tx'["projector"]]
         /\ \A q \in Procs : q # "projector" => tx'[q] = tx[q]
         /\ LET t == tx["projector"]
                u == tx'["projector"] IN
            /\ Shape("projector", u) /\ u.at = "commit" /\ u.known = t.known /\ u.seen = t.seen
            /\ u.report = t.report /\ u.new = t.new /\ u.picked = t.picked /\ u.locked
            /\ u.writes = Added(t.writes, GainOfRows(t.picked))
<1>1. Shape("projector", tx["projector"]) /\ counters \in [Cells -> [gen : Nat, n : Nat]]
  BY ProcKinds DEF Structure, ShapeInv, CoreType
<1>2. /\ tx'["projector"] = BatchedTx(tx["projector"])
      /\ tx' = [tx EXCEPT !["projector"] = tx'["projector"]]
      /\ \A q \in Procs : q # "projector" => tx'[q] = tx[q]
  BY ProcKinds DEF ProjectsBatch, Structure
<1> QED BY <1>1, <1>2, BatchedShape DEF ProjectsBatch

LEMMA ProjectsBatchStructure ==
  ASSUME Structure, ProjectsBatch
  PROVE  Structure'
<1>1. CoreType'
  BY DEF Structure, CoreType, ProjectsBatch
<1>2. /\ tx' = [tx EXCEPT !["projector"] = tx'["projector"]]
      /\ \A q \in Procs : q # "projector" => tx'[q] = tx[q]
  BY ProjectsBatchFacts
<1>3. LET t == tx["projector"]
          u == tx'["projector"] IN
      Shape("projector", u) /\ u.new = t.new /\ u.picked = t.picked /\ u.locked
  BY ProjectsBatchFacts
<1>4. tx' \in [Procs -> TxType] /\ ShapeInv'
  BY <1>2, <1>3, ProcKinds DEF Structure, ShapeInv, Shape
<1>5. \A q \in Procs : tx'[q].new = tx[q].new /\ tx'[q].picked = tx[q].picked
  BY <1>2, <1>3
<1>6. RowsInv'
  BY <1>5, ProcKinds DEF Structure, RowsInv, ProjectsBatch
<1>7. LockInv'
  BY <1>2, <1>3 DEF Structure, LockInv, ProjectsBatch, LockFree
<1> QED BY <1>1, <1>4, <1>6, <1>7 DEF Structure

\* What a commit does to the rows: it adds those the transaction has inserted
\* and marks those it has picked.
LEMMA RowsAfterFacts ==
  ASSUME Structure, NEW p \in Procs
  PROVE  /\ RowsAfter(p) \in [RowIds -> RowState]
         /\ \A r \in RowIds :
              /\ tx[p].new[r] # None =>
                   /\ rows[r] = NoRow /\ RowsAfter(p)[r] # NoRow
                   /\ RowsAfter(p)[r].report = tx[p].new[r] /\ RowsAfter(p)[r].projected
              /\ tx[p].new[r] = None /\ r \notin tx[p].picked => RowsAfter(p)[r] = rows[r]
              /\ r \in tx[p].picked =>
                   /\ p = "projector" /\ tx[p].new[r] = None /\ rows[r] # NoRow /\ RowsAfter(p)[r] # NoRow
                   /\ RowsAfter(p)[r].report = rows[r].report /\ RowsAfter(p)[r].projected
<1>1. /\ Shape(p, tx[p]) /\ tx[p] \in TxType /\ rows \in [RowIds -> RowState]
      /\ NoRow \in RowState /\ NoRow.report = None
  BY DEF Structure, ShapeInv, Shape, CoreType, RowState, NoRow
<1>2. \A r \in RowIds : rows[r] # NoRow =>
        rows[r] \in [report : Reports, projected : BOOLEAN] /\ rows[r].report # None
  BY <1>1, NoneIsNoReport DEF RowState
<1>3. ASSUME NEW r \in RowIds, tx[p].new[r] # None
      PROVE  /\ rows[r] = NoRow /\ RowsAfter(p)[r] # NoRow /\ RowsAfter(p)[r] \in RowState
             /\ RowsAfter(p)[r].report = tx[p].new[r] /\ RowsAfter(p)[r].projected
  <2>1. rows[r] = NoRow
    BY <1>3 DEF Structure, RowsInv
  <2>2. RowsAfter(p)[r] = [report |-> tx[p].new[r], projected |-> TRUE]
    BY <1>3 DEF RowsAfter, Inserted
  <2>3. tx[p].new[r] \in Reports
    BY <1>1, <1>3 DEF TxType
  <2> QED BY <1>1, <1>3, <2>1, <2>2, <2>3, NoneIsNoReport DEF RowState
<1>4. ASSUME NEW r \in RowIds, r \in tx[p].picked
      PROVE  /\ p = "projector" /\ tx[p].new[r] = None /\ rows[r] # NoRow /\ RowsAfter(p)[r] # NoRow
             /\ RowsAfter(p)[r] \in RowState
             /\ RowsAfter(p)[r].report = rows[r].report /\ RowsAfter(p)[r].projected
  <2>1. p = "projector" /\ tx[p].new[r] = None
    BY <1>1, <1>4, ProcKinds DEF Shape
  <2>2. rows[r] # NoRow
    BY <1>4, <2>1 DEF Structure, RowsInv
  <2>3. RowsAfter(p)[r] = [rows[r] EXCEPT !.projected = TRUE]
    BY <1>4, <2>1 DEF RowsAfter, Inserted
  <2>4. RowsAfter(p)[r] \in [report : Reports, projected : BOOLEAN]
        /\ RowsAfter(p)[r].report = rows[r].report /\ RowsAfter(p)[r].projected
    BY <1>2, <2>2, <2>3
  <2> QED BY <1>1, <1>2, <2>1, <2>2, <2>4 DEF RowState
<1>5. ASSUME NEW r \in RowIds, tx[p].new[r] = None, r \notin tx[p].picked
      PROVE  RowsAfter(p)[r] = rows[r] /\ RowsAfter(p)[r] \in RowState
  BY <1>1, <1>5 DEF RowsAfter, Inserted
<1>6. RowsAfter(p) = [r \in RowIds |-> RowsAfter(p)[r]]
  BY DEF RowsAfter
<1> QED BY <1>3, <1>4, <1>5, <1>6

LEMMA CommitsFacts ==
  ASSUME Structure, NEW p \in Procs, Commits(p)
  PROVE  /\ tx' \in [Procs -> TxType] /\ tx'[p] = Idle /\ \A q \in Procs : q # p => tx'[q] = tx[q]
         /\ counters' \in [Cells -> [gen : Nat, n : Nat]]
         /\ \A c \in Cells : counters'[c].n = IF tx[p].writes[c] = NoWrite THEN counters[c].n
                                              ELSE tx[p].writes[c].n
<1>1. /\ tx \in [Procs -> TxType] /\ tx[p].writes \in [Cells -> WriteType]
      /\ counters \in [Cells -> [gen : Nat, n : Nat]]
  BY DEF Structure, TxType, CoreType
<1>2. tx' \in [Procs -> TxType] /\ tx'[p] = Idle /\ \A q \in Procs : q # p => tx'[q] = tx[q]
  BY <1>1, IdleFields DEF Commits
<1>3. \A c \in Cells :
        counters'[c] = IF tx[p].writes[c] = NoWrite THEN counters[c]
                       ELSE [counters[c] EXCEPT !.n = tx[p].writes[c].n]
  BY DEF Commits
<1>4. \A c \in Cells : tx[p].writes[c].n \in Nat
  BY <1>1 DEF WriteType
<1>5. counters' = [c \in Cells |-> counters'[c]]
  BY DEF Commits
<1>6. ASSUME NEW c \in Cells
      PROVE  /\ counters'[c] \in [gen : Nat, n : Nat]
             /\ counters'[c].n = IF tx[p].writes[c] = NoWrite THEN counters[c].n ELSE tx[p].writes[c].n
  BY <1>1, <1>3, <1>4
<1> QED BY <1>2, <1>5, <1>6

LEMMA CommitsStructure ==
  ASSUME Structure, NEW p \in Procs, Commits(p)
  PROVE  Structure'
<1>1. /\ tx' \in [Procs -> TxType] /\ tx'[p] = Idle /\ \A q \in Procs : q # p => tx'[q] = tx[q]
      /\ counters' \in [Cells -> [gen : Nat, n : Nat]]
  BY CommitsFacts
<1>2. /\ RowsAfter(p) \in [RowIds -> RowState]
      /\ \A r \in RowIds :
           /\ tx[p].new[r] # None => rows[r] = NoRow /\ RowsAfter(p)[r] # NoRow
           /\ tx[p].new[r] = None /\ r \notin tx[p].picked => RowsAfter(p)[r] = rows[r]
           /\ r \in tx[p].picked => /\ p = "projector" /\ tx[p].new[r] = None
                                    /\ rows[r] # NoRow /\ RowsAfter(p)[r] # NoRow
  BY RowsAfterFacts
<1>3. rows' = RowsAfter(p) /\ UNCHANGED <<del, fate>>
  BY DEF Commits
<1>4. CoreType'
  BY <1>1, <1>2, <1>3 DEF Structure, CoreType
<1>5. ShapeInv'
  BY <1>1, IdleShape DEF Structure, ShapeInv
<1>6. \A r \in RowIds : rows[r] # NoRow => rows'[r] # NoRow
  BY <1>2, <1>3
<1>7. tx'[p].new = [r \in RowIds |-> None] /\ tx'[p].picked = {} /\ tx'[p].locked = FALSE
  BY <1>1, IdleFields
<1>8. ASSUME NEW q \in Procs, NEW r \in RowIds, tx'[q].new[r] # None
      PROVE  rows'[r] = NoRow /\ \A o \in Procs \ {q} : tx'[o].new[r] = None
  <2>1. q # p /\ tx[q].new[r] # None
    BY <1>1, <1>7, <1>8
  <2>2. rows[r] = NoRow /\ \A o \in Procs \ {q} : tx[o].new[r] = None
    BY <2>1 DEF Structure, RowsInv
  <2>3. rows'[r] = NoRow
    BY <1>2, <1>3, <2>1, <2>2
  <2> QED BY <1>1, <1>7, <2>2, <2>3
<1>9. ASSUME NEW r \in tx'["projector"].picked
      PROVE  r \in tx["projector"].picked /\ rows'[r] # NoRow /\ ~rows'[r].projected
  <2>1. p # "projector" /\ r \in tx["projector"].picked
    BY <1>1, <1>7, <1>9, ProcKinds
  <2>2. rows[r] # NoRow /\ ~rows[r].projected /\ r \in RowIds
    BY <2>1, ProcKinds DEF Structure, RowsInv, TxType
  <2> QED BY <1>2, <1>3, <2>1, <2>2
<1>10. RowsInv'
  <2>1. ASSUME del'.at # "idle"
        PROVE  del'.row \in RowIds /\ rows'[del'.row] # NoRow /\ tx'["projector"].at = "idle"
    BY <1>1, <1>3, <1>6, <2>1, ProcKinds, IdleFields DEF Structure, RowsInv
  <2>2. ASSUME del'.at = "commit"
        PROVE  del'.row \in del'.reset /\ \A r \in del'.reset : rows'[r] # NoRow
    BY <1>3, <1>6, <2>2 DEF Structure, RowsInv, CoreType, DelType
  <2> QED BY <1>8, <1>9, <2>1, <2>2 DEF RowsInv
<1>11. LockInv'
  BY <1>1, <1>7 DEF Structure, LockInv
<1> QED BY <1>1, <1>4, <1>5, <1>10, <1>11 DEF Structure

\* What is left of a transaction after a rollback holds nothing.
LEMMA UndoesFacts ==
  ASSUME Structure, Undoes, NEW p \in Procs
  PROVE  /\ Shape(p, tx'[p]) /\ tx'[p] \in TxType
         /\ \/ tx'[p] = tx[p]
            \/ Keeps(Idle, tx'[p]) /\ tx'[p].known = {} /\ tx'[p].seen = {}
<1>1. Shape(p, tx[p])
  BY DEF Structure, ShapeInv
<1>2. CASE tx'[p] = Idle
  BY <1>2, IdleFields, IdleShape DEF Keeps
<1>3. CASE p \in Writers /\ tx[p].at = "project" /\ tx'[p] = UploadTx(tx[p].report)
  <2>1. tx[p].report \in Reports
    BY <1>1, <1>3 DEF Shape, TxType
  <2> QED BY <1>3, <2>1, UploadShape DEF Shape
<1>4. CASE tx'[p] = tx[p]
  BY <1>1, <1>4 DEF Shape
<1> QED BY <1>2, <1>3, <1>4 DEF Undoes

LEMMA UndoesStructure ==
  ASSUME Structure, Undoes
  PROVE  Structure'
<1>1. CoreType'
  BY DEF Structure, CoreType, Undoes, NoDeletion, DelType
<1>2. tx' = [p \in Procs |-> tx'[p]]
  BY DEF Undoes
<1>3. tx' \in [Procs -> TxType] /\ ShapeInv'
  BY <1>2, UndoesFacts DEF ShapeInv
<1>4. \A p \in Procs : Keeps(tx[p], tx'[p])
                       \/ /\ tx'[p].new = [r \in RowIds |-> None] /\ tx'[p].picked = {}
                          /\ tx'[p].locked = FALSE
  BY UndoesFacts, IdleFields DEF Keeps
<1>5. UNCHANGED rows /\ (del' = del \/ del'.at = "idle")
  BY DEF Undoes, NoDeletion
<1>6. \A p \in Procs : /\ \A r \in RowIds : tx'[p].new[r] # None => tx[p].new[r] # None
                       /\ tx'[p].picked \subseteq tx[p].picked
                       /\ (tx'[p].locked => tx[p].locked)
  BY <1>4 DEF Keeps
<1>7. tx["projector"].at = "idle" => tx'["projector"].at = "idle"
  BY ProcKinds, IdleFields DEF Undoes
<1>8. RowsInv' /\ LockInv'
  BY <1>5, <1>6, <1>7, ProcKinds DEF Structure, RowsInv, LockInv
<1> QED BY <1>1, <1>3, <1>8 DEF Structure

LEMMA CommitDeletionFacts ==
  ASSUME Structure, CommitDeletion
  PROVE  /\ rows' \in [RowIds -> RowState] /\ counters' \in [Cells -> [gen : Nat, n : Nat]]
         /\ \A c \in Cells : counters'[c].n = IF c \in del.dropped THEN 0 ELSE counters[c].n
         /\ del.row \in RowIds /\ rows[del.row] # NoRow /\ rows'[del.row] = NoRow
         /\ \A r \in RowIds :
              /\ rows[r] = NoRow => rows'[r] = NoRow
              /\ r # del.row /\ rows[r] # NoRow => rows'[r] # NoRow /\ rows'[r].report = rows[r].report
              /\ r # del.row /\ r \in del.reset => ~rows'[r].projected
              /\ r \notin del.reset => rows'[r] = rows[r]
<1>1. /\ rows \in [RowIds -> RowState] /\ counters \in [Cells -> [gen : Nat, n : Nat]]
      /\ NoRow \in RowState /\ del.row \in RowIds /\ rows[del.row] # NoRow
      /\ del.row \in del.reset /\ \A r \in del.reset : rows[r] # NoRow
  BY DEF Structure, RowsInv, CoreType, RowState, CommitDeletion
<1>2. \A r \in RowIds : rows[r] # NoRow =>
        rows[r] \in [report : Reports, projected : BOOLEAN] /\ rows[r].report # None
  BY <1>1, NoneIsNoReport DEF RowState
<1>3. ASSUME NEW r \in RowIds
      PROVE  rows'[r] = IF r = del.row THEN NoRow
                        ELSE IF r \in del.reset THEN [rows[r] EXCEPT !.projected = FALSE] ELSE rows[r]
  BY DEF CommitDeletion
<1>4. ASSUME NEW r \in RowIds, r # del.row, r \in del.reset
      PROVE  /\ rows'[r] \in RowState /\ rows'[r] # NoRow /\ rows'[r].report = rows[r].report
             /\ ~rows'[r].projected
  <2>1. rows'[r] = [rows[r] EXCEPT !.projected = FALSE]
    BY <1>3, <1>4
  <2>2. rows[r] \in [report : Reports, projected : BOOLEAN] /\ rows[r].report # None
    BY <1>1, <1>2, <1>4
  <2>3. /\ rows'[r] \in [report : Reports, projected : BOOLEAN] /\ rows'[r].report = rows[r].report
        /\ ~rows'[r].projected
    BY <2>1, <2>2
  <2> QED BY <2>2, <2>3 DEF RowState, NoRow
<1>5. rows' = [r \in RowIds |-> rows'[r]]
  BY DEF CommitDeletion
<1>6. rows' \in [RowIds -> RowState]
  <2>1. ASSUME NEW r \in RowIds PROVE rows'[r] \in RowState
    BY <1>1, <1>3, <1>4
  <2> QED BY <1>5, <2>1
<1>7. /\ counters' \in [Cells -> [gen : Nat, n : Nat]]
      /\ \A c \in Cells : counters'[c].n = IF c \in del.dropped THEN 0 ELSE counters[c].n
  BY <1>1 DEF CommitDeletion
<1> QED BY <1>1, <1>3, <1>4, <1>6, <1>7

LEMMA DeletesStructure ==
  ASSUME TypeOK, Structure, Deletes
  PROVE  Structure'
<1>1. UNCHANGED tx
  BY DEF Deletes, BeginDeletion, DropCounter, ResetRows, CommitDeletion
<1>2. tx' \in [Procs -> TxType] /\ ShapeInv' /\ LockInv'
  BY <1>1 DEF Structure, ShapeInv, LockInv
<1>3. ASSUME NEW r \in RowIds, BeginDeletion(r) PROVE CoreType' /\ RowsInv'
  <2>1. UNCHANGED <<rows, counters>> /\ rows[r] # NoRow /\ tx["projector"].at = "idle"
    BY <1>3, ProcKinds DEF BeginDeletion, Present, LoopFree
  <2>2. fate'.overlap \in BOOLEAN
    BY <1>3 DEF BeginDeletion, TypeOK, Quiet
  <2>3. del'.at = "drop" /\ del'.row = r /\ del' \in DelType
    BY <1>3 DEF BeginDeletion, DelType, NoDeletion
  <2>4. CoreType'
    BY <2>1, <2>2, <2>3 DEF Structure, CoreType
  <2> QED BY <1>1, <2>1, <2>3, <2>4 DEF Structure, RowsInv
<1>4. ASSUME NEW c \in Cells, DropCounter(c) PROVE CoreType' /\ RowsInv'
  <2>1. UNCHANGED <<rows, counters, fate>>
    BY <1>4 DEF DropCounter
  <2>2. del'.at = del.at /\ del'.row = del.row /\ del'.reset = del.reset /\ del' \in DelType
    BY <1>4 DEF DropCounter, Structure, CoreType, DelType
  <2>3. CoreType'
    BY <2>1, <2>2 DEF Structure, CoreType
  <2> QED BY <1>1, <2>1, <2>2, <2>3 DEF Structure, RowsInv
<1>5. ASSUME ResetRows PROVE CoreType' /\ RowsInv'
  <2>1. UNCHANGED <<rows, counters, fate>> /\ del.at = "drop"
    BY <1>5 DEF ResetRows
  <2>2. del'.at = "commit" /\ del'.row = del.row /\ del'.reset = Present /\ del' \in DelType
    BY <1>5 DEF ResetRows, Structure, CoreType, DelType, Present
  <2>3. CoreType'
    BY <2>1, <2>2 DEF Structure, CoreType
  <2> QED BY <1>1, <2>1, <2>2, <2>3 DEF Structure, RowsInv, Present
<1>6. ASSUME CommitDeletion PROVE CoreType' /\ RowsInv'
  <2>1. /\ rows' \in [RowIds -> RowState] /\ counters' \in [Cells -> [gen : Nat, n : Nat]]
        /\ \A r \in RowIds : rows[r] = NoRow => rows'[r] = NoRow
    BY <1>6, CommitDeletionFacts
  <2>2. del' = NoDeletion /\ fate'.overlap = fate.overlap
    BY <1>6 DEF CommitDeletion, TypeOK
  <2>3. CoreType'
    BY <2>1, <2>2 DEF Structure, CoreType, DelType, NoDeletion
  <2>4. tx["projector"].picked = {}
    BY <1>6, ProcKinds, IdleFields DEF Structure, ShapeInv, Shape, RowsInv, CommitDeletion
  <2> QED BY <1>1, <2>1, <2>2, <2>3, <2>4 DEF Structure, RowsInv, NoDeletion
<1> QED BY <1>2, <1>3, <1>4, <1>5, <1>6 DEF Structure, Deletes

LEMMA NextStructure ==
  ASSUME TypeOK, Structure, [Next]_vars
  PROVE  Structure'
BY StepKinds, MovesStructure, InsertsRowStructure, ProjectsStructure, PicksStructure,
   ProjectsBatchStructure, CommitsStructure, UndoesStructure, DeletesStructure DEF Structure

-----------------------------------------------------------------------------
(***************************************************************************)
(* Types                                                                   *)
(***************************************************************************)
RestType ==
  /\ ingested \subseteq Messages /\ store \subseteq Reports
  /\ fate \in FateType
  /\ count \in [Bounded -> Nat]

LEMMA TypeParts == TypeOK <=> /\ rows \in [RowIds -> RowState]
                              /\ counters \in [Cells -> [gen : Nat, n : Nat]]
                              /\ tx \in [Procs -> TxType] /\ del \in DelType /\ RestType
BY DEF TypeOK, TxType, WriteType, DelType, RestType, FateType, Bounded

LEMMA CountedType ==
  ASSUME RestType, NEW what \in Bounded, NEW bound, Counted(what, bound)
  PROVE  count' \in [Bounded -> Nat]
BY DEF RestType, Counted

LEMMA ReportsOfRows ==
  ASSUME Structure
  PROVE  /\ Stored \subseteq Reports /\ \A r \in Present : rows[r].report \in Reports
         /\ \A p \in Procs : Pending(p) \subseteq Reports /\ Exposed(p) \subseteq Reports
         /\ \A p \in Procs : \A r \in RowIds : tx[p].new[r] # None => tx[p].new[r] \in Pending(p)
<1>1. \A r \in Present : rows[r].report \in Reports
  BY DEF Structure, CoreType, RowState, Present
<1>2. \A p \in Procs : tx[p].new \in [RowIds -> Reports \cup {None}]
  BY DEF Structure, TxType
<1>3. \A p \in Procs : Pending(p) \subseteq Reports
  BY <1>2 DEF Pending, Inserted
<1> QED BY <1>1, <1>3 DEF Stored, Exposed, Pending, Inserted

LEMMA RolledBackRest ==
  ASSUME Structure, RestType, NEW p \in Procs, NEW again, RolledBack(p, again)
  PROVE  ingested' \subseteq Messages /\ store' \subseteq Reports /\ fate' \in FateType
BY ReportsOfRows DEF RestType, RolledBack, FateType

LEMMA ImportStepRest ==
  ASSUME Structure, RestType, NEW p \in Importers, ImportStep(p)
  PROVE  RestType'
<1>1. CASE StartImport(p)
  <2>1. count' \in [Bounded -> Nat]
    BY <1>1, CountedType DEF StartImport, Bounded, RestType
  <2>2. fate' \in FateType
    BY <1>1 DEF StartImport, MetBy, RestType, FateType
  <2> QED BY <1>1, <2>1, <2>2 DEF RestType, StartImport
<1>2. ASSUME NEW m \in Messages, Look(p, m) PROVE RestType'
  BY <1>2 DEF RestType, Look
<1>3. ASSUME NEW m \in Messages, FetchFails(p, m) PROVE RestType'
  <2>1. count' \in [Bounded -> Nat]
    BY <1>3, CountedType DEF FetchFails, Bounded
  <2>2. fate' \in FateType
    BY <1>3 DEF FetchFails, RestType, FateType
  <2> QED BY <1>3, <2>1, <2>2 DEF RestType, FetchFails
<1>4. CASE BreaksOff(p)
  <2>1. count' \in [Bounded -> Nat]
    BY <1>4, CountedType DEF BreaksOff, Bounded
  <2> QED BY <1>4, <2>1 DEF RestType, BreaksOff
<1> QED BY <1>1, <1>2, <1>3, <1>4 DEF ImportStep

\* What goes into memory is a report.
LEMMA RememberedType ==
  ASSUME Structure, RestType, NEW p \in Writers, tx[p].at \in {"insert", "project"}
  PROVE  tx[p].report \in Reports /\ Remembered(p) \subseteq Reports
<1>1. Shape(p, tx[p])
  BY ProcKinds DEF Structure, ShapeInv
<1>2. tx[p].report \in Reports
  BY <1>1 DEF Shape, TxType
<1> QED BY <1>2 DEF RestType, Remembered

LEMMA WriterStepRest ==
  ASSUME Structure, RestType, NEW p \in Writers, NEW changes \in BOOLEAN,
         Insert(p, changes) \/ Refuse(p, changes) \/ Project(p)
  PROVE  RestType'
<1>1. CASE Insert(p, changes)
  <2>1. store' \in {store, Remembered(p)}
    BY <1>1 DEF Insert
  <2> QED BY <1>1, <2>1, RememberedType DEF Insert, TakesPolicy, RestType
<1>2. CASE Refuse(p, changes)
  <2>1. count' \in [Bounded -> Nat]
    BY <1>2, CountedType DEF Refuse, Bounded
  <2>2. fate' \in FateType
    BY <1>2, RememberedType DEF Refuse, TakesPolicy, RestType, FateType
  <2> QED BY <1>2, <2>1, <2>2 DEF RestType, Refuse
<1>3. CASE Project(p)
  BY <1>3, RememberedType DEF Project, RestType
<1> QED BY <1>1, <1>2, <1>3

LEMMA IngestedAfterType ==
  ASSUME Structure, RestType, NEW p \in Procs
  PROVE  IngestedAfter(p) \subseteq Messages
BY DEF Structure, TxType, RestType, IngestedAfter

LEMMA CommitRest ==
  ASSUME Structure, RestType, NEW p \in Procs, FlushStep(p) \/ Commit(p) \/ Fails(p) \/ Deadlock(p)
  PROVE  RestType'
<1>1. CASE Commit(p)
  BY <1>1, IngestedAfterType DEF Commit, RestType
<1>2. CASE Fails(p)
  <2>1. count' \in [Bounded -> Nat]
    BY <1>2, CountedType DEF Fails, Bounded
  <2> QED BY <1>2, <2>1, RolledBackRest DEF Fails, RestType
<1>3. CASE Deadlock(p)
  BY <1>3, RolledBackRest DEF Deadlock, RestType
<1>4. CASE FlushDomain(p)
  BY <1>4 DEF FlushDomain, RestType
<1>5. ASSUME NEW c \in Cells, FlushCounter(p, c) PROVE RestType'
  BY <1>5, RolledBackRest DEF FlushCounter, RestType
<1> QED BY <1>1, <1>2, <1>3, <1>4, <1>5 DEF FlushStep

LEMMA OtherStepsRest ==
  ASSUME Structure, RestType,
         \/ \E p \in Uploaders, rep \in Uploads : StartUpload(p, rep)
         \/ Pick \/ ProjectBatch \/ Deletes \/ Hydrate \/ Crash \/ UNCHANGED vars
  PROVE  RestType'
<1>1. ASSUME NEW p \in Uploaders, NEW rep \in Uploads, StartUpload(p, rep) PROVE RestType'
  <2>1. count' \in [Bounded -> Nat]
    BY <1>1, CountedType DEF StartUpload, Bounded
  <2> QED BY <1>1, <2>1 DEF RestType, StartUpload
<1>2. CASE Pick
  BY <1>2 DEF Pick, RestType
<1>3. CASE ProjectBatch \/ UNCHANGED vars
  BY <1>3 DEF ProjectBatch, vars, RestType
<1>4. ASSUME NEW r \in RowIds, BeginDeletion(r) PROVE RestType'
  <2>1. count' \in [Bounded -> Nat]
    BY <1>4, CountedType DEF BeginDeletion, Bounded
  <2>2. fate' \in FateType
    BY <1>4 DEF BeginDeletion, Quiet, RestType, FateType
  <2> QED BY <1>4, <2>1, <2>2 DEF RestType, BeginDeletion
<1>5. ASSUME ResetRows \/ \E c \in Cells : DropCounter(c) PROVE RestType'
  BY <1>5 DEF ResetRows, DropCounter, RestType
<1>6. CASE CommitDeletion
  <2>1. rows[del.row].report \in Reports
    BY <1>6, CommitDeletionFacts, ReportsOfRows DEF Present
  <2>2. fate' \in FateType
    BY <1>6, <2>1 DEF CommitDeletion, RestType, FateType
  <2> QED BY <1>6, <2>2 DEF RestType, CommitDeletion
<1>7. CASE Hydrate
  <2>1. count' \in [Bounded -> Nat]
    BY <1>7, CountedType DEF Hydrate, Bounded
  <2> QED BY <1>7, <2>1, ReportsOfRows DEF RestType, Hydrate
<1>8. CASE Crash
  <2>1. count' \in [Bounded -> Nat]
    BY <1>8, CountedType DEF Crash, Bounded
  <2>2. UNION { Exposed(p) : p \in Importers } \subseteq Reports
    BY ReportsOfRows, ProcKinds
  <2>3. fate' \in FateType
    BY <1>8, <2>2 DEF Crash, RestType, FateType
  <2> QED BY <1>8, <2>1, <2>3 DEF RestType, Crash
<1> QED BY <1>1, <1>2, <1>3, <1>4, <1>5, <1>6, <1>7, <1>8 DEF Deletes

TypeInv == TypeOK /\ Structure

LEMMA TypeStep == TypeInv /\ [Next]_vars => TypeInv'
<1> SUFFICES ASSUME TypeInv, [Next]_vars PROVE TypeInv'
  OBVIOUS
<1>1. TypeOK /\ Structure /\ RestType
  BY TypeParts DEF TypeInv
<1>2. Structure'
  BY <1>1, NextStructure
<1>3. RestType'
  BY <1>1, ImportStepRest, WriterStepRest, CommitRest, OtherStepsRest DEF Next, Deletes
<1>4. TypeOK'
  <2>1. /\ rows' \in [RowIds -> RowState]
        /\ counters' \in [Cells -> [gen : Nat, n : Nat]]
        /\ tx' \in [Procs -> TxType] /\ del' \in DelType
    BY <1>2 DEF Structure, CoreType
  <2> QED BY <1>3, <2>1 DEF TypeOK, TxType, WriteType, DelType, RestType, FateType, Bounded
<1> QED BY <1>2, <1>4 DEF TypeInv

LEMMA InitType == Init => TypeInv
<1> SUFFICES ASSUME Init PROVE TypeInv
  OBVIOUS
<1>1. Structure
  BY InitStructure
<1>2. RestType
  BY DEF Init, RestType, FateType, Bounded
<1> QED BY <1>1, <1>2, TypeParts DEF TypeInv, Structure, CoreType

LEMMA AlwaysTyped == Spec => []TypeInv
BY InitType, TypeStep, PTL DEF Spec

\* Every variable keeps its shape, for any number of importers, uploads and rows:
\* a deletion and the projection worker never touch a row that is not there.
THEOREM TypeCorrect == Spec => []TypeOK
<1>1. TypeInv => TypeOK
  BY DEF TypeInv
<1> QED BY <1>1, AlwaysTyped, PTL

-----------------------------------------------------------------------------
(***************************************************************************)
(* Waiting                                                                 *)
(***************************************************************************)
\* An importer reads only while there are messages to read, one transaction has
\* the row of the domain, and a deletion that is not under way holds no counters.
Reading(t) == t.at = "read" => t.todo # {}

HeldOnce == \A p, q \in Procs : tx[p].domain = "held" /\ tx[q].domain = "held" => p = q

WaitInv ==
  /\ \A p \in Procs : Reading(tx[p])
  /\ HeldOnce
  /\ del.at = "idle" => del.dropped = {} /\ del.todo = {}

\* What a transaction t may become without taking the row of the domain.
GoodNext(t, u) == Reading(u) /\ (u.domain = "held" => t.domain = "held")

LEMMA IdleNext == ASSUME NEW t PROVE GoodNext(t, Idle)
BY IdleFields DEF GoodNext, Reading

LEMMA DoneNext ==
  ASSUME NEW t \in TxType, NEW m \in t.todo, NEW counts \in BOOLEAN
  PROVE  GoodNext(t, Done(t, m, counts)) /\ Done(t, m, counts) \in TxType
<1>1. m \in Messages
  BY DEF TxType
<1>2. Reading(Done(t, m, counts))
  BY DEF Done, TxType, Reading
<1> QED BY <1>1, <1>2, DoneFields DEF GoodNext

LEMMA AfterReportNext ==
  ASSUME NEW t \in TxType, NEW changes \in BOOLEAN
  PROVE  GoodNext(t, AfterReport(t)) /\ GoodNext(t, WithPolicy(AfterReport(t), changes))
<1> DEFINE v == AfterReport(t)
<1>1. Reading(v)
  BY DEF AfterReport, TxType, Reading
<1>2. v \in TxType /\ v.domain = t.domain
  BY AfterReportFields
<1> HIDE DEF v
<1>3. /\ WithPolicy(v, changes).at = v.at /\ WithPolicy(v, changes).todo = v.todo
      /\ WithPolicy(v, changes).domain = "held" <=> v.domain = "held"
  BY <1>2, PolicyFields
<1>4. GoodNext(t, v) /\ GoodNext(t, WithPolicy(v, changes))
  BY <1>1, <1>2, <1>3 DEF GoodNext, Reading
<1> QED BY <1>4 DEF v

\* A step of one transaction.
LEMMA OneWaits ==
  ASSUME WaitInv, tx \in [Procs -> TxType], NEW p \in Procs, NEW u, GoodNext(tx[p], u),
         tx' = [tx EXCEPT ![p] = u], UNCHANGED del
  PROVE  WaitInv'
<1>1. \A q \in Procs : tx'[q] = IF q = p THEN u ELSE tx[q]
  OBVIOUS
<1>2. \A q \in Procs : tx'[q].domain = "held" => tx[q].domain = "held"
  BY <1>1 DEF GoodNext
<1>3. \A q \in Procs : Reading(tx'[q])
  BY <1>1 DEF WaitInv, GoodNext
<1>4. HeldOnce'
  BY <1>2 DEF WaitInv, HeldOnce
<1> QED BY <1>3, <1>4 DEF WaitInv

LEMMA RolledBackWaits ==
  ASSUME TypeInv, WaitInv, NEW p \in Procs, NEW again, RolledBack(p, again)
  PROVE  WaitInv'
<1>1. tx \in [Procs -> TxType]
  BY DEF TypeInv, Structure
<1> DEFINE u == UploadTx(tx[p].report)
<1>2. u.at = "insert" /\ u.domain = "clean"
  BY IdleFields DEF UploadTx, TxType
<1>3. GoodNext(tx[p], u)
  BY <1>2 DEF GoodNext, Reading
<1>4. tx' = [tx EXCEPT ![p] = u] \/ tx' = [tx EXCEPT ![p] = Idle]
  BY DEF RolledBack, UploadTx
<1>5. UNCHANGED del
  BY DEF RolledBack
<1> HIDE DEF u
<1> QED BY <1>1, <1>3, <1>4, <1>5, OneWaits, IdleNext

LEMMA ImportWaits ==
  ASSUME TypeInv, WaitInv, NEW p \in Importers, ImportStep(p)
  PROVE  WaitInv'
<1>1. tx \in [Procs -> TxType] /\ p \in Procs /\ tx[p] \in TxType /\ Idle \in TxType
  BY IdleFields, ProcKinds DEF TypeInv, Structure
<1> SUFFICES \E u : GoodNext(tx[p], u) /\ tx' = [tx EXCEPT ![p] = u] /\ UNCHANGED del
  BY <1>1, OneWaits
<1>2. CASE StartImport(p)
  <2> DEFINE at == IF Messages \subseteq ingested THEN "commit" ELSE "read"
             u == [Idle EXCEPT !.at = at, !.known = ingested, !.todo = Messages \ ingested]
  <2>1. u.at = at /\ u.todo = Messages \ ingested /\ u.domain = "clean"
    BY <1>1, IdleFields DEF TxType
  <2>2. GoodNext(tx[p], u)
    BY <2>1 DEF GoodNext, Reading
  <2>3. tx' = [tx EXCEPT ![p] = u] /\ UNCHANGED del
    BY <1>2 DEF StartImport
  <2> QED BY <2>2, <2>3
<1>3. ASSUME NEW m \in Messages, FetchFails(p, m)
      PROVE  \E u : GoodNext(tx[p], u) /\ tx' = [tx EXCEPT ![p] = u] /\ UNCHANGED del
  <2> DEFINE u == Done(tx[p], m, p \notin Retrying)
  <2>1. GoodNext(tx[p], u)
    BY <1>1, <1>3, DoneNext DEF FetchFails
  <2>2. tx' = [tx EXCEPT ![p] = u] /\ UNCHANGED del
    BY <1>3 DEF FetchFails
  <2> QED BY <2>1, <2>2
<1>4. ASSUME NEW m \in Messages, Look(p, m)
      PROVE  \E u : GoodNext(tx[p], u) /\ tx' = [tx EXCEPT ![p] = u] /\ UNCHANGED del
  <2> DEFINE done == Done(tx[p], m, TRUE)
             next == [done EXCEPT !.at = "insert", !.report = Carries[m]]
  <2>1. GoodNext(tx[p], done) /\ done \in TxType
    BY <1>1, <1>4, DoneNext DEF Look
  <2>2. /\ tx' = [tx EXCEPT ![p] = done] \/ tx' = [tx EXCEPT ![p] = next]
        /\ UNCHANGED del
    BY <1>4 DEF Look
  <2> HIDE DEF done
  <2>3. next.at = "insert" /\ next.domain = done.domain
    BY <2>1 DEF TxType
  <2>4. GoodNext(tx[p], next)
    BY <2>1, <2>3 DEF GoodNext, Reading
  <2> HIDE DEF next
  <2> QED BY <2>1, <2>2, <2>4
<1>5. CASE BreaksOff(p)
  <2> DEFINE u == [tx[p] EXCEPT !.at = "commit", !.todo = {}, !.seen = {}]
  <2>1. u.at = "commit" /\ u.domain = tx[p].domain
    BY <1>1 DEF TxType
  <2>2. GoodNext(tx[p], u)
    BY <2>1 DEF GoodNext, Reading
  <2>3. tx' = [tx EXCEPT ![p] = u] /\ UNCHANGED del
    BY <1>5 DEF BreaksOff
  <2> QED BY <2>2, <2>3
<1> QED BY <1>2, <1>3, <1>4, <1>5 DEF ImportStep

LEMMA WriterWaits ==
  ASSUME TypeInv, WaitInv, NEW p \in Writers, NEW changes \in BOOLEAN,
         Insert(p, changes) \/ Refuse(p, changes) \/ Project(p)
  PROVE  WaitInv'
<1>1. tx \in [Procs -> TxType] /\ p \in Procs /\ tx[p] \in TxType
  BY ProcKinds DEF TypeInv, Structure
<1> SUFFICES \E u : GoodNext(tx[p], u) /\ tx' = [tx EXCEPT ![p] = u] /\ UNCHANGED del
  BY <1>1, OneWaits
<1> DEFINE after == WithPolicy(AfterReport(tx[p]), changes)
<1>2. GoodNext(tx[p], after)
  BY <1>1, AfterReportNext
<1>3. CASE Insert(p, changes)
  <2>1. UNCHANGED del
    BY <1>3 DEF Insert
  <2>2. CASE tx[p].report \in Stored \cup Pending(p)
    <3>1. tx' = [tx EXCEPT ![p] = after]
      BY <1>3, <2>2 DEF Insert
    <3> QED BY <1>2, <2>1, <3>1
  <2>3. CASE tx[p].report \notin Stored \cup Pending(p)
    <3>1. PICK r \in FreeRows, b \in BOOLEAN : tx' = [tx EXCEPT ![p] = InsertTx(tx[p], r, b)]
      BY <1>3, <2>3, InsertRowKind DEF InsertsRow
    <3> DEFINE v == RowTx(tx[p], r)
    <3>2. v \in TxType /\ v.at = "project" /\ v.domain = tx[p].domain
      <4>1. Shape(p, tx[p]) /\ tx[p].at = "insert"
        BY <1>1, <1>3 DEF TypeInv, Structure, ShapeInv, Insert, TakesPolicy
      <4>2. r \in RowIds /\ tx[p].report \in Reports
        BY <4>1 DEF FreeRows, Shape, TxType
      <4> QED BY <1>1, <4>2 DEF RowTx, TxType
    <3> HIDE DEF v
    <3>3. WithPolicy(v, b).at = "project" /\ (WithPolicy(v, b).domain = "held" <=> tx[p].domain = "held")
      BY <3>2, PolicyFields
    <3>4. GoodNext(tx[p], WithPolicy(v, b))
      BY <3>3 DEF GoodNext, Reading
    <3> QED BY <2>1, <3>1, <3>4 DEF InsertTx, v
  <2> QED BY <2>2, <2>3
<1>4. CASE Refuse(p, changes)
  <2>1. tx' = [tx EXCEPT ![p] = after] \/ tx' = [tx EXCEPT ![p] = Idle]
    BY <1>4 DEF Refuse
  <2>2. UNCHANGED del
    BY <1>4 DEF Refuse
  <2> HIDE DEF after
  <2> QED BY <1>2, <2>1, <2>2, IdleNext
<1>5. CASE Project(p)
  <2> DEFINE v == AfterReport(tx[p])
             writes == Added(tx[p].writes, GainOf(tx[p].report))
             u == [v EXCEPT !.locked = TRUE, !.writes = writes]
  <2>1. tx' = [tx EXCEPT ![p] = u] /\ UNCHANGED del
    BY <1>1, <1>5 DEF Project
  <2>2. v \in TxType /\ GoodNext(tx[p], v)
    BY <1>1, AfterReportNext, AfterReportFields
  <2> HIDE DEF v, writes
  <2>3. u.at = v.at /\ u.todo = v.todo /\ u.domain = v.domain
    BY <2>2 DEF TxType
  <2>4. GoodNext(tx[p], u)
    BY <2>2, <2>3 DEF GoodNext, Reading
  <2> HIDE DEF u
  <2> QED BY <2>1, <2>4
<1> QED BY <1>3, <1>4, <1>5

LEMMA FlushWaits ==
  ASSUME TypeInv, WaitInv, NEW p \in Procs, FlushStep(p)
  PROVE  WaitInv'
<1>1. tx \in [Procs -> TxType] /\ TypeOK /\ ShapeInv
  BY DEF TypeInv, Structure
<1>2. CASE FlushDomain(p)
  <2>1. /\ DomainFree(p) /\ tx' = [tx EXCEPT ![p] = HeldTx(tx[p])] /\ UNCHANGED del
        /\ tx[p].at \in {"project", "commit"}
    BY <1>1, <1>2 DEF FlushDomain, HeldTx, Flushing
  <2>2. HeldTx(tx[p]).at = tx[p].at
    BY <1>1 DEF HeldTx, TxType
  <2>3. \A q \in Procs : tx'[q] = IF q = p THEN HeldTx(tx[p]) ELSE tx[q]
    BY <1>1, <2>1
  <2>4. \A q \in Procs : Reading(tx'[q])
    BY <2>1, <2>2, <2>3 DEF WaitInv, Reading
  <2>5. HeldOnce'
    BY <2>1, <2>3 DEF HeldOnce, DomainFree
  <2> QED BY <2>1, <2>4, <2>5 DEF WaitInv
<1>3. ASSUME NEW c \in Cells, FlushCounter(p, c), Fits(p, c) PROVE WaitInv'
  <2>1. /\ tx' = [tx EXCEPT ![p] = FlushedTx(tx[p], c)] /\ UNCHANGED del
        /\ tx[p].at \in {"project", "commit"}
    BY <1>1, <1>3 DEF FlushCounter, FlushedTx, Flushing
  <2>2. FlushedTx(tx[p], c).at = tx[p].at /\ FlushedTx(tx[p], c).domain = tx[p].domain
    BY <1>1, FlushedFields
  <2>3. GoodNext(tx[p], FlushedTx(tx[p], c))
    BY <2>1, <2>2 DEF GoodNext, Reading
  <2> QED BY <1>1, <2>1, <2>3, OneWaits
<1>4. ASSUME NEW c \in Cells, FlushCounter(p, c), ~Fits(p, c) PROVE WaitInv'
  BY <1>4, RolledBackWaits DEF FlushCounter
<1> QED BY <1>2, <1>3, <1>4 DEF FlushStep

LEMMA WorkerWaits ==
  ASSUME TypeInv, WaitInv, Pick \/ ProjectBatch
  PROVE  WaitInv'
<1>1. /\ tx \in [Procs -> TxType] /\ "projector" \in Procs
      /\ tx["projector"] \in TxType /\ Idle \in TxType
  BY IdleFields, ProcKinds DEF TypeInv, Structure
<1>2. CASE Pick
  <2>1. PICK batch \in SUBSET Due : tx' = [tx EXCEPT !["projector"] = BatchTx(batch)]
    BY <1>2, Zenon DEF Pick, BatchTx
  <2>2. BatchTx(batch).at = "project" /\ BatchTx(batch).domain = "clean"
    BY <1>1, IdleFields DEF TxType, BatchTx
  <2>3. GoodNext(tx["projector"], BatchTx(batch))
    BY <2>2 DEF GoodNext, Reading
  <2>4. UNCHANGED del
    BY <1>2 DEF Pick
  <2> QED BY <1>1, <2>1, <2>3, <2>4, OneWaits
<1>3. CASE ProjectBatch
  <2> DEFINE u == BatchedTx(tx["projector"])
  <2>1. tx' = [tx EXCEPT !["projector"] = u] /\ UNCHANGED del
    BY <1>1, <1>3 DEF ProjectBatch, BatchedTx
  <2>2. u.at = "commit" /\ u.domain = tx["projector"].domain
    BY <1>1 DEF TxType, BatchedTx
  <2>3. GoodNext(tx["projector"], u)
    BY <2>2 DEF GoodNext, Reading
  <2> HIDE DEF u
  <2> QED BY <1>1, <2>1, <2>3, OneWaits
<1> QED BY <1>2, <1>3

LEMMA DeletesWaits ==
  ASSUME TypeInv, WaitInv, Deletes
  PROVE  WaitInv'
<1>1. UNCHANGED tx
  BY DEF Deletes, BeginDeletion, DropCounter, ResetRows, CommitDeletion
<1>2. del \in DelType
  BY DEF TypeInv, Structure, CoreType
<1>3. del'.at = "idle" => del'.dropped = {} /\ del'.todo = {}
  <2>1. ASSUME NEW r \in RowIds, BeginDeletion(r) PROVE del'.at # "idle"
    BY <2>1 DEF BeginDeletion, NoDeletion
  <2>2. ASSUME NEW c \in Cells, DropCounter(c) PROVE del'.at # "idle"
    <3>1. del.todo # {} /\ del'.at = del.at
      BY <1>2, <2>2 DEF DropCounter, Droppable, DelType
    <3> QED BY <1>2, <3>1 DEF WaitInv
  <2>3. ResetRows => del'.at # "idle"
    BY <1>2 DEF ResetRows, DelType
  <2>4. CommitDeletion => del'.dropped = {} /\ del'.todo = {}
    BY DEF CommitDeletion, NoDeletion
  <2> QED BY <2>1, <2>2, <2>3, <2>4 DEF Deletes
<1> QED BY <1>1, <1>3 DEF WaitInv, HeldOnce

LEMMA WaitStep ==
  ASSUME TypeInv, WaitInv, [Next]_vars
  PROVE  WaitInv'
<1>1. tx \in [Procs -> TxType]
  BY DEF TypeInv, Structure
<1>2. ASSUME NEW p \in Uploaders, NEW rep \in Uploads, StartUpload(p, rep) PROVE WaitInv'
  <2>1. UploadTx(rep).at = "insert" /\ UploadTx(rep).domain = "clean"
    BY IdleFields DEF UploadTx, TxType
  <2>2. GoodNext(tx[p], UploadTx(rep))
    BY <2>1 DEF GoodNext, Reading
  <2>3. tx' = [tx EXCEPT ![p] = UploadTx(rep)] /\ UNCHANGED del /\ p \in Procs
    BY <1>2, ProcKinds DEF StartUpload, UploadTx
  <2> QED BY <1>1, <2>2, <2>3, OneWaits
<1>3. ASSUME NEW p \in Procs, Commit(p) PROVE WaitInv'
  <2>1. tx' = [tx EXCEPT ![p] = Idle] /\ UNCHANGED del
    BY <1>3 DEF Commit
  <2> QED BY <1>1, <2>1, OneWaits, IdleNext
<1>4. ASSUME NEW p \in Procs, Fails(p) PROVE WaitInv'
  BY <1>4, RolledBackWaits DEF Fails
<1>5. ASSUME NEW p \in Procs, Deadlock(p) PROVE WaitInv'
  <2>1. CASE del' = NoDeletion /\ UNCHANGED tx
    BY <2>1 DEF WaitInv, HeldOnce, NoDeletion
  <2> QED BY <1>5, <2>1, RolledBackWaits DEF Deadlock
<1>6. CASE Hydrate \/ UNCHANGED vars
  BY <1>6 DEF Hydrate, vars, WaitInv, HeldOnce
<1>7. CASE Crash
  <2>1. del' = NoDeletion /\ \A p \in Procs : tx'[p] = Idle
    BY <1>7 DEF Crash
  <2> QED BY <2>1, IdleFields DEF WaitInv, HeldOnce, Reading, NoDeletion
<1> QED BY <1>2, <1>3, <1>4, <1>5, <1>6, <1>7, ImportWaits, WriterWaits, FlushWaits, WorkerWaits,
           DeletesWaits DEF Next, Deletes

\* Rows of counters are written by the holder of the advisory lock alone.
LEMMA FlushedByHolder ==
  ASSUME TypeInv, NEW p \in Procs
  PROVE  /\ ~tx[p].locked => Unflushed(p) = {} /\ tx[p].flushed = {}
         /\ tx[p].at = "idle" => tx[p] = Idle
         /\ tx[p].at \in {"idle", "read", "insert", "project", "commit"}
         /\ tx[p].flushed \subseteq Cells
BY DEF TypeInv, Structure, ShapeInv, Shape, TxType, Unflushed

\* Who has the row of the domain but not the lock goes on, or meets who has the lock.
LEMMA DomainHolderGoesOn ==
  ASSUME TypeInv, WaitInv, NEW q \in Procs, tx[q].domain = "held", ~tx[q].locked
  PROVE  GoesOn(q) \/ (tx[q].at = "project" /\ ~LockFree(q))
<1>1. Unflushed(q) = {} /\ tx[q].at \in {"read", "insert", "project", "commit"}
  BY FlushedByHolder, IdleFields
<1>2. Flushed(q)
  BY <1>1 DEF Flushed
<1> QED BY <1>1, <1>2 DEF GoesOn, WaitInv, Reading

\* Who has the advisory lock goes on, or is in a circle with another process.
LEMMA LockHolderGoesOn ==
  ASSUME TypeInv, WaitInv, NEW p \in Procs, tx[p].locked, ~DeletionGoesOn
  PROVE  GoesOn(p) \/ MeetsDeletion(p) \/ \E q \in Procs : GoesOn(q) \/ Meets(p, q)
<1>1. tx[p].at \in {"read", "insert", "project", "commit"}
  BY FlushedByHolder, IdleFields
<1>2. \A q \in Procs : q # p => ~tx[q].locked
  BY DEF TypeInv, Structure, LockInv
<1>3. CASE tx[p].at \in {"read", "insert"}
  BY <1>3 DEF GoesOn, WaitInv, Reading
<1>4. CASE Flushing(p) /\ Undropped(p) # {}
  BY <1>4 DEF GoesOn
<1>5. CASE Flushing(p) /\ tx[p].domain = "dirty"
  <2>1. CASE DomainFree(p)
    BY <1>5, <2>1 DEF GoesOn
  <2>2. CASE ~DomainFree(p)
    <3>1. PICK q \in Procs : tx[q].domain = "held" /\ ~tx[q].locked
      BY <1>2, <2>2 DEF DomainFree
    <3> QED BY <1>5, <3>1, DomainHolderGoesOn DEF Meets
  <2> QED BY <2>1, <2>2
<1>6. CASE Flushing(p) /\ tx[p].domain # "dirty" /\ Unflushed(p) = {}
  <2>1. Flushed(p) /\ LockFree(p)
    BY <1>2, <1>6 DEF Flushed, LockFree
  <2> QED BY <1>6, <2>1 DEF GoesOn, Flushing
<1>7. CASE Flushing(p) /\ Undropped(p) = {} /\ Unflushed(p) # {}
  <2>1. Unflushed(p) \cap del.dropped # {}
    BY <1>7 DEF Undropped
  <2>2. del.at = "drop" /\ del.todo # {} /\ Droppable = {} /\ del.todo \subseteq Cells
    <3>1. del \in DelType
      BY DEF TypeInv, Structure, CoreType
    <3>2. del.at # "idle"
      BY <2>1 DEF WaitInv
    <3> QED BY <3>1, <3>2 DEF DeletionGoesOn, DelType
  <2>3. PICK c \in del.todo : \E q \in Procs : c \in tx[q].flushed
    BY <2>2 DEF Droppable
  <2>4. c \in tx[p].flushed
    BY <1>2, <2>3, FlushedByHolder
  <2> QED BY <1>7, <2>1, <2>4 DEF MeetsDeletion
<1> QED BY <1>1, <1>3, <1>4, <1>5, <1>6, <1>7 DEF Flushing

\* For any importers, uploads, rows and deletions, what has begun does not come to
\* a stop except in a circle that PostgreSQL sees and ends.  Who has the advisory
\* lock waits for the deletion or for the row of the domain; the deletion waits for
\* counters that the holder of the lock has written; and who has the row of the
\* domain waits for the lock at most.
THEOREM NobodyWaitsForever == Spec => []SomebodyGoesOn
<1>1. Init => TypeInv /\ WaitInv
  <2>1. Init => WaitInv
    BY IdleFields DEF Init, WaitInv, HeldOnce, Reading, NoDeletion
  <2> QED BY <2>1, InitType
<1>2. (TypeInv /\ WaitInv) /\ [Next]_vars => (TypeInv /\ WaitInv)'
  BY TypeStep, WaitStep
<1>3. TypeInv /\ WaitInv => SomebodyGoesOn
  <2> SUFFICES ASSUME TypeInv, WaitInv, ~Quiet \/ del.at # "idle", ~DeletionGoesOn
               PROVE  \E p \in Procs : GoesOn(p) \/ MeetsDeletion(p) \/ \E q \in Procs : Meets(p, q)
    BY DEF SomebodyGoesOn
  <2>1. CASE \E p \in Procs : tx[p].locked
    BY <2>1, LockHolderGoesOn
  <2>2. CASE \A p \in Procs : ~tx[p].locked
    <3>1. \A p \in Procs : Unflushed(p) = {} /\ tx[p].flushed = {} /\ LockFree(p)
      BY <2>2, FlushedByHolder DEF LockFree
    <3>2. PICK p \in Procs : tx[p].at # "idle"
      <4>1. CASE ~Quiet
        BY <4>1 DEF Quiet
      <4>2. CASE del.at # "idle"
        <5>1. del \in DelType /\ Droppable = del.todo
          BY <3>1 DEF TypeInv, Structure, CoreType, Droppable
        <5> QED BY <4>2, <5>1 DEF DeletionGoesOn, DelType
      <4> QED BY <4>1, <4>2
    <3>3. CASE tx[p].domain = "dirty" /\ ~DomainFree(p)
      <4>1. PICK q \in Procs : tx[q].domain = "held"
        BY <3>3 DEF DomainFree
      <4> QED BY <2>2, <3>1, <4>1, DomainHolderGoesOn
    <3>4. CASE tx[p].domain = "dirty" /\ DomainFree(p)
      BY <3>2, <3>4, FlushedByHolder DEF GoesOn, Flushing, WaitInv, Reading
    <3>5. CASE tx[p].domain # "dirty"
      BY <3>1, <3>2, <3>5, FlushedByHolder DEF GoesOn, Flushed, WaitInv, Reading
    <3> QED BY <3>3, <3>4, <3>5
  <2> QED BY <2>1, <2>2
<1> QED BY <1>1, <1>2, <1>3, PTL DEF Spec

-----------------------------------------------------------------------------
(***************************************************************************)
(* Ingested messages                                                       *)
(***************************************************************************)
Accounted(m) == m \in fate.unread \/ Kept(Carries[m])

\* The ids an importer has loaded, and those it has read itself: their reports
\* are kept, or it is about to store them.
TraceOf(p) ==
  /\ \A m \in tx[p].known : Accounted(m)
  /\ \A m \in tx[p].seen : Accounted(m) \/ Carries[m] \in Pending(p) \cup {tx[p].report}

TraceInv ==
  /\ \A rep \in store : Kept(rep)
  /\ \A m \in ingested : Accounted(m)
  /\ \A p \in Importers : TraceOf(p)

\* What became of a report or a message is not forgotten.
LEMMA FateGrows ==
  ASSUME TypeInv, [Next]_vars
  PROVE  /\ fate.deleted \subseteq fate'.deleted /\ fate.refused \subseteq fate'.refused
         /\ fate.shadowed \subseteq fate'.shadowed /\ fate.unread \subseteq fate'.unread
<1> DEFINE Grows == /\ fate.deleted \subseteq fate'.deleted /\ fate.refused \subseteq fate'.refused
                    /\ fate.shadowed \subseteq fate'.shadowed /\ fate.unread \subseteq fate'.unread
<1>1. fate \in FateType
  BY TypeParts DEF TypeInv, RestType
<1>2. ASSUME UNCHANGED fate \/ fate' = MetBy PROVE Grows
  BY <1>1, <1>2 DEF MetBy, FateType
<1>3. ASSUME NEW p \in Procs, NEW again, RolledBack(p, again) PROVE Grows
  BY <1>1, <1>3 DEF RolledBack, FateType
<1>4. ASSUME NEW p \in Importers, ImportStep(p) PROVE Grows
  <2>1. ASSUME NEW m \in Messages, FetchFails(p, m) PROVE Grows
    BY <1>1, <2>1 DEF FetchFails, FateType
  <2> QED BY <1>2, <1>4, <2>1 DEF ImportStep, StartImport, Look, BreaksOff
<1>5. ASSUME NEW p \in Writers, NEW changes \in BOOLEAN,
             Insert(p, changes) \/ Refuse(p, changes) \/ Project(p)
      PROVE  Grows
  <2>1. CASE Refuse(p, changes)
    BY <1>1, <2>1 DEF Refuse, FateType
  <2> QED BY <1>2, <1>5, <2>1 DEF Insert, Project
<1>6. ASSUME NEW p \in Procs, FlushStep(p) \/ Commit(p) \/ Fails(p) \/ Deadlock(p) PROVE Grows
  BY <1>2, <1>3, <1>6 DEF FlushStep, FlushDomain, FlushCounter, Commit, Fails, Deadlock
<1>7. ASSUME NEW r \in RowIds, BeginDeletion(r) PROVE Grows
  BY <1>1, <1>7 DEF BeginDeletion, FateType
<1>8. ASSUME CommitDeletion \/ Crash PROVE Grows
  BY <1>1, <1>8 DEF CommitDeletion, Crash, FateType
<1>9. ASSUME \/ ResetRows \/ \E c \in Cells : DropCounter(c)
             \/ Hydrate \/ Pick \/ ProjectBatch \/ UNCHANGED vars
      PROVE  Grows
  BY <1>2, <1>9 DEF ResetRows, DropCounter, Hydrate, Pick, ProjectBatch, vars
<1>10. ASSUME NEW p \in Uploaders, NEW rep \in Uploads, StartUpload(p, rep) PROVE Grows
  BY <1>2, <1>10 DEF StartUpload
<1> QED BY <1>4, <1>5, <1>6, <1>7, <1>8, <1>9, <1>10 DEF Next

\* A stored report stays stored until it is deleted.
LEMMA StoredStays ==
  ASSUME TypeInv, [Next]_vars, NEW rep \in Stored
  PROVE  rep \in Stored' \/ rep \in fate'.deleted
<1>1. PICK r \in RowIds : rows[r] # NoRow /\ rows[r].report = rep
  BY DEF Stored, Present
<1>2. ASSUME rows'[r] # NoRow, rows'[r].report = rep PROVE rep \in Stored'
  BY <1>2 DEF Stored, Present
<1>3. CASE UNCHANGED rows
  BY <1>1, <1>2, <1>3
<1>4. ASSUME NEW p \in Procs, Commits(p) PROVE rep \in Stored'
  <2>1. rows'[r] # NoRow /\ rows'[r].report = rep
    BY <1>1, <1>4, RowsAfterFacts DEF TypeInv, Commits
  <2> QED BY <1>2, <2>1
<1>5. CASE CommitDeletion
  <2>1. CASE r = del.row
    BY <1>1, <1>5, <2>1 DEF CommitDeletion, TypeInv, TypeOK
  <2>2. CASE r # del.row
    <3>1. rows'[r] # NoRow /\ rows'[r].report = rep
      BY <1>1, <1>5, <2>2, CommitDeletionFacts DEF TypeInv
    <3> QED BY <1>2, <3>1
  <2> QED BY <2>1, <2>2
<1>6. (UNCHANGED rows) \/ CommitDeletion \/ \E p \in Procs : Commits(p)
  BY StepKinds DEF TypeInv, Structure, Moves, InsertsRow, Projects, Picks, ProjectsBatch, Undoes,
     Deletes, BeginDeletion, DropCounter, ResetRows
<1> QED BY <1>3, <1>4, <1>5, <1>6

LEMMA ExposedFacts ==
  ASSUME NEW p \in Importers, NEW rep
  PROVE  /\ rep \in Pending(p) <=> \E r \in RowIds : tx[p].new[r] # None /\ tx[p].new[r] = rep
         /\ rep \in Exposed(p) <=> rep \in Pending(p) /\ rep # tx[p].report
BY DEF Exposed, Pending, Inserted

\* What memory learnt from a transaction is learnt until it is stored or
\* rolled back.
LEMMA ExposedStays ==
  ASSUME TypeInv, [Next]_vars, NEW p \in Importers, NEW rep \in Exposed(p)
  PROVE  (rep \in Exposed(p))' \/ rep \in Stored' \/ rep \in fate'.shadowed
<1>1. p \in Writers /\ p \in Procs /\ p # "projector"
  BY ProcKinds
<1>2. PICK r \in RowIds : tx[p].new[r] = rep /\ rep # None /\ rep # tx[p].report
  BY ExposedFacts
<1>3. ASSUME tx'[p].new[r] = rep, rep # tx'[p].report PROVE (rep \in Exposed(p))'
  <2>1. rep \in { tx'[p].new[s] : s \in { s \in RowIds : tx'[p].new[s] # None } }
    BY <1>2, <1>3
  <2> QED BY <1>3, <2>1 DEF Exposed, Pending, Inserted
<1>4. ASSUME tx'[p] = tx[p] PROVE (rep \in Exposed(p))'
  BY <1>2, <1>3, <1>4
<1>5. ASSUME NEW q \in Procs, Moves(q) PROVE (rep \in Exposed(p))'
  <2>1. CASE q = p
    BY <1>2, <1>3, <1>5, <2>1 DEF Moves, Keeps
  <2>2. CASE q # p
    BY <1>1, <1>4, <1>5, <2>2 DEF Moves, TypeInv, Structure
  <2> QED BY <2>1, <2>2
<1>6. ASSUME NEW q \in Writers, InsertsRow(q) PROVE (rep \in Exposed(p))'
  <2>1. CASE q = p
    BY <1>1, <1>2, <1>3, <1>6, <2>1, InsertsRowFacts DEF TypeInv
  <2>2. CASE q # p
    BY <1>1, <1>4, <1>6, <2>2, InsertsRowFacts DEF TypeInv
  <2> QED BY <2>1, <2>2
<1>7. ASSUME NEW q \in Writers, Projects(q) PROVE (rep \in Exposed(p))'
  <2>1. CASE q = p
    BY <1>1, <1>2, <1>3, <1>7, <2>1, ProjectsFacts DEF TypeInv
  <2>2. CASE q # p
    BY <1>1, <1>4, <1>7, <2>2, ProjectsFacts DEF TypeInv
  <2> QED BY <2>1, <2>2
<1>8. ASSUME Picks \/ ProjectsBatch \/ Deletes PROVE (rep \in Exposed(p))'
  BY <1>1, <1>4, <1>8, PicksFacts, ProjectsBatchFacts
     DEF TypeInv, Deletes, BeginDeletion, DropCounter, ResetRows, CommitDeletion
<1>9. ASSUME NEW q \in Procs, Commits(q) PROVE (rep \in Exposed(p))' \/ rep \in Stored'
  <2>1. CASE q = p
    <3>1. rows'[r] # NoRow /\ rows'[r].report = rep
      BY <1>2, <1>9, <2>1, RowsAfterFacts DEF TypeInv, Commits
    <3> QED BY <3>1 DEF Stored, Present
  <2>2. CASE q # p
    BY <1>1, <1>4, <1>9, <2>2, CommitsFacts DEF TypeInv
  <2> QED BY <2>1, <2>2
<1>10. ASSUME Undoes PROVE (rep \in Exposed(p))' \/ rep \in fate'.shadowed
  BY <1>1, <1>4, <1>10 DEF Undoes
<1> QED BY <1>5, <1>6, <1>7, <1>8, <1>9, <1>10, StepKinds DEF TypeInv, Structure

LEMMA KeptStays ==
  ASSUME TypeInv, [Next]_vars, NEW rep, Kept(rep)
  PROVE  Kept(rep)'
BY FateGrows, StoredStays, ExposedStays DEF Kept

LEMMA AccountedStays ==
  ASSUME TypeInv, [Next]_vars, NEW m, Accounted(m)
  PROVE  Accounted(m)'
BY FateGrows, KeptStays DEF Accounted

\* An importer that does nothing.
LEMMA TraceStays ==
  ASSUME TypeInv, [Next]_vars, NEW p \in Importers, TraceOf(p), tx'[p] = tx[p]
  PROVE  TraceOf(p)'
BY AccountedStays DEF TraceOf, Pending, Inserted

\* An importer goes on: it keeps what it has inserted, and lets a report go
\* only when that is kept or inserted.
LEMMA TraceGoesOn ==
  ASSUME TypeInv, [Next]_vars, NEW p \in Importers, TraceOf(p),
         tx'[p].known = tx[p].known,
         NEW new \in SUBSET Messages, tx'[p].seen \subseteq tx[p].seen \cup new,
         \A m \in new : Accounted(m)' \/ (Carries[m] \in Pending(p))' \/ Carries[m] = tx'[p].report,
         \A rep \in Pending(p) : (rep \in Pending(p))',
         NEW old, old = tx[p].report,
         old = None \/ tx'[p].report = old \/ (old \in Pending(p))' \/ Kept(old)'
  PROVE  TraceOf(p)'
<1>1. \A m \in tx'[p].known : Accounted(m)'
  BY AccountedStays DEF TraceOf
<1>2. ASSUME NEW m \in tx[p].seen
      PROVE  Accounted(m)' \/ (Carries[m] \in Pending(p))' \/ Carries[m] = tx'[p].report
  <2>1. m \in Messages /\ Carries[m] # None
    BY NoneIsNoReport, ImportAssumption, ProcKinds DEF TypeInv, Structure, TxType
  <2>2. CASE Accounted(m)
    BY <2>2, AccountedStays
  <2>3. CASE Carries[m] \in Pending(p)
    BY <2>3
  <2>4. CASE Carries[m] = old
    <3>1. CASE Kept(old)'
      <4>1. \A rep : rep = old => Kept(rep)'
        BY <3>1
      <4>2. Kept(Carries[m])'
        BY <2>4, <4>1
      <4> QED BY <4>2 DEF Accounted
    <3> QED BY <2>1, <2>4, <3>1
  <2> QED BY <2>2, <2>3, <2>4 DEF TraceOf
<1>3. \A m \in tx'[p].seen :
        Accounted(m)' \/ (Carries[m] \in Pending(p))' \/ Carries[m] = tx'[p].report
  BY <1>2
<1> QED BY <1>1, <1>3 DEF TraceOf

\* Rows that stay inserted stay pending.
LEMMA PendingStays ==
  ASSUME NEW p, \A r \in RowIds : tx[p].new[r] # None => tx'[p].new[r] = tx[p].new[r]
  PROVE  \A rep \in Pending(p) : (rep \in Pending(p))'
<1> SUFFICES ASSUME NEW r \in RowIds, tx[p].new[r] # None PROVE (tx[p].new[r] \in Pending(p))'
  BY DEF Pending, Inserted
<1>1. tx'[p].new[r] = tx[p].new[r]
  OBVIOUS
<1> QED BY <1>1 DEF Pending, Inserted

\* A pending report that is not at hand is exposed.
LEMMA PendingIsExposed ==
  ASSUME NEW p \in Importers, NEW rep, (rep \in Pending(p))', tx'[p].report = None
  PROVE  (rep \in Exposed(p))' /\ Kept(rep)'
<1>1. rep # None
  BY DEF Pending, Inserted
<1> QED BY <1>1 DEF Exposed, Kept

LEMMA ImportTrace ==
  ASSUME TypeInv, TraceInv, [Next]_vars, NEW p \in Importers, ImportStep(p)
  PROVE  TraceOf(p)'
<1>1. TraceOf(p) /\ TypeOK /\ ShapeInv /\ fate \in FateType
  BY TypeParts DEF TraceInv, TypeInv, Structure, RestType
<1>2. CASE StartImport(p)
  BY <1>1, <1>2, StartImportKind, AccountedStays DEF TraceInv, TraceOf
<1>3. ASSUME NEW m \in Messages, FetchFails(p, m) PROVE TraceOf(p)'
  <2>1. /\ Moves(p) /\ tx'[p].known = tx[p].known
        /\ tx'[p].seen = IF p \in Retrying THEN tx[p].seen ELSE tx[p].seen \cup {m}
    BY <1>1, <1>3, FetchFailsKind
  <2>2. tx[p].report = None
    BY <1>1, <1>3, ProcKinds DEF ShapeInv, Shape, FetchFails
  <2>3. \A rep \in Pending(p) : (rep \in Pending(p))'
    BY <2>1, PendingStays DEF Moves, Keeps
  <2>4. CASE p \in Retrying
    <3> DEFINE new == {}
    <3>1. /\ new \in SUBSET Messages /\ tx'[p].seen \subseteq tx[p].seen \cup new
          /\ \A n \in new : FALSE
      BY <2>1, <2>4
    <3> HIDE DEF new
    <3> QED BY <1>1, <2>1, <2>2, <2>3, <3>1, TraceGoesOn
  <2>5. CASE p \notin Retrying
    <3>1. Accounted(m)'
      BY <1>1, <1>3, <2>5 DEF FetchFails, FateType, Accounted
    <3> DEFINE new == {m}
    <3>2. /\ new \in SUBSET Messages /\ tx'[p].seen \subseteq tx[p].seen \cup new
          /\ \A n \in new : Accounted(n)'
      BY <2>1, <2>5, <3>1
    <3> HIDE DEF new
    <3> QED BY <1>1, <2>1, <2>2, <2>3, <3>2, TraceGoesOn
  <2> QED BY <2>4, <2>5
<1>4. ASSUME NEW m \in Messages, Look(p, m) PROVE TraceOf(p)'
  <2>1. /\ Moves(p) /\ tx'[p].known = tx[p].known /\ tx'[p].seen = tx[p].seen \cup {m}
        /\ tx[p].report = None
        /\ \/ Carries[m] \in store \cup Stored \cup Pending(p)
           \/ tx'[p].report = Carries[m]
    BY <1>1, <1>4, LookKind
  <2>2. \A rep \in Pending(p) : (rep \in Pending(p))'
    BY <2>1, PendingStays DEF Moves, Keeps
  <2>3. Accounted(m)' \/ (Carries[m] \in Pending(p))' \/ Carries[m] = tx'[p].report
    <3>1. CASE Carries[m] \in store \cup Stored
      <4>1. Kept(Carries[m])
        BY <3>1 DEF TraceInv, Kept
      <4> QED BY <4>1, KeptStays DEF Accounted
    <3> QED BY <2>1, <2>2, <3>1
  <2> DEFINE new == {m}
  <2>4. /\ new \in SUBSET Messages /\ tx'[p].seen \subseteq tx[p].seen \cup new
        /\ \A n \in new : Accounted(n)' \/ (Carries[n] \in Pending(p))' \/ Carries[n] = tx'[p].report
    BY <2>1, <2>3
  <2> HIDE DEF new
  <2> QED BY <1>1, <2>1, <2>2, <2>4, TraceGoesOn
<1>5. CASE BreaksOff(p)
  <2>1. Moves(p) /\ tx'[p].known = tx[p].known /\ tx'[p].seen = {} /\ tx[p].report = None
    BY <1>1, <1>5, BreaksOffKind
  <2>2. \A rep \in Pending(p) : (rep \in Pending(p))'
    BY <2>1, PendingStays DEF Moves, Keeps
  <2> DEFINE new == {}
  <2>3. /\ new \in SUBSET Messages /\ tx'[p].seen \subseteq tx[p].seen \cup new
        /\ \A n \in new : FALSE
    BY <2>1
  <2> HIDE DEF new
  <2> QED BY <1>1, <2>1, <2>2, <2>3, TraceGoesOn
<1> QED BY <1>2, <1>3, <1>4, <1>5 DEF ImportStep

\* A flush changes nothing that is to be followed.
LEMMA FlushTrace ==
  ASSUME TypeInv, TraceInv, [Next]_vars, NEW p \in Importers, FlushStep(p), ~RolledBack(p, FALSE)
  PROVE  TraceOf(p)'
<1>1. TraceOf(p) /\ TypeOK /\ ShapeInv /\ p \in Procs
  BY ProcKinds DEF TraceInv, TypeInv, Structure
<1> PICK old : old = tx[p].report
  OBVIOUS
<1>2. /\ Moves(p) /\ tx'[p].known = tx[p].known /\ tx'[p].seen = tx[p].seen
      /\ tx'[p].report = old
  BY <1>1, FlushKind
<1>3. \A rep \in Pending(p) : (rep \in Pending(p))'
  BY <1>2, PendingStays DEF Moves, Keeps
<1> DEFINE new == {}
<1>4. /\ new \in SUBSET Messages /\ tx'[p].seen \subseteq tx[p].seen \cup new
      /\ \A n \in new : FALSE
  BY <1>2
<1> HIDE DEF new
<1> QED BY <1>1, <1>2, <1>3, <1>4, TraceGoesOn

\* What memory is told of an insertion, or of a report that was there already,
\* is kept.
LEMMA WriterTrace ==
  ASSUME TypeInv, TraceInv, [Next]_vars, NEW p \in Importers, NEW changes \in BOOLEAN,
         Insert(p, changes) \/ Refuse(p, changes) \/ Project(p)
  PROVE  TraceOf(p)' /\ \A rep \in store' : Kept(rep)'
<1>1. /\ TraceOf(p) /\ TypeOK /\ ShapeInv /\ Structure /\ fate \in FateType
      /\ p \in Writers /\ p \in Procs /\ Shape(p, tx[p])
      /\ \A rep \in store : Kept(rep)'
  BY TypeParts, ProcKinds, KeptStays DEF TraceInv, TypeInv, Structure, RestType, ShapeInv
<1> PICK old : old = tx[p].report
  OBVIOUS
<1>2. ASSUME tx'[p].known = tx[p].known, tx'[p].seen = tx[p].seen,
             \A rep \in Pending(p) : (rep \in Pending(p))',
             tx'[p].report = old \/ Kept(old)'
      PROVE  TraceOf(p)'
  <2> DEFINE new == {}
  <2>1. /\ new \in SUBSET Messages /\ tx'[p].seen \subseteq tx[p].seen \cup new
        /\ \A n \in new : Accounted(n)' \/ (Carries[n] \in Pending(p))' \/ Carries[n] = tx'[p].report
    BY <1>2
  <2> HIDE DEF new
  <2> QED BY <1>1, <1>2, <2>1, TraceGoesOn
<1>3. CASE Insert(p, changes) /\ tx[p].report \in Stored \cup Pending(p)
  <2>1. /\ Moves(p) /\ tx'[p].known = tx[p].known /\ tx'[p].seen = tx[p].seen /\ tx'[p].report = None
    BY <1>1, <1>3, LetGoKind DEF Insert, TakesPolicy
  <2>2. \A rep \in Pending(p) : (rep \in Pending(p))'
    BY <2>1, PendingStays DEF Moves, Keeps
  <2>3. Kept(old)'
    <3>1. CASE old \in Stored
      <4>1. Kept(old)
        BY <3>1 DEF Kept
      <4> QED BY <4>1, KeptStays
    <3>2. CASE old \in Pending(p)
      BY <2>1, <2>2, <3>2, PendingIsExposed
    <3> QED BY <1>3, <3>1, <3>2
  <2>4. store' = store \cup {old}
    BY <1>3 DEF Insert, Remembered
  <2> QED BY <1>1, <1>2, <2>1, <2>2, <2>3, <2>4
<1>4. CASE Insert(p, changes) /\ tx[p].report \notin Stored \cup Pending(p)
  <2>1. InsertsRow(p)
    BY <1>4, InsertRowKind
  <2>2. /\ tx'[p].known = tx[p].known /\ tx'[p].seen = tx[p].seen /\ tx'[p].report = tx[p].report
        /\ \A r \in RowIds : tx[p].new[r] # None => tx'[p].new[r] = tx[p].new[r]
    BY <1>1, <2>1, InsertsRowFacts
  <2>3. \A rep \in Pending(p) : (rep \in Pending(p))'
    BY <2>2, PendingStays
  <2>4. store' = store
    BY <1>4 DEF Insert
  <2> QED BY <1>1, <1>2, <2>2, <2>3, <2>4
<1>5. CASE Refuse(p, changes)
  <2>1. /\ Moves(p) /\ tx'[p].known = tx[p].known /\ tx'[p].seen = tx[p].seen /\ tx'[p].report = None
    <3>1. fate'.overlap = fate.overlap
      BY <1>1, <1>5 DEF Refuse, FateType
    <3> QED BY <1>1, <1>5, <3>1, LetGoKind DEF Refuse, TakesPolicy
  <2>2. \A rep \in Pending(p) : (rep \in Pending(p))'
    BY <2>1, PendingStays DEF Moves, Keeps
  <2>3. Kept(old)'
    BY <1>1, <1>5 DEF Refuse, FateType, Kept
  <2>4. store' = store
    BY <1>5 DEF Refuse
  <2> QED BY <1>1, <1>2, <2>1, <2>2, <2>3, <2>4
<1>6. CASE Project(p)
  <2>1. Projects(p)
    BY <1>6 DEF Project, Projects, ProjectTx
  <2>2. /\ tx'[p].known = tx[p].known /\ tx'[p].seen = tx[p].seen /\ tx'[p].report = None
        /\ tx'[p].new = tx[p].new
    BY <1>1, <2>1, ProjectsFacts
  <2>3. \A rep \in Pending(p) : (rep \in Pending(p))'
    BY <2>2, PendingStays
  <2>4. old \in Pending(p)
    BY <1>1, <1>6 DEF Project, Shape, Pending, Inserted
  <2>5. Kept(old)'
    BY <2>2, <2>3, <2>4, PendingIsExposed
  <2>6. store' = store \cup {old}
    BY <1>6 DEF Project, Remembered
  <2> QED BY <1>1, <1>2, <2>2, <2>3, <2>5, <2>6
<1> QED BY <1>3, <1>4, <1>5, <1>6

\* A rollback leaves nothing to follow, and a commit records only messages
\* whose reports it has stored.
LEMMA UndoesTrace ==
  ASSUME TypeInv, TraceInv, [Next]_vars, Undoes, NEW p \in Importers
  PROVE  TraceOf(p)'
<1>1. CASE tx'[p] = tx[p]
  BY <1>1, TraceStays DEF TraceInv
<1>2. CASE tx'[p].known = {} /\ tx'[p].seen = {}
  BY <1>2 DEF TraceOf
<1> QED BY <1>1, <1>2, UndoesFacts, ProcKinds DEF TypeInv

LEMMA CommitsTrace ==
  ASSUME TypeInv, TraceInv, [Next]_vars, NEW p \in Procs, Commits(p)
  PROVE  /\ \A q \in Importers : TraceOf(q)'
         /\ \A m \in IngestedAfter(p) : Accounted(m)'
<1>1. tx'[p] = Idle /\ \A q \in Procs : q # p => tx'[q] = tx[q]
  BY CommitsFacts DEF TypeInv
<1>2. ASSUME NEW q \in Importers PROVE TraceOf(q)'
  <2>1. CASE q = p
    BY <1>1, <2>1, IdleFields DEF TraceOf
  <2>2. CASE q # p
    BY <1>1, <2>2, TraceStays, ProcKinds DEF TraceInv
  <2> QED BY <2>1, <2>2
<1>3. ASSUME NEW m \in IngestedAfter(p) PROVE Accounted(m)'
  <2>1. CASE m \in ingested
    BY <2>1, AccountedStays DEF TraceInv
  <2>2. CASE m \notin ingested
    <3>1. p \in Importers /\ m \in tx[p].known \cup tx[p].seen
      BY <1>3, <2>2 DEF IngestedAfter
    <3>2. TraceOf(p) /\ Shape(p, tx[p]) /\ tx[p].report = None
      BY <3>1 DEF TraceInv, TypeInv, Structure, ShapeInv, Shape, Commits
    <3>3. m \in Messages /\ Carries[m] # None
      BY <3>1, NoneIsNoReport, ImportAssumption DEF TypeInv, Structure, TxType
    <3>4. CASE Accounted(m)
      BY <3>4, AccountedStays
    <3>5. CASE Carries[m] \in Pending(p)
      <4>1. PICK r \in RowIds : tx[p].new[r] # None /\ tx[p].new[r] = Carries[m]
        BY <3>5 DEF Pending, Inserted
      <4>2. rows'[r] # NoRow /\ rows'[r].report = Carries[m]
        BY <4>1, RowsAfterFacts DEF TypeInv, Commits
      <4>3. Carries[m] \in Stored'
        BY <4>2 DEF Stored, Present
      <4> QED BY <4>3 DEF Accounted, Kept
    <3> QED BY <3>1, <3>2, <3>3, <3>4, <3>5 DEF TraceOf
  <2> QED BY <2>1, <2>2
<1> QED BY <1>2, <1>3
\* A step of one process, by which the other importers are not concerned.
LEMMA OthersTrace ==
  ASSUME TypeInv, TraceInv, [Next]_vars, NEW p \in Procs, NEW t, tx' = [tx EXCEPT ![p] = t],
         p \in Importers => TraceOf(p)'
  PROVE  \A q \in Importers : TraceOf(q)'
<1> SUFFICES ASSUME NEW q \in Importers, q # p PROVE TraceOf(q)'
  OBVIOUS
<1>1. tx'[q] = tx[q]
  BY ProcKinds DEF TypeInv, TypeOK
<1> QED BY <1>1, TraceStays DEF TraceInv

\* A step that records no message, and puts no report into memory that is not kept.
LEMMA TraceWithoutCommit ==
  ASSUME TypeInv, TraceInv, [Next]_vars, \A q \in Importers : TraceOf(q)',
         store' \subseteq store \cup Stored, ingested' = ingested
  PROVE  TraceInv'
<1>1. \A rep \in store \cup Stored : Kept(rep)
  BY DEF TraceInv, Kept
<1>2. \A rep \in store' : Kept(rep)'
  BY <1>1, KeptStays
<1>3. \A m \in ingested' : Accounted(m)'
  BY AccountedStays DEF TraceInv
<1> QED BY <1>2, <1>3 DEF TraceInv

LEMMA TraceStep ==
  ASSUME TypeInv, TraceInv, [Next]_vars
  PROVE  TraceInv'
<1>1. TypeOK /\ Structure
  BY DEF TypeInv
<1>2. ASSUME NEW p \in Importers, ImportStep(p) PROVE TraceInv'
  <2>1. p \in Procs /\ TraceOf(p)' /\ store' = store /\ ingested' = ingested
    BY <1>2, ImportTrace, ProcKinds DEF ImportStep, StartImport, Look, FetchFails, BreaksOff
  <2>2. PICK t : tx' = [tx EXCEPT ![p] = t]
    BY <1>2 DEF ImportStep, StartImport, Look, FetchFails, BreaksOff
  <2> QED BY <2>1, <2>2, OthersTrace, TraceWithoutCommit
<1>3. ASSUME NEW p \in Uploaders, NEW rep \in Uploads, StartUpload(p, rep) PROVE TraceInv'
  <2>1. p \in Procs /\ p \notin Importers /\ store' = store /\ ingested' = ingested
    BY <1>3, ProcKinds DEF StartUpload
  <2>2. PICK t : tx' = [tx EXCEPT ![p] = t]
    BY <1>3 DEF StartUpload
  <2> QED BY <2>1, <2>2, OthersTrace, TraceWithoutCommit
<1>4. ASSUME NEW p \in Writers, NEW changes \in BOOLEAN,
             Insert(p, changes) \/ Refuse(p, changes) \/ Project(p)
      PROVE  TraceInv'
  <2>1. p \in Procs /\ ingested' = ingested
    BY <1>4, ProcKinds DEF Insert, Refuse, Project
  <2>2. PICK t : tx' = [tx EXCEPT ![p] = t]
    BY <1>4 DEF Insert, Refuse, Project
  <2>3. CASE p \in Importers
    <3>1. \A q \in Importers : TraceOf(q)'
      BY <1>4, <2>1, <2>2, <2>3, WriterTrace, OthersTrace
    <3>2. \A rep \in store' : Kept(rep)'
      BY <1>4, <2>3, WriterTrace
    <3>3. \A m \in ingested' : Accounted(m)'
      BY <2>1, AccountedStays DEF TraceInv
    <3> QED BY <3>1, <3>2, <3>3 DEF TraceInv
  <2>4. CASE p \notin Importers
    <3>1. store' = store
      BY <1>4, <2>4 DEF Insert, Refuse, Project, Remembered
    <3> QED BY <2>1, <2>2, <2>4, <3>1, OthersTrace, TraceWithoutCommit
  <2> QED BY <2>3, <2>4
<1>5. ASSUME Pick \/ ProjectBatch PROVE TraceInv'
  <2>1. "projector" \in Procs /\ "projector" \notin Importers /\ store' = store /\ ingested' = ingested
    BY <1>5, ProcKinds DEF Pick, ProjectBatch
  <2>2. PICK t : tx' = [tx EXCEPT !["projector"] = t]
    BY <1>5 DEF Pick, ProjectBatch
  <2> QED BY <2>1, <2>2, OthersTrace, TraceWithoutCommit
<1>6. ASSUME Undoes, store' \subseteq store \cup Stored, ingested' = ingested PROVE TraceInv'
  BY <1>6, UndoesTrace, TraceWithoutCommit
<1>7. ASSUME NEW p \in Procs, Commit(p) PROVE TraceInv'
  <2>1. Commits(p) /\ store' = store /\ ingested' = IngestedAfter(p)
    BY <1>7 DEF Commit, Commits
  <2>2. \A m \in IngestedAfter(p) : Accounted(m)'
    BY <2>1, CommitsTrace
  <2>3. \A m \in ingested' : Accounted(m)'
    BY <2>1, <2>2
  <2>4. \A rep \in store' : Kept(rep)'
    BY <2>1, KeptStays DEF TraceInv
  <2> QED BY <2>1, <2>3, <2>4, CommitsTrace DEF TraceInv
<1>8. ASSUME NEW p \in Procs, Fails(p) \/ Deadlock(p) PROVE TraceInv'
  <2>1. store' = store /\ ingested' = ingested
    BY <1>8 DEF Fails, Deadlock, RolledBack
  <2>2. Undoes
    BY <1>1, <1>8, FailureKind
  <2> QED BY <1>6, <2>1, <2>2
<1>9. ASSUME Hydrate \/ Crash \/ UNCHANGED vars PROVE TraceInv'
  <2>1. store' \subseteq store \cup Stored /\ ingested' = ingested
    BY <1>9 DEF Hydrate, Crash, vars
  <2>2. Undoes
    BY <1>1, <1>9, FailureKind, ProcKinds
  <2> QED BY <1>6, <2>1, <2>2
<1>10. ASSUME Deletes PROVE TraceInv'
  <2>1. store' = store /\ ingested' = ingested /\ tx' = tx
    BY <1>10 DEF Deletes, BeginDeletion, DropCounter, ResetRows, CommitDeletion
  <2>2. \A q \in Importers : TraceOf(q)'
    BY <2>1, TraceStays DEF TraceInv
  <2> QED BY <2>1, <2>2, TraceWithoutCommit
<1>11. ASSUME NEW p \in Procs, FlushStep(p) PROVE TraceInv'
  <2>1. CASE RolledBack(p, FALSE)
    <3>1. store' = store /\ ingested' = ingested /\ Undoes
      BY <1>1, <2>1, RolledBackKind DEF RolledBack
    <3> QED BY <1>6, <3>1
  <2>2. CASE ~RolledBack(p, FALSE)
    <3>1. store' = store /\ ingested' = ingested /\ Moves(p)
      BY <1>1, <1>11, <2>2, FlushKind DEF Structure
    <3>2. tx' = [tx EXCEPT ![p] = tx'[p]]
      BY <3>1 DEF Moves
    <3> QED BY <1>11, <2>2, <3>1, <3>2, FlushTrace, OthersTrace, TraceWithoutCommit
  <2> QED BY <2>1, <2>2
<1> QED BY <1>2, <1>3, <1>4, <1>5, <1>7, <1>8, <1>9, <1>10, <1>11 DEF Next, Deletes

LEMMA InitTrace == Init => TraceInv
<1> SUFFICES ASSUME Init PROVE TraceInv
  OBVIOUS
<1>1. \A p \in Importers : tx[p].known = {} /\ tx[p].seen = {}
  BY IdleFields, ProcKinds DEF Init
<1> QED BY <1>1 DEF Init, TraceInv, TraceOf

\* Whatever the importers, the faults and the order of their transactions, no
\* message is recorded as ingested whose report got lost.
THEOREM IngestedAlwaysAccountedFor == Spec => []IngestedIsAccountedFor
<1>1. Init => TypeInv /\ TraceInv
  BY InitType, InitTrace
<1>2. (TypeInv /\ TraceInv) /\ [Next]_vars => (TypeInv /\ TraceInv)'
  BY TypeStep, TraceStep
<1>3. TypeInv /\ TraceInv => IngestedIsAccountedFor
  BY DEF TraceInv, Accounted, IngestedIsAccountedFor
<1> QED BY <1>1, <1>2, <1>3, PTL DEF Spec
-----------------------------------------------------------------------------
(***************************************************************************)
(* Counters                                                                *)
(***************************************************************************)
\* The rows that transaction p adds to cell c: those it has inserted, except
\* the one at hand, and once it has the lock those it has picked.
Gained(p, c) ==
  { r \in RowIds : tx[p].new[r] \notin {None, tx[p].report} /\ c \in CellsOf[tx[p].new[r]] }
  \cup { r \in tx[p].picked : tx[p].locked /\ c \in CellsOf[rows[r].report] }

\* What it is about to write is the committed counter and these rows.
Written(p, c) ==
  IF tx[p].writes[c] = NoWrite THEN Gained(p, c) = {}
  ELSE tx[p].writes[c].n = counters[c].n + Cardinality(Gained(p, c))

\* A deletion that nothing overlaps: it drops every counter that counts
\* something and resets every row.
DeletesAll ==
  del.at # "idle" => /\ Quiet
                     /\ \A c \in Cells : c \notin del.todo \cup del.dropped => counters[c].n = 0
                     /\ del.at = "commit" => del.todo = {} /\ del.reset = Present

CountInv ==
  CountersMatch /\ DeletesAll /\ \A p \in Procs, c \in Cells : Written(p, c)

LEMMA RowsAreFinite == ASSUME NEW S \in SUBSET RowIds
                       PROVE  IsFiniteSet(S) /\ Cardinality(S) \in Nat
BY ImportAssumption, FS_Subset, FS_CardinalityType

LEMMA GainedFacts ==
  ASSUME Structure, NEW p \in Procs, NEW c \in Cells
  PROVE  /\ Gained(p, c) \subseteq RowIds
         /\ IsFiniteSet(Gained(p, c)) /\ Cardinality(Gained(p, c)) \in Nat
<1>1. Gained(p, c) \in SUBSET RowIds
  BY DEF Gained, Structure, TxType
<1> QED BY <1>1, RowsAreFinite

\* A process that is not at work writes nothing.
LEMMA EmptyWritten ==
  ASSUME NEW p, NEW c \in Cells, Keeps(Idle, tx[p])
  PROVE  Written(p, c) /\ Gained(p, c) = {}
<1>1. /\ tx[p].new = [r \in RowIds |-> None] /\ tx[p].picked = {}
      /\ tx[p].writes = [d \in Cells |-> NoWrite]
  BY IdleFields DEF Keeps
<1>2. Gained(p, c) = {}
  BY <1>1 DEF Gained
<1> QED BY <1>1, <1>2 DEF Written

\* A transaction that neither writes nor lets go of the report at hand.
LEMMA GainedStays ==
  ASSUME NEW p, NEW c, Keeps(tx[p], tx'[p]),
         \A r \in RowIds : tx[p].new[r] # None =>
           (tx[p].new[r] = tx'[p].report <=> tx[p].new[r] = tx[p].report),
         \A r \in tx[p].picked : rows'[r].report = rows[r].report
  PROVE  Gained(p, c)' = Gained(p, c)
<1>1. tx'[p].new = tx[p].new /\ tx'[p].picked = tx[p].picked /\ tx'[p].locked = tx[p].locked
  BY DEF Keeps
<1>2. \A r \in RowIds : tx'[p].new[r] \notin {None, tx'[p].report}
                        <=> tx[p].new[r] \notin {None, tx[p].report}
  BY <1>1
<1> QED BY <1>1, <1>2 DEF Gained

LEMMA WrittenStays ==
  ASSUME NEW p, NEW c, Written(p, c), Gained(p, c)' = Gained(p, c),
         tx'[p].writes[c] = tx[p].writes[c], counters'[c].n = counters[c].n
  PROVE  Written(p, c)'
BY DEF Written

LEMMA WrittenUnchanged ==
  ASSUME NEW p, NEW c, Written(p, c), tx'[p] = tx[p], UNCHANGED <<rows, counters>>
  PROVE  Written(p, c)'
BY DEF Written, Gained

\* Steps that commit nothing.
LEMMA MatchStays ==
  ASSUME CountersMatch, UNCHANGED <<rows, counters>>
  PROVE  CountersMatch'
BY DEF CountersMatch, Projected, Present

LEMMA NoDeletionUnderWay ==
  ASSUME DeletesAll, NEW p \in Procs, tx[p].at # "idle", del' = del
  PROVE  del.at = "idle" /\ DeletesAll'
BY DEF DeletesAll, Quiet

\* A transaction of p changes, and nothing is committed.
LEMMA CountWithoutCommit ==
  ASSUME CountInv, NEW p \in Procs, UNCHANGED <<rows, counters, del>>, del.at = "idle",
         \A q \in Procs : q # p => tx'[q] = tx[q],
         \A c \in Cells : Written(p, c)'
  PROVE  CountInv'
<1>1. DeletesAll'
  BY DEF DeletesAll
<1>2. \A q \in Procs, c \in Cells : Written(q, c)'
  BY WrittenUnchanged DEF CountInv
<1> QED BY <1>1, <1>2, MatchStays DEF CountInv

LEMMA MovesCount ==
  ASSUME Structure, CountInv, NEW p \in Procs, Moves(p), ~fate'.overlap
  PROVE  CountInv'
<1>1. del.at = "idle"
  BY NoDeletionUnderWay DEF Moves, CountInv
<1>2. \A q \in Procs : q # p => tx'[q] = tx[q]
  BY DEF Moves, Structure
<1>3. \A c \in Cells : Written(p, c)'
  <2> SUFFICES ASSUME NEW c \in Cells PROVE Written(p, c)'
    OBVIOUS
  <2>1. Gained(p, c)' = Gained(p, c)
    BY GainedStays DEF Moves
  <2> QED BY <2>1, WrittenStays DEF Moves, Keeps, CountInv
<1> QED BY <1>1, <1>2, <1>3, CountWithoutCommit DEF Moves

LEMMA InsertsRowCount ==
  ASSUME Structure, CountInv, NEW p \in Writers, InsertsRow(p)
  PROVE  CountInv'
<1>1. del.at = "idle" /\ p \in Procs /\ UNCHANGED <<rows, counters, del>>
  BY NoDeletionUnderWay, ProcKinds DEF InsertsRow, CountInv
<1>2. PICK r \in RowIds :
        /\ tx[p].new[r] = None /\ \A q \in Procs : q # p => tx'[q] = tx[q]
        /\ tx'[p].report = tx[p].report /\ tx'[p].picked = tx[p].picked
        /\ tx'[p].locked = tx[p].locked /\ tx'[p].writes = tx[p].writes
        /\ \A s \in RowIds : tx'[p].new[s] = IF s = r THEN tx[p].report ELSE tx[p].new[s]
  BY <1>1, InsertsRowFacts
<1>3. \A c \in Cells : Written(p, c)'
  <2> SUFFICES ASSUME NEW c \in Cells PROVE Written(p, c)'
    OBVIOUS
  <2>1. \A s \in RowIds : /\ tx'[p].new[s] \notin {None, tx'[p].report}
                             <=> tx[p].new[s] \notin {None, tx[p].report}
                          /\ tx'[p].new[s] \notin {None, tx'[p].report} => tx'[p].new[s] = tx[p].new[s]
    BY <1>2
  <2>2. Gained(p, c)' = Gained(p, c)
    BY <1>1, <1>2, <2>1 DEF Gained
  <2> QED BY <1>1, <1>2, <2>2, WrittenStays DEF CountInv
<1> QED BY <1>1, <1>2, <1>3, CountWithoutCommit

\* The report at hand is one more in its cell.
LEMMA ProjectsCount ==
  ASSUME Structure, CountInv, NEW p \in Writers, Projects(p)
  PROVE  CountInv'
<1>1. del.at = "idle" /\ p \in Procs /\ UNCHANGED <<rows, counters, del>>
  BY NoDeletionUnderWay, ProcKinds DEF Projects, CountInv
<1> PICK rep : rep = tx[p].report
  OBVIOUS
<1>2. Shape(p, tx[p]) /\ tx[p] \in TxType /\ rep \in Reports /\ tx[p].picked = {}
  BY <1>1 DEF Structure, ShapeInv, Shape, Projects, TxType
<1>3. PICK r \in RowIds : tx[p].new[r] = rep /\ \A s \in RowIds : tx[p].new[s] = rep => s = r
  BY <1>2, NoneIsNoReport DEF Shape, Projects
<1>4. /\ \A q \in Procs : q # p => tx'[q] = tx[q]
      /\ tx'[p].report = None /\ tx'[p].new = tx[p].new /\ tx'[p].picked = {}
      /\ tx'[p].writes = Added(tx[p].writes, GainOf(rep))
  BY <1>2, ProjectsFacts
<1>5. ASSUME NEW c \in Cells PROVE Written(p, c)'
  <2>1. /\ GainOf(rep) \in [Cells -> Nat] /\ counters \in [Cells -> [gen : Nat, n : Nat]]
        /\ GainOf(rep)[c] = IF c \in CellsOf[rep] THEN 1 ELSE 0
    BY <1>2, GainType DEF GainOf, Structure, CoreType
  <2>2. Written(p, c)
    BY <1>1, <1>5 DEF CountInv
  <2>3. Gained(p, c) = { s \in RowIds : tx[p].new[s] \notin {None, rep} /\ c \in CellsOf[tx[p].new[s]] }
    BY <1>2 DEF Gained
  <2>4. Gained(p, c)' = { s \in RowIds : tx[p].new[s] # None /\ c \in CellsOf[tx[p].new[s]] }
    BY <1>4 DEF Gained
  <2>5. CASE c \notin CellsOf[rep]
    <3>1. Gained(p, c)' = Gained(p, c)
      BY <2>3, <2>4, <2>5
    <3>2. tx'[p].writes[c] = tx[p].writes[c]
      BY <1>2, <1>4, <2>1, <2>5, AddedType DEF TxType
    <3> QED BY <1>1, <2>2, <3>1, <3>2, WrittenStays
  <2>6. CASE c \in CellsOf[rep]
    <3>1. Gained(p, c)' = Gained(p, c) \cup {r} /\ r \notin Gained(p, c)
      BY <1>2, <1>3, <2>3, <2>4, <2>6, NoneIsNoReport
    <3>2. Cardinality(Gained(p, c)') = Cardinality(Gained(p, c)) + 1
      BY <1>1, <3>1, GainedFacts, FS_AddElement
    <3>3. /\ tx'[p].writes[c] # NoWrite
          /\ tx'[p].writes[c].n = 1 + IF tx[p].writes[c] = NoWrite THEN counters[c].n ELSE tx[p].writes[c].n
      BY <1>2, <1>4, <2>1, <2>6, AddedType DEF TxType
    <3>4. Cardinality(Gained(p, c)) \in Nat /\ counters[c].n \in Nat
      BY <1>1, <2>1, GainedFacts
    <3>5. tx'[p].writes[c].n = counters[c].n + Cardinality(Gained(p, c)')
      <4>1. CASE tx[p].writes[c] = NoWrite
        BY <2>2, <3>2, <3>3, <3>4, <4>1, FS_EmptySet DEF Written
      <4>2. CASE tx[p].writes[c] # NoWrite
        BY <2>2, <3>2, <3>3, <3>4, <4>2 DEF Written
      <4> QED BY <4>1, <4>2
    <3> QED BY <1>1, <3>3, <3>5 DEF Written
  <2> QED BY <2>5, <2>6
<1> QED BY <1>1, <1>4, <1>5, CountWithoutCommit
LEMMA PicksCount ==
  ASSUME Structure, CountInv, Picks
  PROVE  CountInv'
<1>1. del.at = "idle" /\ UNCHANGED <<rows, counters, del>>
  BY DEF Picks
<1>2. /\ \A q \in Procs : q # "projector" => tx'[q] = tx[q]
      /\ tx'["projector"].new = Idle.new /\ tx'["projector"].locked = FALSE
      /\ tx'["projector"].writes = Idle.writes
  BY PicksFacts
<1>3. ASSUME NEW c \in Cells PROVE Written("projector", c)'
  <2>1. tx'["projector"].writes[c] = NoWrite /\ \A r \in RowIds : tx'["projector"].new[r] = None
    BY <1>2, IdleFields
  <2>2. Gained("projector", c)' = {}
    BY <1>2, <2>1 DEF Gained
  <2> QED BY <2>1, <2>2 DEF Written
<1> QED BY <1>1, <1>2, <1>3, CountWithoutCommit, ProcKinds

\* The whole batch is counted, cell by cell.
LEMMA ProjectsBatchCount ==
  ASSUME Structure, CountInv, ProjectsBatch
  PROVE  CountInv'
<1> PICK t : t = tx["projector"]
  OBVIOUS
<1> PICK u : u = tx'["projector"]
  OBVIOUS
<1>1. "projector" \in Procs /\ del.at = "idle" /\ UNCHANGED <<rows, counters, del>>
  BY NoDeletionUnderWay, ProcKinds DEF ProjectsBatch, CountInv
<1>2. /\ t \in TxType /\ ~t.locked /\ \A c \in Cells : t.writes[c] = NoWrite
      /\ \A r \in RowIds : t.new[r] = None
  BY <1>1, ProcKinds DEF ProjectsBatch, Structure, ShapeInv, Shape
<1>3. /\ \A q \in Procs : q # "projector" => tx'[q] = tx[q]
      /\ u.new = t.new /\ u.picked = t.picked /\ u.locked
      /\ u.writes = Added(t.writes, GainOfRows(t.picked))
  BY ProjectsBatchFacts
<1>4. ASSUME NEW c \in Cells PROVE Written("projector", c)'
  <2> DEFINE batch == { r \in t.picked : c \in CellsOf[rows[r].report] }
  <2>1. batch \in SUBSET RowIds /\ t.picked \in SUBSET RowIds
    BY <1>2 DEF TxType
  <2>2. IsFiniteSet(batch) /\ Cardinality(batch) \in Nat
    BY <2>1, RowsAreFinite
  <2>3. /\ GainOfRows(t.picked) \in [Cells -> Nat] /\ counters \in [Cells -> [gen : Nat, n : Nat]]
        /\ GainOfRows(t.picked)[c] = Cardinality(batch)
    BY <2>1, GainOfRowsType DEF GainOfRows, Structure, CoreType
  <2>4. Gained("projector", c)' = batch
    BY <1>1, <1>2, <1>3 DEF Gained
  <2> HIDE DEF batch
  <2>5. t.writes \in [Cells -> WriteType]
    BY <1>2 DEF TxType
  <2>6. CASE Cardinality(batch) = 0
    <3>1. u.writes[c] = NoWrite
      BY <1>2, <1>3, <2>3, <2>5, <2>6, AddedType
    <3>2. batch = {}
      BY <2>2, <2>6, FS_EmptySet
    <3> QED BY <2>4, <3>1, <3>2 DEF Written
  <2>7. CASE Cardinality(batch) # 0
    <3>1. u.writes[c] # NoWrite /\ u.writes[c].n = Cardinality(batch) + counters[c].n
      BY <1>2, <1>3, <2>3, <2>5, <2>7, AddedType
    <3>2. u.writes[c].n = counters[c].n + Cardinality(batch)
      BY <2>2, <2>3, <3>1
    <3> QED BY <1>1, <2>4, <3>1, <3>2 DEF Written
  <2> QED BY <2>6, <2>7
<1> QED BY <1>1, <1>3, <1>4, CountWithoutCommit

\* The rows a commit adds to a cell are the ones it has written.
LEMMA CommitProjects ==
  ASSUME Structure, NEW p \in Procs, Commits(p), NEW c \in Cells
  PROVE  /\ Projected(c)' = Projected(c) \cup Gained(p, c)
         /\ Projected(c) \cap Gained(p, c) = {}
<1>1. Shape(p, tx[p]) /\ tx[p].at = "commit" /\ tx[p].report = None /\ tx[p] \in TxType
  BY DEF Structure, ShapeInv, Shape, Commits
<1>2. tx[p].picked # {} => tx[p].locked
  BY <1>1 DEF Shape
<1>3. \A r \in tx[p].picked : rows[r] # NoRow /\ ~rows[r].projected /\ r \in RowIds
  BY <1>1, <1>2, ProcKinds DEF Structure, RowsInv, Shape, TxType
<1>4. \A r \in RowIds : r \in Gained(p, c) <=> \/ tx[p].new[r] # None /\ c \in CellsOf[tx[p].new[r]]
                                               \/ r \in tx[p].picked /\ c \in CellsOf[rows[r].report]
  BY <1>1, <1>2 DEF Gained
<1>5. Gained(p, c) \subseteq RowIds
  BY GainedFacts
<1>6. \A r \in RowIds : r \in Projected(c) <=> rows[r] # NoRow /\ rows[r].projected /\ c \in CellsOf[rows[r].report]
  BY DEF Projected, Present
<1>7. Projected(c) \subseteq RowIds /\ Projected(c)' \subseteq RowIds
  BY DEF Projected, Present
<1>8. \A r \in RowIds : r \in Projected(c)' <=> rows'[r] # NoRow /\ rows'[r].projected /\ c \in CellsOf[rows'[r].report]
  BY DEF Projected, Present
<1>9. ASSUME NEW r \in RowIds PROVE r \in Projected(c)' <=> r \in Projected(c) \cup Gained(p, c)
  <2>1. CASE tx[p].new[r] # None
    BY <1>4, <1>8, <2>1, <1>6, <1>3, RowsAfterFacts DEF Commits
  <2>2. CASE tx[p].new[r] = None /\ r \in tx[p].picked
    BY <1>4, <1>8, <2>2, <1>6, <1>3, RowsAfterFacts DEF Commits
  <2>3. CASE tx[p].new[r] = None /\ r \notin tx[p].picked
    BY <1>4, <1>8, <2>3, <1>6, RowsAfterFacts DEF Commits
  <2> QED BY <2>1, <2>2, <2>3
<1>10. ASSUME NEW r \in Gained(p, c) PROVE r \notin Projected(c)
  BY <1>3, <1>4, <1>5, <1>6, RowsAfterFacts
<1> QED BY <1>5, <1>7, <1>9, <1>10

\* The lock keeps two transactions from adding to counters at a time.
LEMMA CommitsCount ==
  ASSUME Structure, CountInv, NEW p \in Procs, Commits(p)
  PROVE  CountInv'
<1>1. del.at = "idle" /\ DeletesAll'
  BY NoDeletionUnderWay DEF Commits, CountInv
<1>2. /\ tx'[p] = Idle /\ \A q \in Procs : q # p => tx'[q] = tx[q]
      /\ \A c \in Cells : counters'[c].n = IF tx[p].writes[c] = NoWrite THEN counters[c].n
                                           ELSE tx[p].writes[c].n
  BY CommitsFacts
<1>3. ASSUME NEW c \in Cells PROVE counters'[c].n = counters[c].n + Cardinality(Gained(p, c))
  <2>1. Written(p, c) /\ counters[c].n \in Nat
    BY <1>3 DEF CountInv, Structure, CoreType
  <2>2. CASE tx[p].writes[c] = NoWrite
    <3>1. Gained(p, c) = {} /\ counters'[c].n = counters[c].n
      BY <1>2, <2>1, <2>2 DEF Written
    <3>2. Cardinality(Gained(p, c)) = 0
      BY <3>1, FS_EmptySet
    <3> QED BY <2>1, <3>1, <3>2
  <2>3. CASE tx[p].writes[c] # NoWrite
    BY <1>2, <2>1, <2>3 DEF Written
  <2> QED BY <2>2, <2>3
<1>4. ASSUME NEW c \in Cells PROVE counters'[c].n = Cardinality(Projected(c)')
  <2>1. /\ Projected(c)' = Projected(c) \cup Gained(p, c) /\ Projected(c) \cap Gained(p, c) = {}
        /\ Projected(c) \in SUBSET RowIds
    BY <1>4, CommitProjects DEF Projected, Present
  <2>2. /\ IsFiniteSet(Projected(c)) /\ IsFiniteSet(Gained(p, c))
        /\ Cardinality(Projected(c)) \in Nat /\ Cardinality(Gained(p, c)) \in Nat
    BY <1>4, <2>1, RowsAreFinite, GainedFacts
  <2>3. Cardinality(Projected(c)') = Cardinality(Projected(c)) + Cardinality(Gained(p, c))
    <3>1. Cardinality(Projected(c) \cup Gained(p, c))
            = Cardinality(Projected(c)) + Cardinality(Gained(p, c)) - Cardinality(Projected(c) \cap Gained(p, c))
      BY <2>2, FS_Union
    <3>2. Cardinality(Projected(c) \cap Gained(p, c)) = 0
      BY <2>1, FS_EmptySet
    <3> QED BY <2>1, <2>2, <3>1, <3>2
  <2> QED BY <1>3, <1>4, <2>3 DEF CountInv, CountersMatch
<1>5. ASSUME NEW q \in Procs, NEW c \in Cells, q # p PROVE Written(q, c)'
  <2>1. tx'[q] = tx[q] /\ Shape(q, tx[q]) /\ Shape(p, tx[p]) /\ Written(q, c)
    BY <1>2, <1>5 DEF CountInv, Structure, ShapeInv
  <2>2. ASSUME NEW r \in tx[q].picked PROVE rows'[r].report = rows[r].report
    <3>1. r \in RowIds /\ q = "projector" /\ rows[r] # NoRow
      BY <2>1, <2>2, ProcKinds DEF Structure, RowsInv, Shape, TxType
    <3>2. tx[p].picked = {} /\ tx[p].new[r] = None
      BY <1>5, <2>1, <3>1, ProcKinds DEF Structure, RowsInv, Shape
    <3> QED BY <3>1, <3>2, RowsAfterFacts DEF Commits
  <2>3. Gained(q, c)' = Gained(q, c)
    BY <2>1, <2>2, GainedStays DEF Keeps
  <2>4. CASE tx[p].writes[c] = NoWrite
    BY <1>2, <1>5, <2>1, <2>3, <2>4, WrittenStays
  <2>5. CASE tx[p].writes[c] # NoWrite
    <3>1. tx[p].locked /\ ~tx[q].locked
      BY <1>5, <2>1, <2>5 DEF Shape, Structure, LockInv
    <3>2. tx[q].writes[c] = NoWrite
      BY <1>5, <2>1, <3>1 DEF Shape
    <3> QED BY <2>1, <2>3, <3>2 DEF Written
  <2> QED BY <2>4, <2>5
<1>6. ASSUME NEW c \in Cells PROVE Written(p, c)'
  <2>1. Keeps(Idle, tx'[p])
    BY <1>2 DEF Keeps
  <2>2. /\ tx'[p].new = [r \in RowIds |-> None] /\ tx'[p].picked = {}
        /\ tx'[p].writes = [d \in Cells |-> NoWrite]
    BY <1>2, IdleFields
  <2>3. Gained(p, c)' = {}
    BY <2>2 DEF Gained
  <2> QED BY <2>2, <2>3 DEF Written
<1>7. CountersMatch'
  BY <1>4 DEF CountersMatch
<1> QED BY <1>1, <1>5, <1>6, <1>7 DEF CountInv

LEMMA UndoesCount ==
  ASSUME Structure, CountInv, Undoes
  PROVE  CountInv'
<1>1. UNCHANGED <<rows, counters>> /\ (del' = del \/ del'.at = "idle")
  BY DEF Undoes, NoDeletion
<1>2. ASSUME NEW p \in Procs, NEW c \in Cells PROVE Written(p, c)'
  <2>1. CASE tx'[p] = tx[p]
    BY <1>1, <1>2, <2>1, WrittenUnchanged DEF CountInv
  <2>2. CASE Keeps(Idle, tx'[p])
    <3>1. /\ tx'[p].new = [r \in RowIds |-> None] /\ tx'[p].picked = {}
          /\ tx'[p].writes = [d \in Cells |-> NoWrite]
      BY <2>2, IdleFields DEF Keeps
    <3>2. Gained(p, c)' = {}
      BY <3>1 DEF Gained
    <3> QED BY <1>2, <3>1, <3>2 DEF Written
  <2> QED BY <2>1, <2>2, UndoesFacts
<1>3. DeletesAll'
  <2>1. ASSUME Quiet PROVE Quiet'
    BY <2>1, IdleFields DEF Undoes, Quiet
  <2> QED BY <1>1, <2>1 DEF DeletesAll, CountInv, Present
<1> QED BY <1>1, <1>2, <1>3, MatchStays DEF CountInv

\* A deletion that nothing overlaps leaves nothing counted and nothing
\* marked as counted.
LEMMA DeletesCount ==
  ASSUME Structure, TypeOK, CountInv, Deletes, ~fate'.overlap
  PROVE  CountInv'
<1>1. ASSUME NEW r \in RowIds, BeginDeletion(r) PROVE CountInv'
  <2>1. UNCHANGED <<rows, counters, tx>> /\ Quiet
    BY <1>1 DEF BeginDeletion, TypeOK
  <2>2. del'.at = "drop" /\ del'.todo = { c \in Cells : counters[c].n > 0 }
    BY <1>1 DEF BeginDeletion, NoDeletion
  <2>3. \A c \in Cells : counters[c].n \in Nat
    BY DEF Structure, CoreType
  <2>4. Quiet'
    BY <2>1 DEF Quiet
  <2>5. DeletesAll'
    BY <2>1, <2>2, <2>3, <2>4 DEF DeletesAll
  <2>6. \A p \in Procs, c \in Cells : Written(p, c)'
    BY <2>1, WrittenUnchanged DEF CountInv
  <2> QED BY <2>1, <2>5, <2>6, MatchStays DEF CountInv
<1>2. ASSUME NEW d \in Cells, DropCounter(d) PROVE CountInv'
  <2>1. UNCHANGED <<rows, counters, tx>> /\ d \in del.todo
    BY <1>2 DEF DropCounter, Droppable
  <2>2. /\ del'.at = del.at /\ del'.reset = del.reset
        /\ del'.todo = del.todo \ {d} /\ del'.dropped = del.dropped \cup {d}
    BY <1>2 DEF DropCounter, TypeOK
  <2>3. Quiet' = Quiet /\ Present' = Present
    BY <2>1 DEF Quiet, Present
  <2>4. \A c : c \notin del'.todo \cup del'.dropped => c \notin del.todo \cup del.dropped
    BY <2>2
  <2>5. DeletesAll'
    BY <2>1, <2>2, <2>3, <2>4 DEF DeletesAll, CountInv
  <2>6. \A p \in Procs, c \in Cells : Written(p, c)'
    BY <2>1, WrittenUnchanged DEF CountInv
  <2> QED BY <2>1, <2>5, <2>6, MatchStays DEF CountInv
<1>3. CASE ResetRows
  <2>1. UNCHANGED <<rows, counters, tx>> /\ Quiet /\ del.at = "drop" /\ del.todo = {}
    BY <1>3 DEF ResetRows, CountInv, DeletesAll
  <2>2. del'.at = "commit" /\ del'.todo = {} /\ del'.dropped = del.dropped /\ del'.reset = Present
    BY <1>3, <2>1 DEF ResetRows, TypeOK
  <2>3. Quiet' /\ Present' = Present
    BY <2>1 DEF Quiet, Present
  <2>4. DeletesAll'
    BY <2>1, <2>2, <2>3 DEF DeletesAll, CountInv
  <2>5. \A p \in Procs, c \in Cells : Written(p, c)'
    BY <2>1, WrittenUnchanged DEF CountInv
  <2> QED BY <2>1, <2>4, <2>5, MatchStays DEF CountInv
<1>4. CASE CommitDeletion
  <2>1. /\ UNCHANGED tx /\ Quiet /\ del.reset = Present /\ del'.at = "idle"
        /\ \A c \in Cells : c \notin del.dropped => counters[c].n = 0
    BY <1>4 DEF CommitDeletion, CountInv, DeletesAll, NoDeletion
  <2>2. \A c \in Cells : counters'[c].n = 0
    BY <1>4, <2>1, CommitDeletionFacts
  <2>3. ASSUME NEW c \in Cells PROVE Projected(c)' = {}
    <3>1. ASSUME NEW r \in RowIds, rows'[r] # NoRow PROVE ~rows'[r].projected
      BY <1>4, <2>1, <3>1, CommitDeletionFacts DEF Present
    <3> QED BY <3>1 DEF Projected, Present
  <2>4. CountersMatch'
    BY <2>2, <2>3, FS_EmptySet DEF CountersMatch
  <2>5. ASSUME NEW p \in Procs, NEW c \in Cells PROVE Written(p, c)'
    <3>1. tx'[p] = Idle
      BY <2>1 DEF Quiet, Structure, ShapeInv, Shape
    <3>2. /\ tx'[p].new = [r \in RowIds |-> None] /\ tx'[p].picked = {}
          /\ tx'[p].writes = [d \in Cells |-> NoWrite]
      BY <3>1, IdleFields
    <3>3. Gained(p, c)' = {}
      BY <3>2 DEF Gained
    <3> QED BY <2>5, <3>2, <3>3 DEF Written
  <2>6. DeletesAll'
    BY <2>1 DEF DeletesAll
  <2> QED BY <2>4, <2>5, <2>6 DEF CountInv
<1> QED BY <1>1, <1>2, <1>3, <1>4 DEF Deletes

\* An overlap is not forgotten.
LEMMA OverlapStays ==
  ASSUME TypeInv, [Next]_vars, fate.overlap
  PROVE  fate'.overlap
<1>1. TypeOK /\ Structure
  BY DEF TypeInv
<1>2. Deletes => fate'.overlap
  BY <1>1 DEF Deletes, BeginDeletion, DropCounter, ResetRows, CommitDeletion, TypeOK
<1> QED BY <1>1, <1>2, StepKinds
     DEF Structure, Moves, InsertsRow, Projects, Picks, ProjectsBatch, Commits, Undoes

LEMMA CountStep ==
  ASSUME TypeInv, [Next]_vars, fate.overlap \/ CountInv
  PROVE  fate'.overlap \/ CountInv'
<1>1. CASE fate.overlap
  BY <1>1, OverlapStays
<1>2. CASE CountInv
  BY <1>2, StepKinds, MovesCount, InsertsRowCount, ProjectsCount, PicksCount, ProjectsBatchCount,
     CommitsCount, UndoesCount, DeletesCount DEF TypeInv, Structure
<1> QED BY <1>1, <1>2

LEMMA InitCount == Init => CountInv
<1> SUFFICES ASSUME Init PROVE CountInv
  OBVIOUS
<1>1. \A p \in Procs : Keeps(Idle, tx[p])
  BY DEF Init, Keeps
<1>2. \A p \in Procs, c \in Cells : Written(p, c)
  BY <1>1, EmptyWritten
<1>3. \A c \in Cells : Projected(c) = {} /\ counters[c].n = 0
  BY NoneIsNoReport DEF Init, Projected, Present, NoRow
<1>4. CountersMatch
  BY <1>3, FS_EmptySet DEF CountersMatch
<1> QED BY <1>2, <1>4 DEF CountInv, DeletesAll, Init, NoDeletion

\* The counters follow the stored reports however importers, uploads and the
\* worker overlap, as long as no deletion overlaps them.
THEOREM CountersAlwaysRight == Spec => []CountersAreRight
<1>1. Init => TypeInv /\ (fate.overlap \/ CountInv)
  BY InitType, InitCount
<1>2. (TypeInv /\ (fate.overlap \/ CountInv)) /\ [Next]_vars
        => (TypeInv /\ (fate.overlap \/ CountInv))'
  BY TypeStep, CountStep
<1>3. TypeInv /\ (fate.overlap \/ CountInv) => CountersAreRight
  BY DEF CountInv, CountersAreRight
<1> QED BY <1>1, <1>2, <1>3, PTL DEF Spec
=============================================================================

-------------------------- MODULE DnsPostureProofs --------------------------
(***************************************************************************)
(* Theorems about DnsPosture, for any domains, importers, limits and       *)
(* bounds.  What the rows hold does not depend on the order of a round:    *)
(* PostureInv lets the worker be at any value, and only the rows of        *)
(* Domains matter.  TypeInv, in the second part, is about the rounds.      *)
(***************************************************************************)
EXTENDS DnsPosture, FiniteSetTheorems, SequenceTheorems, TLAPS

PresentRow == [requested : Nat, accepted : {"none", "evidence", "absence"}, absences : Nat]
RowType == {NoRow} \cup PresentRow

ImportType == [at : {"idle", "open"}, domain : Domains \cup {0}, inserts : BOOLEAN,
               asks : BOOLEAN, date : Nat]

\* The list of domains and the row that was loaded are whatever they are.
WorkerType == [at : {"next", "lookup", "capture"}, todo : {worker.todo}, loaded : {worker.loaded},
               fresh : BOOLEAN, ok : BOOLEAN, evidence : BOOLEAN]

Types ==
  /\ cur \in [Domains -> RowType] /\ streak \in [Domains -> Nat]
  /\ imp \in [Importers -> ImportType] /\ imports \in Nat
  /\ worker \in WorkerType

\* Importers insert missing rows only, and update rows that are there; a row
\* that is missing is asked for.
ImportsInv ==
  \A i \in Importers : imp[i].at = "open" =>
    /\ imp[i].domain \in Domains /\ imp[i].date > 0
    /\ IF imp[i].inserts THEN imp[i].asks ELSE cur[imp[i].domain] # NoRow

\* What the worker has loaded differs from the row only in requests that have
\* come in since.
LoadedInv ==
  \A d \in Domains : Refreshing(d) /\ worker.loaded # NoRow =>
    /\ cur[d] # NoRow
    /\ worker.loaded.accepted = cur[d].accepted /\ worker.loaded.absences = cur[d].absences

\* A series of absences that is stored is one that was seen.
SeriesInv == \A d \in Domains : cur[d].absences <= streak[d]

\* A request that no lookup has answered is in its row.
PendingInv ==
  owed \subseteq Domains /\ \A d \in owed : cur[d].requested # 0 /\ ~Refreshing(d)

PostureInv == Types /\ ImportsInv /\ LoadedInv /\ SeriesInv /\ PendingInv

LEMMA NeededType == Needed \in Nat \ {0}
BY PostureAssumption DEF Needed

LEMMA RowFacts ==
  /\ NoRow \in RowType /\ NewRow \in RowType /\ NoRow # NewRow
  /\ NoRow.requested = 0 /\ NoRow.accepted = "no row" /\ NoRow.absences = 0
  /\ NewRow.requested = 0 /\ NewRow.accepted = "none" /\ NewRow.absences = 0
  /\ NewRow \in PresentRow /\ NoRow \notin PresentRow
<1>1. /\ NoRow.requested = 0 /\ NoRow.accepted = "no row" /\ NoRow.absences = 0
  BY DEF NoRow
<1>2. /\ NewRow.requested = 0 /\ NewRow.accepted = "none" /\ NewRow.absences = 0
  BY DEF NewRow
<1>3. NewRow \in PresentRow
  BY DEF NewRow, PresentRow
<1>4. NoRow \notin PresentRow
  BY <1>1 DEF PresentRow
<1> QED BY <1>1, <1>2, <1>3, <1>4 DEF RowType

LEMMA InitPosture == Init => PostureInv
<1> SUFFICES ASSUME Init PROVE PostureInv
  OBVIOUS
<1>1. [NewRow EXCEPT !.accepted = "evidence"] \in PresentRow
      /\ [NewRow EXCEPT !.accepted = "evidence"].absences = 0
  BY DEF NewRow, PresentRow
<1>2. cur \in [Domains -> RowType] /\ \A d \in Domains : cur[d].absences = 0
  BY <1>1, RowFacts DEF Init, RowType
<1>3. /\ worker = Resting /\ imp = [i \in Importers |-> NoImport] /\ imports = 0
      /\ streak = [d \in Domains |-> 0] /\ owed = {}
  BY Zenon DEF Init
<1>4. Types
  BY <1>2, <1>3 DEF Types, WorkerType, Resting, ImportType, NoImport
<1> QED BY <1>2, <1>3, <1>4 DEF PostureInv, ImportsInv, LoadedInv, SeriesInv, PendingInv,
     Refreshing, Resting, NoImport

LEMMA FinishedFacts ==
  /\ Finished \in [at : {"next"}, todo : {Tail(worker.todo)}, loaded : {NoRow},
                   fresh : BOOLEAN, ok : BOOLEAN, evidence : BOOLEAN]
  /\ Resting \in [at : {"next"}, todo : {<<>>}, loaded : {NoRow},
                  fresh : BOOLEAN, ok : BOOLEAN, evidence : BOOLEAN]
BY DEF Finished, Resting

\* A worker that rests is not at any domain.
LEMMA Rests ==
  ASSUME PostureInv, worker' \in {Finished, Resting}
  PROVE  worker'.at = "next" /\ (worker \in WorkerType)' /\ \A d : ~Refreshing(d)'
<1>1. worker'.at = "next" /\ (worker \in WorkerType)'
  BY FinishedFacts DEF WorkerType
<1> QED BY <1>1 DEF Refreshing

-----------------------------------------------------------------------------
(***************************************************************************)
(* Captures                                                                *)
(***************************************************************************)
Captured(d) ==
  LET row == Known(d) IN
  [requested |-> IF row.requested # 0 THEN 0 ELSE cur[d].requested,
   accepted |-> Accepted(row), absences |-> Absences(row)]

\* What a capture works on is the row, or the new one that takes its place.
LEMMA KnownFacts ==
  ASSUME PostureInv, NEW d \in Domains, Refreshing(d)
  PROVE  /\ Known(d).absences = cur[d].absences
         /\ cur[d] # NoRow => Known(d).accepted = cur[d].accepted
         /\ cur[d] = NoRow => Known(d).accepted = "none"
BY RowFacts DEF PostureInv, LoadedInv, Known

LEMMA CaptureFacts ==
  ASSUME PostureInv, Capture
  PROVE  /\ \A d \in Domains :
              IF Refreshing(d)
              THEN /\ cur'[d] = Captured(d)
                   /\ streak'[d] = IF worker.ok /\ ~worker.evidence
                                   THEN IF streak[d] < Needed THEN streak[d] + 1 ELSE streak[d] ELSE 0
              ELSE cur'[d] = cur[d] /\ streak'[d] = streak[d]
         /\ cur' = [d \in Domains |-> cur'[d]] /\ streak' = [d \in Domains |-> streak'[d]]
<1>1. worker.at = "capture" /\ cur \in [Domains -> RowType] /\ streak \in [Domains -> Nat]
  BY DEF PostureInv, Types, Capture
<1> PICK h : h = Head(worker.todo)
  OBVIOUS
<1>2. \A d : Refreshing(d) <=> d = h
  BY <1>1 DEF Refreshing
<1>3. /\ cur' = [cur EXCEPT ![h] = Captured(h)]
      /\ streak' = [streak EXCEPT ![h] = IF worker.ok /\ ~worker.evidence
                                         THEN IF streak[h] < Needed THEN streak[h] + 1 ELSE streak[h] ELSE 0]
  BY DEF Capture, Captured
<1> QED BY <1>1, <1>2, <1>3

\* One more absence is stored only when one more was seen, and absence takes
\* the place of evidence only at the end of a series.
LEMMA CapturedFacts ==
  ASSUME PostureInv, Capture, NEW d \in Domains, Refreshing(d)
  PROVE  /\ cur'[d] \in PresentRow /\ streak'[d] \in Nat
         /\ cur'[d].absences <= streak'[d]
         /\ cur[d].accepted = "evidence" /\ cur'[d].accepted = "absence" => cur'[d].absences >= Needed
<1> PICK row : row = Known(d)
  OBVIOUS
<1>1. /\ cur[d] \in RowType /\ streak[d] \in Nat /\ cur[d].absences <= streak[d]
      /\ worker.ok \in BOOLEAN /\ worker.evidence \in BOOLEAN /\ Needed \in Nat
  BY NeededType DEF PostureInv, Types, SeriesInv, WorkerType
<1>2. /\ row.absences = cur[d].absences /\ cur[d].absences \in Nat /\ cur[d].requested \in Nat
      /\ cur[d] # NoRow => row.accepted = cur[d].accepted
      /\ cur[d] = NoRow => row.accepted = "none"
  BY <1>1, KnownFacts, RowFacts DEF RowType, PresentRow
<1>3. /\ cur'[d] = [requested |-> IF row.requested # 0 THEN 0 ELSE cur[d].requested,
                    accepted |-> Accepted(row), absences |-> Absences(row)]
      /\ streak'[d] = IF worker.ok /\ ~worker.evidence
                      THEN IF streak[d] < Needed THEN streak[d] + 1 ELSE streak[d] ELSE 0
  BY CaptureFacts DEF Captured
<1>4. Absences(row) \in Nat /\ streak'[d] \in Nat /\ Absences(row) <= streak'[d]
  BY <1>1, <1>2, <1>3 DEF Absences
<1>5. row.accepted \in {"none", "evidence", "absence"}
  BY <1>1, <1>2 DEF RowType, PresentRow
<1>6. /\ Accepted(row) \in {"none", "evidence", "absence"}
      /\ Accepted(row) = "absence" /\ row.accepted = "evidence" => Absences(row) >= Needed
  BY <1>1, <1>4, <1>5 DEF Accepted
<1>7. cur'[d] \in PresentRow
  BY <1>2, <1>3, <1>4, <1>6 DEF RowType, PresentRow
<1>8. cur[d].accepted = "evidence" => row.accepted = "evidence"
  BY <1>2, RowFacts
<1> QED BY <1>3, <1>4, <1>6, <1>7, <1>8

-----------------------------------------------------------------------------
(***************************************************************************)
(* Steps                                                                   *)
(***************************************************************************)
LEMMA CapturePosture ==
  ASSUME PostureInv, Capture
  PROVE  PostureInv'
<1>1. /\ Types /\ worker.at = "capture" /\ worker' = Finished /\ UNCHANGED <<imp, imports, owed>>
  BY DEF Capture, PostureInv
<1>2. (worker \in WorkerType)' /\ \A d : ~Refreshing(d)'
  BY <1>1, Rests
<1>3. \A d \in Domains : /\ cur'[d] \in RowType /\ streak'[d] \in Nat
                         /\ cur'[d].absences <= streak'[d]
                         /\ cur[d] # NoRow => cur'[d] # NoRow
                         /\ ~Refreshing(d) => cur'[d] = cur[d]
  BY CaptureFacts, CapturedFacts, RowFacts DEF PostureInv, Types, SeriesInv, RowType
<1>4. Types'
  BY <1>1, <1>2, <1>3, CaptureFacts DEF Types
<1>5. ImportsInv'
  BY <1>1, <1>3 DEF PostureInv, ImportsInv
<1>6. LoadedInv' /\ SeriesInv'
  BY <1>2, <1>3 DEF LoadedInv, SeriesInv
<1>7. PendingInv'
  BY <1>1, <1>2, <1>3 DEF PostureInv, PendingInv
<1> QED BY <1>4, <1>5, <1>6, <1>7 DEF PostureInv

\* The steps of the worker that change no row.
LEMMA WorkerPosture ==
  ASSUME PostureInv, NextRound \/ BeginRefresh \/ \E answer \in Answers : Resolve(answer)
  PROVE  PostureInv'
<1>1. UNCHANGED <<cur, streak, imp, imports>>
  BY DEF NextRound, BeginRefresh, Resolve
<1>2. Types /\ worker \in WorkerType
  BY DEF PostureInv, Types
<1>3. CASE NextRound
  <2>1. worker'.at = "next" /\ (worker \in WorkerType)' /\ owed' = owed
    BY <1>2, <1>3 DEF NextRound, WorkerType
  <2> QED BY <1>1, <2>1 DEF PostureInv, Types, ImportType, ImportsInv, LoadedInv, SeriesInv, PendingInv,
       Refreshing
<1>4. CASE BeginRefresh
  <2> PICK h : h = Head(worker.todo)
    OBVIOUS
  <2>1. CASE LeftAlone(cur[h])
    <3>1. worker' = Finished /\ owed' = owed
      BY <1>4, <2>1 DEF BeginRefresh
    <3>2. (worker \in WorkerType)' /\ \A d : ~Refreshing(d)'
      BY <3>1, Rests
    <3> QED BY <1>1, <3>1, <3>2 DEF PostureInv, Types, ImportType, ImportsInv, LoadedInv, SeriesInv, PendingInv
  <2>2. CASE ~LeftAlone(cur[h])
    <3>1. /\ worker' = [worker EXCEPT !.at = "lookup", !.loaded = cur[h]] /\ owed' = owed \ {h}
      BY <1>4, <2>2 DEF BeginRefresh
    <3>2. /\ (worker \in WorkerType)' /\ worker'.at = "lookup" /\ worker'.todo = worker.todo
          /\ worker'.loaded = cur[h]
      BY <1>2, <3>1 DEF WorkerType
    <3>3. \A d : Refreshing(d)' <=> d = h
      BY <3>2 DEF Refreshing
    <3>4. LoadedInv'
      BY <1>1, <3>2, <3>3 DEF LoadedInv
    <3>5. PendingInv'
      BY <1>1, <3>1, <3>3 DEF PostureInv, PendingInv
    <3> QED BY <1>1, <3>2, <3>4, <3>5 DEF PostureInv, Types, ImportType, ImportsInv, SeriesInv
  <2> QED BY <2>1, <2>2
<1>5. ASSUME NEW answer \in Answers, Resolve(answer) PROVE PostureInv'
  <2>1. /\ worker.at = "lookup" /\ owed' = owed
        /\ (worker \in WorkerType)' /\ worker'.at = "capture" /\ worker'.todo = worker.todo
        /\ worker'.loaded = worker.loaded
    BY <1>2, <1>5 DEF Resolve, WorkerType
  <2>2. \A d : Refreshing(d)' <=> Refreshing(d)
    BY <2>1 DEF Refreshing
  <2> QED BY <1>1, <2>1, <2>2 DEF PostureInv, Types, ImportType, ImportsInv, LoadedInv, SeriesInv, PendingInv
<1> QED BY <1>3, <1>4, <1>5

\* What a commit of an importer does to the rows.
LEMMA RequestedFacts ==
  ASSUME PostureInv, NEW i \in Importers, imp[i].at = "open",
         imp[i].inserts => cur[imp[i].domain] = NoRow
  PROVE  /\ Requested(i) \in [Domains -> RowType]
         /\ \A d \in Domains :
              /\ d # imp[i].domain => Requested(i)[d] = cur[d]
              /\ cur[d] # NoRow => /\ Requested(i)[d] # NoRow
                                   /\ Requested(i)[d].accepted = cur[d].accepted
                                   /\ Requested(i)[d].absences = cur[d].absences
              /\ cur[d] = NoRow => \/ Requested(i)[d] = NoRow
                                   \/ /\ Requested(i)[d].absences = 0
                                      /\ Requested(i)[d].accepted = "none"
              /\ Requested(i)[d].requested \in {cur[d].requested, imp[i].date}
              /\ cur[d].requested # 0 => Requested(i)[d].requested # 0
              /\ cur[d].accepted = "evidence" => Requested(i)[d].accepted = "evidence"
         /\ imp[i].asks => Requested(i)[imp[i].domain].requested # 0
<1> PICK e : e = imp[i].domain
  OBVIOUS
<1>1. /\ cur \in [Domains -> RowType] /\ e \in Domains /\ imp[i].date \in Nat /\ imp[i].date > 0
      /\ IF imp[i].inserts THEN imp[i].asks ELSE cur[e] # NoRow
  BY DEF PostureInv, Types, ImportsInv, ImportType
<1>2. CASE imp[i].inserts
  <2>1. Requested(i) = [cur EXCEPT ![e] = [NewRow EXCEPT !.requested = imp[i].date]]
    BY <1>2 DEF Requested
  <2> DEFINE row == [NewRow EXCEPT !.requested = imp[i].date]
  <2>2. /\ row \in PresentRow /\ row.requested # 0 /\ row.absences = 0
        /\ row.accepted = "none" /\ row.requested = imp[i].date
    BY <1>1 DEF NewRow, PresentRow
  <2> HIDE DEF row
  <2> QED BY <1>1, <1>2, <2>1, <2>2, RowFacts DEF RowType, row
<1>3. CASE ~imp[i].inserts /\ imp[i].asks
  <2>1. Requested(i) = [cur EXCEPT ![e] = [cur[e] EXCEPT !.requested = imp[i].date]]
    BY <1>3 DEF Requested
  <2> DEFINE row == [cur[e] EXCEPT !.requested = imp[i].date]
  <2>2. /\ row \in PresentRow /\ row.requested # 0 /\ row.requested = imp[i].date
        /\ row.accepted = cur[e].accepted /\ row.absences = cur[e].absences
    BY <1>1, <1>3 DEF RowType, PresentRow
  <2>3. Requested(i) = [cur EXCEPT ![e] = row]
    BY <2>1
  <2> HIDE DEF row
  <2> QED BY <1>1, <1>3, <2>2, <2>3, RowFacts DEF RowType
<1>4. CASE ~imp[i].inserts /\ ~imp[i].asks
  <2>1. Requested(i) = [cur EXCEPT ![e] = cur[e]]
    BY <1>4 DEF Requested
  <2>2. Requested(i) = cur
    BY <1>1, <2>1
  <2> QED BY <1>1, <1>4, <2>2, RowFacts
<1> QED BY <1>2, <1>3, <1>4

LEMMA ImportPosture ==
  ASSUME PostureInv, NEW i \in Importers, CommitImport(i) \/ Collide(i) \/ \E d \in Domains : Ask(i, d)
  PROVE  PostureInv'
<1>1. Types /\ imp \in [Importers -> ImportType]
  BY DEF PostureInv, Types
<1>2. ASSUME NEW d \in Domains, Ask(i, d) PROVE PostureInv'
  <2>1. UNCHANGED <<cur, worker, streak, owed>> /\ imports' = imports + 1
    BY <1>2 DEF Ask
  <2>2. PICK asks \in BOOLEAN :
          /\ cur[d].requested = 0 => asks
          /\ imp' = [imp EXCEPT ![i] = [at |-> "open", domain |-> d, inserts |-> cur[d] = NoRow,
                                        asks |-> asks, date |-> imports + 1]]
    BY <1>2 DEF Ask
  <2> DEFINE t == [at |-> "open", domain |-> d, inserts |-> cur[d] = NoRow,
                   asks |-> asks, date |-> imports + 1]
  <2>3. imports + 1 \in Nat /\ imports + 1 > 0 /\ (cur[d] = NoRow => asks)
    <3>1. imports + 1 \in Nat /\ imports + 1 > 0
      BY <1>1 DEF Types
    <3>2. cur[d] = NoRow => cur[d].requested = 0
      BY RowFacts
    <3> QED BY <2>2, <3>1, <3>2
  <2>4. t \in ImportType
    BY <1>2, <2>3 DEF ImportType
  <2>5. t.domain = d /\ t.date > 0 /\ (t.inserts <=> cur[d] = NoRow) /\ (cur[d] = NoRow => t.asks)
    BY <2>3
  <2>6. imp' = [imp EXCEPT ![i] = t]
    BY <2>2
  <2> HIDE DEF t
  <2>7. /\ imp' \in [Importers -> ImportType]
        /\ imp'[i].domain = d /\ imp'[i].date > 0 /\ (imp'[i].inserts <=> cur[d] = NoRow)
        /\ (cur[d] = NoRow => imp'[i].asks)
        /\ \A j \in Importers : j # i => imp'[j] = imp[j]
    BY <1>1, <2>4, <2>5, <2>6
  <2>8. ImportsInv'
    BY <2>1, <2>7 DEF PostureInv, ImportsInv
  <2> QED BY <1>1, <2>1, <2>7, <2>8
       DEF PostureInv, Types, WorkerType, LoadedInv, SeriesInv, PendingInv, Refreshing
<1>3. ASSUME imp[i].at = "open", imp' = [imp EXCEPT ![i] = NoImport]
      PROVE  /\ imp' \in [Importers -> ImportType] /\ imp'[i].at = "idle"
             /\ \A j \in Importers : j # i => imp'[j] = imp[j]
  BY <1>1, <1>3 DEF ImportType, NoImport
<1>4. ASSUME CommitImport(i), imp[i].inserts, cur[imp[i].domain] # NoRow PROVE PostureInv'
  <2>1. /\ UNCHANGED <<cur, worker, streak, imports, owed>>
        /\ imp[i].at = "open" /\ imp' = [imp EXCEPT ![i] = NoImport]
    BY <1>4 DEF CommitImport
  <2> QED BY <1>1, <1>3, <2>1
       DEF PostureInv, Types, WorkerType, ImportsInv, LoadedInv, SeriesInv, PendingInv, Refreshing
<1>5. ASSUME imp[i].at = "open", imp' = [imp EXCEPT ![i] = NoImport], cur' = Requested(i),
             imp[i].inserts => cur[imp[i].domain] = NoRow, UNCHANGED <<streak, imports>>,
             (worker \in WorkerType)',
             LoadedInv', PendingInv'
      PROVE  PostureInv'
  <2>1. Types'
    BY <1>1, <1>3, <1>5, RequestedFacts DEF Types
  <2>2. ImportsInv'
    BY <1>3, <1>5, RequestedFacts DEF PostureInv, ImportsInv
  <2>3. SeriesInv'
    <3> SUFFICES ASSUME NEW d \in Domains PROVE (cur[d].absences <= streak[d])'
      BY DEF SeriesInv
    <3>1. cur[d].absences <= streak[d] /\ streak[d] \in Nat
      BY <1>1 DEF PostureInv, SeriesInv, Types
    <3>2. cur'[d].absences = cur[d].absences \/ cur'[d].absences = 0
      BY <1>5, RequestedFacts, RowFacts
    <3> QED BY <1>5, <3>1, <3>2
  <2> QED BY <1>5, <2>1, <2>2, <2>3 DEF PostureInv
<1>6. ASSUME CommitImport(i), ~(imp[i].inserts /\ cur[imp[i].domain] # NoRow) PROVE PostureInv'
  <2> PICK e : e = imp[i].domain
    OBVIOUS
  <2>1. /\ imp[i].at = "open" /\ imp' = [imp EXCEPT ![i] = NoImport] /\ cur' = Requested(i)
        /\ owed' = IF imp[i].asks /\ ~Refreshing(e) THEN owed \cup {e} ELSE owed
        /\ UNCHANGED <<worker, streak, imports>> /\ e \in Domains
    BY <1>6 DEF CommitImport, PostureInv, ImportsInv
  <2>2. (worker \in WorkerType)' /\ \A d : Refreshing(d)' <=> Refreshing(d)
    BY <1>1, <2>1 DEF Types, WorkerType, Refreshing
  <2>3. LoadedInv'
    BY <1>6, <2>1, <2>2, RequestedFacts DEF PostureInv, LoadedInv
  <2>4. PendingInv'
    BY <1>6, <2>1, <2>2, RequestedFacts DEF PostureInv, PendingInv
  <2> QED BY <1>5, <1>6, <2>1, <2>2, <2>3, <2>4
<1>7. ASSUME Collide(i) PROVE PostureInv'
  <2>1. /\ imp[i].at = "open" /\ imp' = [imp EXCEPT ![i] = NoImport] /\ cur' = Requested(i)
        /\ cur[imp[i].domain] = NoRow /\ worker' = Finished
        /\ UNCHANGED <<streak, imports, owed>>
    BY <1>7 DEF Collide
  <2>2. (worker \in WorkerType)' /\ \A d : ~Refreshing(d)'
    BY <2>1, Rests
  <2>3. LoadedInv'
    BY <2>2 DEF LoadedInv
  <2>4. PendingInv'
    BY <2>1, <2>2, RequestedFacts DEF PostureInv, PendingInv
  <2> QED BY <1>5, <2>1, <2>2, <2>3, <2>4
<1> QED BY <1>2, <1>4, <1>6, <1>7

LEMMA PostureStep == PostureInv /\ [Next]_vars => PostureInv'
<1> SUFFICES ASSUME PostureInv, [Next]_vars PROVE PostureInv'
  OBVIOUS
<1>1. CASE Crash
  <2>1. worker' = Resting /\ imp' = [i \in Importers |-> NoImport]
        /\ UNCHANGED <<cur, streak, imports, owed>>
    BY <1>1 DEF Crash
  <2>2. (worker \in WorkerType)' /\ \A d : ~Refreshing(d)'
    BY <2>1, Rests
  <2>3. \A i \in Importers : imp'[i] \in ImportType /\ imp'[i].at = "idle"
    BY <2>1 DEF NoImport, ImportType
  <2> QED BY <2>1, <2>2, <2>3 DEF PostureInv, Types, ImportsInv, LoadedInv, SeriesInv, PendingInv, ImportType
<1>2. ASSUME UNCHANGED vars \/ \E d \in Domains : Expire(d) PROVE PostureInv'
  BY <1>2 DEF vars, Expire, PostureInv, Types, WorkerType, ImportType, ImportsInv, LoadedInv, SeriesInv,
     PendingInv, Refreshing
<1> QED BY <1>1, <1>2, CapturePosture, WorkerPosture, ImportPosture DEF Next, WorkerStep

LEMMA AlwaysPosture == Spec => []PostureInv
BY InitPosture, PostureStep, PTL DEF Spec

-----------------------------------------------------------------------------
(***************************************************************************)
(* Sequences without duplicates                                            *)
(***************************************************************************)
\* Taking an element out of a sequence that has it once at most.
LEMMA RemoveOnce ==
  ASSUME NEW S, NEW s \in Seq(S), NEW e, IsInjective(s)
  PROVE  /\ RemoveFirst(s, e) \in Seq(S) /\ IsInjective(RemoveFirst(s, e))
         /\ \A i \in DOMAIN RemoveFirst(s, e) :
              RemoveFirst(s, e)[i] # e /\ \E j \in DOMAIN s : RemoveFirst(s, e)[i] = s[j]
         /\ \A j \in DOMAIN s :
              s[j] # e => \E i \in DOMAIN RemoveFirst(s, e) : RemoveFirst(s, e)[i] = s[j]
<1>1. Len(s) \in Nat /\ DOMAIN s = 1..Len(s) /\ \A i \in 1..Len(s) : s[i] \in S
  BY LenProperties, ElementOfSeq
<1>2. CASE ~\E i \in 1..Len(s) : s[i] = e
  BY <1>1, <1>2 DEF RemoveFirst
<1>3. CASE \E i \in 1..Len(s) : s[i] = e
  <2>1. PICK p \in 1..Len(s) : s[p] = e
    BY <1>3
  <2>2. SelectInSeq(s, LAMBDA v : v = e) = p
    <3>1. {i \in 1..Len(s) : s[i] = e} = {p}
      BY <1>1, <2>1 DEF IsInjective
    <3>2. Min({p}) = p
      BY <2>1 DEF Min
    <3> QED BY <3>1, <3>2 DEF SelectInSeq
  <2> DEFINE left == SubSeq(s, 1, p - 1)
             right == SubSeq(s, p + 1, Len(s))
             rest == left \o right
  <2>3. RemoveFirst(s, e) = rest
    BY <1>3, <2>2 DEF RemoveFirst, RemoveAt
  <2>4. /\ left \in Seq(S) /\ Len(left) = p - 1
        /\ \A i \in 1..p - 1 : left[i] = s[i]
    BY <1>1, <2>1, SubSeqProperties
  <2>5. /\ right \in Seq(S) /\ Len(right) = Len(s) - p
        /\ \A i \in 1..Len(s) - p : right[i] = s[p + i]
    <3>1. p + 1 \in Int /\ Len(s) \in Int /\ \A i \in p + 1..Len(s) : s[i] \in S
      BY <1>1, <2>1
    <3>2. /\ right \in Seq(S) /\ Len(right) = IF p + 1 <= Len(s) THEN Len(s) - (p + 1) + 1 ELSE 0
          /\ \A i \in 1..Len(s) - (p + 1) + 1 : right[i] = s[p + 1 + i - 1]
      BY <3>1, SubSeqProperties
    <3> HIDE DEF right
    <3>3. Len(right) = Len(s) - p
      <4> PICK l \in Nat : l = Len(s)
        BY <1>1
      <4>1. p \in 1..l /\ Len(right) = IF p + 1 <= l THEN l - (p + 1) + 1 ELSE 0
        BY <2>1, <3>2
      <4> QED BY <4>1
    <3>4. ASSUME NEW i \in 1..Len(s) - p PROVE right[i] = s[p + i]
      <4>1. i \in 1..Len(s) - (p + 1) + 1 /\ p + 1 + i - 1 = p + i
        BY <1>1, <2>1
      <4> QED BY <3>2, <4>1
    <3> QED BY <3>2, <3>3, <3>4
  <2> HIDE DEF left, right
  <2>6. /\ rest \in Seq(S) /\ Len(rest) = Len(s) - 1
        /\ \A i \in 1..Len(s) - 1 : rest[i] = IF i <= p - 1 THEN left[i] ELSE right[i - (p - 1)]
    <3>1. /\ rest \in Seq(S) /\ Len(rest) = Len(left) + Len(right)
          /\ \A i \in 1..Len(left) + Len(right) :
               rest[i] = IF i <= Len(left) THEN left[i] ELSE right[i - Len(left)]
      BY <2>4, <2>5, ConcatProperties
    <3> HIDE DEF rest
    <3>2. Len(left) + Len(right) = Len(s) - 1
      BY <1>1, <2>1, <2>4, <2>5
    <3> QED BY <2>4, <3>1, <3>2
  <2> HIDE DEF rest
  <2>7. \A i \in 1..Len(s) - 1 : rest[i] = IF i < p THEN s[i] ELSE s[i + 1]
    BY <1>1, <2>1, <2>4, <2>5, <2>6
  <2>8. DOMAIN rest = 1..Len(s) - 1
    BY <2>6, LenProperties
  <2>9. IsInjective(rest)
    BY <1>1, <2>1, <2>7, <2>8 DEF IsInjective
  <2>10. \A i \in DOMAIN rest : rest[i] # e /\ \E j \in DOMAIN s : rest[i] = s[j]
    BY <1>1, <2>1, <2>7, <2>8 DEF IsInjective
  <2>11. ASSUME NEW j \in DOMAIN s, s[j] # e PROVE \E i \in DOMAIN rest : rest[i] = s[j]
    <3>1. CASE j < p
      BY <1>1, <2>1, <2>7, <2>8, <3>1
    <3>2. CASE j > p
      <4>1. j - 1 \in DOMAIN rest /\ ~(j - 1 < p) /\ j - 1 + 1 = j
        BY <1>1, <2>1, <2>8, <3>2
      <4> QED BY <2>7, <2>8, <4>1
    <3> QED BY <1>1, <2>1, <2>11, <3>1, <3>2
  <2> QED BY <2>3, <2>6, <2>9, <2>10, <2>11
<1> QED BY <1>2, <1>3

\* And adding one that it does not have.
LEMMA AppendOnce ==
  ASSUME NEW S, NEW s \in Seq(S), NEW e \in S, IsInjective(s), \A i \in DOMAIN s : s[i] # e
  PROVE  /\ Append(s, e) \in Seq(S) /\ IsInjective(Append(s, e))
         /\ \A i \in DOMAIN Append(s, e) :
              Append(s, e)[i] = e \/ \E j \in DOMAIN s : Append(s, e)[i] = s[j]
         /\ \E i \in DOMAIN Append(s, e) : Append(s, e)[i] = e
         /\ \A j \in DOMAIN s : \E i \in DOMAIN Append(s, e) : Append(s, e)[i] = s[j]
<1> DEFINE t == Append(s, e)
<1>1. Len(s) \in Nat /\ DOMAIN s = 1..Len(s)
  BY LenProperties
<1>2. /\ t \in Seq(S) /\ Len(t) = Len(s) + 1 /\ t[Len(s) + 1] = e
      /\ \A i \in 1..Len(s) : t[i] = s[i]
  BY AppendProperties
<1>3. DOMAIN t = 1..Len(s) + 1
  BY <1>2, LenProperties
<1> HIDE DEF t
<1>4. IsInjective(t)
  BY <1>1, <1>2, <1>3 DEF IsInjective
<1>5. \A i \in DOMAIN t : t[i] = e \/ \E j \in DOMAIN s : t[i] = s[j]
  BY <1>1, <1>2, <1>3
<1>6. \A j \in DOMAIN s : j \in DOMAIN t /\ t[j] = s[j]
  BY <1>1, <1>2, <1>3
<1>7. Len(s) + 1 \in DOMAIN t
  BY <1>1, <1>3
<1> QED BY <1>2, <1>4, <1>5, <1>6, <1>7 DEF t

\* An arrangement of a finite set has each of its elements once.
LEMMA Arrangement ==
  ASSUME NEW S, IsFiniteSet(S), NEW s \in SetToSeqs(S)
  PROVE  /\ s \in Seq(S) /\ Len(s) = Cardinality(S) /\ IsInjective(s)
         /\ \A e \in S : \E i \in DOMAIN s : s[i] = e
<1> DEFINE D == 1..Cardinality(S)
<1>1. Cardinality(S) \in Nat
  BY FS_CardinalityType
<1>2. s \in [D -> S] /\ \A i, j \in D : i # j => s[i] # s[j]
  BY DEF SetToSeqs
<1>3. s \in Seq(S) /\ Len(s) = Cardinality(S) /\ IsInjective(s)
  BY <1>1, <1>2 DEF IsInjective
<1>4. s \in Injection(D, S)
  BY <1>2, <1>3 DEF Injection
<1>5. IsFiniteSet(D) /\ Cardinality(D) = Cardinality(S)
  BY <1>1, FS_Interval
<1>6. s \in Surjection(D, S)
  BY <1>4, <1>5, FS_Injection
<1> QED BY <1>2, <1>3, <1>6 DEF Surjection

-----------------------------------------------------------------------------
(***************************************************************************)
(* Types                                                                   *)
(***************************************************************************)
\* The bounds of the rows and of the requests that are on their way.
BoundsInv ==
  /\ \A d \in Domains : cur[d].requested <= MaxImports /\ cur[d].absences <= Needed
  /\ \A i \in Importers : imp[i].date <= MaxImports
  /\ imports <= MaxImports /\ crashes \in 0..MaxCrashes
  /\ limit \in Limits /\ recent \subseteq Domains

\* What a round has left to do.
RoundInv ==
  /\ worker.todo \in Seq(Domains) /\ Len(worker.todo) <= limit /\ IsInjective(worker.todo)
  /\ worker.at # "next" => worker.todo # <<>>

\* Who has a baseline was looked up once.
DoneInv ==
  /\ done \in Seq(Domains) /\ IsInjective(done)
  /\ \A d \in Domains : cur[d] # NoRow /\ cur[d].accepted # "none" => Completed(d)

TypeInv == BoundsInv /\ RoundInv /\ DoneInv

LEMMA InitTypes == Init => TypeInv
<1> SUFFICES ASSUME Init PROVE TypeInv
  OBVIOUS
<1>1. /\ NoRow.requested = 0 /\ NoRow.absences = 0
      /\ [NewRow EXCEPT !.accepted = "evidence"].requested = 0
      /\ [NewRow EXCEPT !.accepted = "evidence"].absences = 0
  BY DEF NoRow, NewRow
<1>2. \A d \in Domains : cur[d].requested = 0 /\ cur[d].absences = 0
  BY <1>1 DEF Init
<1>3. BoundsInv
  BY <1>2, PostureAssumption, NeededType DEF Init, BoundsInv, NoImport
<1>4. RoundInv
  BY PostureAssumption, EmptySeq DEF Init, RoundInv, Resting, IsInjective
<1>5. DoneInv
  <2> DEFINE S == {d \in Domains : cur[d] # NoRow}
  <2>1. S \subseteq Domains /\ IsFiniteSet(S) /\ done \in SetToSeqs(S)
    BY PostureAssumption, FS_Subset DEF Init
  <2> HIDE DEF S
  <2>2. done \in Seq(S) /\ IsInjective(done) /\ \A e \in S : \E i \in DOMAIN done : done[i] = e
    BY <2>1, Arrangement
  <2>3. done \in Seq(Domains)
    BY <2>1, <2>2, SeqMonotonic
  <2> QED BY <2>2, <2>3 DEF S, DoneInv, Completed
<1> QED BY <1>3, <1>4, <1>5 DEF TypeInv

\* A round takes no domain twice and no more than its limit (_candidates).
LEMMA RoundFacts ==
  ASSUME TypeInv, NEW order \in SetToSeqs(Domains)
  PROVE  /\ Batch(order) \in Seq(Domains) /\ IsInjective(Batch(order))
         /\ Len(Batch(order)) <= limit
         /\ Domains # {} => Batch(order) # <<>> /\ Head(Batch(order)) = order[1]
<1>1. /\ order \in Seq(Domains) /\ Len(order) = Cardinality(Domains) /\ IsInjective(order)
      /\ \A d \in Domains : \E i \in DOMAIN order : order[i] = d
  BY PostureAssumption, Arrangement
<1>2. /\ Len(order) \in Nat /\ DOMAIN order = 1..Len(order)
      /\ \A i \in 1..Len(order) : order[i] \in Domains
  BY <1>1, LenProperties, ElementOfSeq
<1>3. limit \in Nat \ {0}
  BY PostureAssumption DEF TypeInv, BoundsInv
<1> DEFINE n == IF limit < Len(order) THEN limit ELSE Len(order)
           batch == SubSeq(order, 1, n)
<1>4. n \in Nat /\ n <= limit /\ n <= Len(order) /\ (Len(order) > 0 => n > 0)
  BY <1>2, <1>3
<1>5. Batch(order) = batch
  BY DEF Batch
<1> HIDE DEF n
<1>6. batch \in Seq(Domains) /\ Len(batch) = n /\ \A i \in 1..n : batch[i] = order[i]
  <2>1. 1 \in Int /\ n \in Int /\ \A i \in 1..n : order[i] \in Domains
    BY <1>2, <1>4
  <2>2. /\ batch \in Seq(Domains) /\ Len(batch) = IF 1 <= n THEN n - 1 + 1 ELSE 0
        /\ \A i \in 1..n - 1 + 1 : batch[i] = order[1 + i - 1]
    BY <2>1, SubSeqProperties
  <2> HIDE DEF batch
  <2>3. Len(batch) = n
    BY <1>4, <2>2
  <2>4. ASSUME NEW i \in 1..n PROVE batch[i] = order[i]
    <3>1. i \in 1..n - 1 + 1 /\ 1 + i - 1 = i
      BY <1>4
    <3> QED BY <2>2, <3>1
  <2> QED BY <2>2, <2>3, <2>4
<1> HIDE DEF batch
<1>7. DOMAIN batch = 1..n
  BY <1>6, LenProperties
<1>8. IsInjective(batch)
  <2> SUFFICES ASSUME NEW i \in 1..n, NEW j \in 1..n, batch[i] = batch[j] PROVE i = j
    BY <1>7 DEF IsInjective
  <2>1. i \in DOMAIN order /\ j \in DOMAIN order /\ order[i] = order[j]
    BY <1>2, <1>4, <1>6
  <2> QED BY <1>1, <2>1 DEF IsInjective
<1>9. Domains # {} => batch # <<>> /\ Head(batch) = order[1]
  <2> SUFFICES ASSUME Domains # {} PROVE batch # <<>> /\ Head(batch) = order[1]
    OBVIOUS
  <2>1. Len(order) > 0
    BY <1>1, <1>2
  <2> QED BY <1>4, <1>6, <2>1
<1> QED BY <1>4, <1>5, <1>6, <1>8, <1>9

\* The rest of a round.
LEMMA FinishedRound ==
  ASSUME TypeInv, worker.todo # <<>>, worker' = Finished, UNCHANGED limit
  PROVE  RoundInv'
<1>1. worker'.at = "next" /\ worker'.todo = Tail(worker.todo)
  BY FinishedFacts
<1> DEFINE s == worker.todo
           t == Tail(s)
<1>2. s \in Seq(Domains) /\ Len(s) <= limit /\ IsInjective(s) /\ limit \in Nat
  BY PostureAssumption DEF TypeInv, RoundInv, BoundsInv
<1>3. /\ t \in Seq(Domains) /\ Len(t) = Len(s) - 1
      /\ \A i \in 1..Len(t) : t[i] = s[i + 1]
  BY <1>2, HeadTailProperties
<1>4. /\ Len(s) \in Nat /\ Len(t) \in Nat /\ DOMAIN s = 1..Len(s) /\ DOMAIN t = 1..Len(t)
  BY <1>2, <1>3, LenProperties
<1>5. worker'.todo = t
  BY <1>1
<1> HIDE DEF s, t
<1>6. IsInjective(t)
  <2> SUFFICES ASSUME NEW i \in DOMAIN t, NEW j \in DOMAIN t, t[i] = t[j] PROVE i = j
    BY DEF IsInjective
  <2>1. i \in 1..Len(t) /\ j \in 1..Len(t)
    BY <1>4
  <2>2. i + 1 \in DOMAIN s /\ j + 1 \in DOMAIN s
    BY <1>3, <1>4, <2>1
  <2>3. s[i + 1] = s[j + 1]
    BY <1>3, <2>1
  <2>4. i + 1 = j + 1
    BY <1>2, <2>2, <2>3, Zenon DEF IsInjective
  <2> QED BY <1>4, <2>1, <2>4
<1>7. limit' = limit /\ Len(t) <= limit
  BY <1>2, <1>3, <1>4
<1> QED BY <1>1, <1>3, <1>5, <1>6, <1>7 DEF RoundInv

LEMMA RoundStep ==
  ASSUME PostureInv, TypeInv, [Next]_vars
  PROVE  RoundInv'
<1>1. worker \in WorkerType
  BY DEF PostureInv, Types
<1>2. CASE NextRound
  <2>1. PICK order \in SetToSeqs(Domains) : worker' = [worker EXCEPT !.todo = Batch(order)]
    BY <1>2 DEF NextRound
  <2>2. /\ Batch(order) \in Seq(Domains) /\ IsInjective(Batch(order))
        /\ Len(Batch(order)) <= limit
    BY RoundFacts
  <2>3. worker.at = "next" /\ limit' = limit
    BY <1>2 DEF NextRound
  <2>4. worker'.todo = Batch(order) /\ worker'.at = "next"
    BY <1>1, <2>1, <2>3 DEF WorkerType
  <2> QED BY <2>2, <2>3, <2>4 DEF RoundInv
<1>3. ASSUME BeginRefresh \/ Capture \/ \E answer \in Answers : Resolve(answer) PROVE RoundInv'
  <2>1. worker.todo # <<>> /\ limit' = limit
    BY <1>3 DEF BeginRefresh, Capture, Resolve, TypeInv, RoundInv
  <2>2. worker' = Finished \/ worker'.todo = worker.todo
    BY <1>1, <1>3 DEF BeginRefresh, Capture, Resolve, WorkerType
  <2> QED BY <2>1, <2>2, FinishedRound DEF TypeInv, RoundInv
<1>4. ASSUME NEW i \in Importers, Collide(i) PROVE RoundInv'
  BY <1>4, FinishedRound DEF Collide, TypeInv, RoundInv
<1>5. CASE Crash
  BY <1>5, PostureAssumption, EmptySeq DEF Crash, Resting, RoundInv, TypeInv, BoundsInv, IsInjective
<1>6. ASSUME UNCHANGED <<worker, limit>> PROVE RoundInv'
  BY <1>6 DEF TypeInv, RoundInv
<1>7. CASE \/ \E d \in Domains : Expire(d)
           \/ \E i \in Importers : CommitImport(i) \/ \E d \in Domains : Ask(i, d)
           \/ UNCHANGED vars
  <2>1. UNCHANGED <<worker, limit>>
    BY <1>7 DEF Expire, CommitImport, Ask, vars
  <2> QED BY <1>6, <2>1
<1> QED BY <1>2, <1>3, <1>4, <1>5, <1>7 DEF Next, WorkerStep

\* The domain of a lookup is one of the active domains.
LEMMA HeadIsDomain ==
  ASSUME TypeInv, worker.at # "next"
  PROVE  Head(worker.todo) \in Domains
BY HeadTailProperties DEF TypeInv, RoundInv

\* What the commit of an importer writes.
LEMMA CommitCases ==
  ASSUME PostureInv, NEW i \in Importers, CommitImport(i) \/ Collide(i)
  PROVE  \/ cur' = cur
         \/ /\ cur' = Requested(i) /\ imp[i].at = "open"
            /\ imp[i].inserts => cur[imp[i].domain] = NoRow
BY DEF CommitImport, Collide

LEMMA BoundsStep ==
  ASSUME PostureInv, TypeInv, [Next]_vars
  PROVE  BoundsInv'
<1>1. /\ cur \in [Domains -> RowType] /\ imp \in [Importers -> ImportType] /\ imports \in Nat
      /\ MaxImports \in Nat /\ MaxCrashes \in Nat /\ Needed \in Nat
  BY PostureAssumption, NeededType DEF PostureInv, Types
<1>2. \A d \in Domains : cur[d].requested \in Nat /\ cur[d].absences \in Nat
  BY <1>1, RowFacts DEF RowType, PresentRow
<1>3. \A d \in Domains : cur'[d].requested <= MaxImports /\ cur'[d].absences <= Needed
  <2>1. CASE Capture
    <3> SUFFICES ASSUME NEW d \in Domains, Refreshing(d)
                 PROVE  cur'[d].requested <= MaxImports /\ cur'[d].absences <= Needed
      BY <2>1, CaptureFacts DEF TypeInv, BoundsInv
    <3> PICK row : row = Known(d)
      OBVIOUS
    <3>1. /\ cur'[d] = [requested |-> IF row.requested # 0 THEN 0 ELSE cur[d].requested,
                        accepted |-> Accepted(row), absences |-> Absences(row)]
          /\ row.absences = cur[d].absences
      BY <2>1, CaptureFacts, KnownFacts DEF Captured
    <3>2. row.absences \in Nat /\ row.absences <= Needed
      BY <1>2, <3>1 DEF TypeInv, BoundsInv
    <3>3. Absences(row) <= Needed
      BY <1>1, <3>2 DEF Absences
    <3> QED BY <1>1, <3>1, <3>3 DEF TypeInv, BoundsInv
  <2>2. ASSUME NEW i \in Importers, CommitImport(i) \/ Collide(i)
        PROVE  \A d \in Domains : cur'[d].requested <= MaxImports /\ cur'[d].absences <= Needed
    <3>1. CASE cur' = cur
      BY <3>1 DEF TypeInv, BoundsInv
    <3>2. CASE /\ cur' = Requested(i) /\ imp[i].at = "open"
               /\ imp[i].inserts => cur[imp[i].domain] = NoRow
      <4> SUFFICES ASSUME NEW d \in Domains
                   PROVE  cur'[d].requested <= MaxImports /\ cur'[d].absences <= Needed
        OBVIOUS
      <4>1. cur'[d].requested \in {cur[d].requested, imp[i].date}
        BY <3>2, RequestedFacts
      <4>2. cur'[d].absences = cur[d].absences \/ cur'[d].absences = 0
        BY <3>2, RequestedFacts, RowFacts
      <4> QED BY <1>1, <4>1, <4>2 DEF TypeInv, BoundsInv
    <3> QED BY <2>2, <3>1, <3>2, CommitCases
  <2>3. CASE cur' = cur
    BY <2>3 DEF TypeInv, BoundsInv
  <2>4. \/ Capture \/ cur' = cur
        \/ \E i \in Importers : CommitImport(i) \/ Collide(i)
    BY DEF Next, WorkerStep, NextRound, BeginRefresh, Resolve, Expire, Ask, Crash, vars
  <2> QED BY <2>1, <2>2, <2>3, <2>4
<1>4. \A i \in Importers : imp'[i].date <= MaxImports
  <2>1. ASSUME NEW i \in Importers, NEW d \in Domains, Ask(i, d)
        PROVE  \A j \in Importers : imp'[j].date <= MaxImports
    <3>1. PICK t : imp' = [imp EXCEPT ![i] = t] /\ t.date = imports + 1 /\ imports < MaxImports
      BY <2>1 DEF Ask
    <3> QED BY <1>1, <3>1 DEF TypeInv, BoundsInv
  <2>2. ASSUME NEW i \in Importers, CommitImport(i) \/ Collide(i)
        PROVE  \A j \in Importers : imp'[j].date <= MaxImports
    BY <1>1, <2>2 DEF CommitImport, Collide, NoImport, TypeInv, BoundsInv
  <2>3. CASE Crash
    BY <1>1, <2>3 DEF Crash, NoImport
  <2>4. CASE imp' = imp
    BY <2>4 DEF TypeInv, BoundsInv
  <2>5. \/ Crash \/ imp' = imp
        \/ \E i \in Importers : CommitImport(i) \/ Collide(i) \/ \E d \in Domains : Ask(i, d)
    BY DEF Next, WorkerStep, NextRound, BeginRefresh, Resolve, Capture, Expire, vars
  <2> QED BY <2>1, <2>2, <2>3, <2>4, <2>5
<1>5. imports' <= MaxImports
  <2>1. imports' = imports \/ (imports < MaxImports /\ imports' = imports + 1)
    BY DEF Next, WorkerStep, NextRound, BeginRefresh, Resolve, Capture, Expire, Crash, CommitImport,
         Collide, Ask, vars
  <2> QED BY <1>1, <2>1 DEF TypeInv, BoundsInv
<1>6. crashes' \in 0..MaxCrashes
  <2>1. crashes' = crashes \/ (crashes < MaxCrashes /\ crashes' = crashes + 1)
    BY DEF Next, WorkerStep, NextRound, BeginRefresh, Resolve, Capture, Expire, Crash, CommitImport,
         Collide, Ask, vars
  <2> QED BY <1>1, <2>1 DEF TypeInv, BoundsInv
<1>7. limit' \in Limits
  BY DEF Next, WorkerStep, NextRound, BeginRefresh, Resolve, Capture, Expire, Crash, CommitImport,
       Collide, Ask, vars, TypeInv, BoundsInv
<1>8. recent' \subseteq Domains
  <2>1. ASSUME NEW answer \in Answers, Resolve(answer) PROVE recent' \subseteq Domains
    <3>1. Head(worker.todo) \in Domains
      BY <2>1, HeadIsDomain DEF Resolve
    <3>2. recent' \in {recent, recent \cup {Head(worker.todo)}}
      BY <2>1 DEF Resolve
    <3> QED BY <3>1, <3>2 DEF TypeInv, BoundsInv
  <2>2. ASSUME ~\E answer \in Answers : Resolve(answer) PROVE recent' \subseteq recent
    BY <2>2 DEF Next, WorkerStep, NextRound, BeginRefresh, Capture, Expire, Crash, CommitImport,
         Collide, Ask, vars
  <2> QED BY <2>1, <2>2 DEF TypeInv, BoundsInv
<1> QED BY <1>3, <1>4, <1>5, <1>6, <1>7, <1>8 DEF BoundsInv

LEMMA DoneStep ==
  ASSUME PostureInv, TypeInv, [Next]_vars
  PROVE  DoneInv'
<1>1. CASE Capture
  <2>1. PICK h \in Domains : h = Head(worker.todo)
    BY <1>1, HeadIsDomain DEF Capture
  <2>2. done' = Append(RemoveFirst(done, h), h) /\ worker.at = "capture"
    BY <1>1, <2>1 DEF Capture
  <2> DEFINE others == RemoveFirst(done, h)
  <2>3. done \in Seq(Domains) /\ IsInjective(done)
    BY DEF TypeInv, DoneInv
  <2>4. /\ others \in Seq(Domains) /\ IsInjective(others)
        /\ \A i \in DOMAIN others : others[i] # h
        /\ \A j \in DOMAIN done : done[j] # h => \E i \in DOMAIN others : others[i] = done[j]
    BY <2>3, RemoveOnce
  <2> HIDE DEF others
  <2>5. /\ done' \in Seq(Domains) /\ IsInjective(done')
        /\ \E i \in DOMAIN done' : done'[i] = h
        /\ \A j \in DOMAIN others : \E i \in DOMAIN done' : done'[i] = others[j]
    BY <2>2, <2>4, AppendOnce DEF others
  <2>6. ASSUME NEW d \in Domains, cur'[d] # NoRow, cur'[d].accepted # "none"
        PROVE  \E i \in DOMAIN done' : done'[i] = d
    <3>1. CASE d = h
      BY <2>5, <3>1
    <3>2. CASE d # h
      <4>1. ~Refreshing(d)
        BY <2>1, <3>2 DEF Refreshing
      <4>2. cur'[d] = cur[d]
        BY <1>1, <4>1, CaptureFacts
      <4>3. PICK j \in DOMAIN done : done[j] = d
        BY <2>6, <4>2 DEF TypeInv, DoneInv, Completed
      <4> QED BY <2>4, <2>5, <3>2, <4>3
    <3> QED BY <3>1, <3>2
  <2> QED BY <2>5, <2>6 DEF DoneInv, Completed
<1>2. ASSUME NEW i \in Importers, CommitImport(i) \/ Collide(i) PROVE DoneInv'
  <2>1. done' = done
    BY <1>2 DEF CommitImport, Collide
  <2>2. ASSUME NEW d \in Domains, cur'[d] # NoRow, cur'[d].accepted # "none"
        PROVE  cur[d] # NoRow /\ cur[d].accepted # "none"
    BY <1>2, <2>2, CommitCases, RequestedFacts
  <2> QED BY <2>1, <2>2 DEF TypeInv, DoneInv, Completed
<1>3. CASE UNCHANGED <<cur, done>>
  BY <1>3 DEF TypeInv, DoneInv, Completed
<1>4. \/ Capture \/ UNCHANGED <<cur, done>>
      \/ \E i \in Importers : CommitImport(i) \/ Collide(i)
  BY DEF Next, WorkerStep, NextRound, BeginRefresh, Resolve, Expire, Ask, Crash, vars
<1> QED BY <1>1, <1>2, <1>3, <1>4

LEMMA AlwaysTypes == Spec => [](PostureInv /\ TypeInv)
<1>1. PostureInv /\ TypeInv /\ [Next]_vars => TypeInv'
  BY RoundStep, BoundsStep, DoneStep DEF TypeInv
<1> QED BY <1>1, InitTypes, AlwaysPosture, PTL DEF Spec

-----------------------------------------------------------------------------
\* Only a capture takes evidence away, at the end of a series of absences: for
\* any number of importers that ask meanwhile, and of confirmations.
THEOREM ConfirmedAbsence == Spec => AbsenceIsConfirmed
<1> DEFINE Confirmed == \A d \in Domains :
             cur[d].accepted = "evidence" /\ cur'[d].accepted = "absence" => streak'[d] >= Needed
<1>1. ASSUME PostureInv, [Next]_vars PROVE Confirmed
  <2> SUFFICES ASSUME NEW d \in Domains, cur[d].accepted = "evidence", cur'[d].accepted = "absence"
               PROVE  streak'[d] >= Needed
    OBVIOUS
  <2>1. CASE Capture
    <3>1. Refreshing(d)
      BY <1>1, <2>1, CaptureFacts
    <3>2. cur'[d].absences >= Needed /\ cur'[d].absences <= streak'[d]
          /\ cur'[d].absences \in Nat /\ streak'[d] \in Nat
      BY <1>1, <2>1, <3>1, CapturedFacts DEF PresentRow
    <3> QED BY <3>2, NeededType
  <2>2. ASSUME NEW i \in Importers, CommitImport(i) \/ Collide(i) PROVE FALSE
    <3>1. \/ cur' = cur
          \/ /\ cur' = Requested(i) /\ imp[i].at = "open"
             /\ imp[i].inserts => cur[imp[i].domain] = NoRow
      BY <2>2 DEF CommitImport, Collide
    <3> QED BY <1>1, <3>1, RequestedFacts
  <2>3. CASE cur' = cur
    BY <2>3
  <2>4. \/ Capture \/ cur' = cur
        \/ \E i \in Importers : CommitImport(i) \/ Collide(i)
    BY <1>1 DEF Next, WorkerStep, NextRound, BeginRefresh, Resolve, Expire, Ask, Crash, vars
  <2> QED BY <2>1, <2>2, <2>3, <2>4
<1>2. PostureInv /\ PostureInv' /\ [Next]_vars => [Confirmed]_vars
  BY <1>1
<1>3. []PostureInv /\ [][Next]_vars => [][Confirmed]_vars
  BY <1>2, PTL
<1> QED BY <1>3, AlwaysPosture DEF Spec, AbsenceIsConfirmed

\* A request that was made while its domain was not being refreshed stays in
\* its row, through other requests, lookups of other domains, collisions and
\* restarts, until a lookup of the domain begins, and no round passes it over.
THEOREM OwedStaysRequested == Spec => [](\A d \in owed : ~LeftAlone(cur[d]) /\ ~Refreshing(d))
<1>1. PostureInv => \A d \in owed : ~LeftAlone(cur[d]) /\ ~Refreshing(d)
  BY DEF PostureInv, PendingInv, LeftAlone
<1> QED BY <1>1, AlwaysPosture, PTL

\* Every variable holds a value of its type; a round is within its limit and takes
\* no domain twice, and a domain with a baseline has been looked up.
THEOREM TypeCorrect == Spec => []TypeOK
<1>1. ASSUME PostureInv, TypeInv PROVE TypeOK
  <2>1. ASSUME NEW d \in Domains, cur[d] # NoRow
        PROVE  cur[d] \in [requested : 0..MaxImports, accepted : {"none", "evidence", "absence"},
                           absences : 0..Needed]
    <3>1. cur[d] \in PresentRow /\ cur[d].requested <= MaxImports /\ cur[d].absences <= Needed
      BY <1>1, <2>1 DEF PostureInv, Types, RowType, TypeInv, BoundsInv
    <3>2. MaxImports \in Nat /\ Needed \in Nat
      BY PostureAssumption, NeededType
    <3> QED BY <3>1, <3>2 DEF PresentRow
  <2>2. worker.at \in {"next", "lookup", "capture"} /\ imports \in 0..MaxImports
    BY <1>1, PostureAssumption DEF PostureInv, Types, WorkerType, TypeInv, BoundsInv
  <2> QED BY <1>1, <2>1, <2>2
       DEF TypeOK, TypeInv, BoundsInv, RoundInv, DoneInv, PostureInv, PendingInv
<1> QED BY <1>1, AlwaysTypes, PTL

\* While a request waits for a lookup, every round begins with a domain that was
\* asked for, whatever the limit: the order of _candidates lets no baseline and no
\* staleness go before it, and with a limit of one the round is that domain.
THEOREM AskedComeFirst ==
  Spec => [][NextRound /\ owed # {} => cur[Head(worker'.todo)].requested # 0]_vars
<1>1. ASSUME PostureInv, TypeInv, NextRound, owed # {}
      PROVE  cur[Head(worker'.todo)].requested # 0
  <2>1. PICK order \in SetToSeqs(Domains) :
          /\ \A i, j \in DOMAIN order : i < j => Before(order[i], order[j])
          /\ worker' = [worker EXCEPT !.todo = Batch(order)]
    BY <1>1 DEF NextRound
  <2>2. PICK d \in Domains : cur[d].requested # 0
    BY <1>1 DEF PostureInv, PendingInv
  <2>3. worker'.todo = Batch(order)
    BY <1>1, <2>1 DEF PostureInv, Types, WorkerType
  <2>4. Head(worker'.todo) = order[1]
    BY <1>1, <2>2, <2>3, RoundFacts
  <2>5. order \in Seq(Domains) /\ \E j \in DOMAIN order : order[j] = d
    BY PostureAssumption, Arrangement
  <2>6. PICK j \in DOMAIN order : order[j] = d
    BY <2>5
  <2>7. DOMAIN order = 1..Len(order) /\ Len(order) \in Nat /\ order[1] \in Domains
    BY <2>5, <2>6, LenProperties, ElementOfSeq
  <2>8. CASE j = 1
    BY <2>2, <2>4, <2>6, <2>8
  <2>9. CASE j # 1
    <3>1. Before(order[1], d)
      BY <2>1, <2>6, <2>7, <2>9
    <3>2. cur[order[1]].requested \in Nat /\ cur[d].requested \in Nat
      BY <1>1, <2>2, <2>7, RowFacts DEF PostureInv, Types, RowType, PresentRow
    <3> QED BY <2>2, <2>4, <3>1, <3>2 DEF Before, AskedFirst
  <2> QED BY <2>8, <2>9
<1>2. PostureInv /\ TypeInv /\ [Next]_vars =>
        [NextRound /\ owed # {} => cur[Head(worker'.todo)].requested # 0]_vars
  BY <1>1
<1> QED BY <1>2, AlwaysTypes, PTL DEF Spec

\* Where a domain stands in done says which domain it is.
LEMMA PositionFacts ==
  ASSUME TypeInv
  PROVE  /\ \A d : Completed(d) => Position(d) \in Nat /\ done[Position(d)] = d
         /\ \A d, e : Completed(d) /\ Completed(e) /\ Position(d) = Position(e) => d = e
<1>1. DOMAIN done \subseteq Nat
  BY LenProperties DEF TypeInv, DoneInv
<1>2. ASSUME NEW d, Completed(d) PROVE Position(d) \in DOMAIN done /\ done[Position(d)] = d
  BY <1>2, Zenon DEF Completed, Position
<1> QED BY <1>1, <1>2

\* The three columns of the ORDER BY of _candidates, with their NULLs, and the id
\* order the domains totally in every state: what a round takes is determined, whatever
\* its limit, and no two domains can each be put behind the other for ever.
THEOREM RoundsAreOrdered ==
  Spec => [](\A d, e, f \in Domains :
               /\ ~Before(d, d)
               /\ d # e => Before(d, e) \/ Before(e, d)
               /\ Before(d, e) /\ Before(e, f) => Before(d, f))
<1> DEFINE Ordered == \A d, e, f \in Domains :
                        /\ ~Before(d, d)
                        /\ d # e => Before(d, e) \/ Before(e, d)
                        /\ Before(d, e) /\ Before(e, f) => Before(d, f)
<1>1. PostureInv /\ TypeInv => Ordered
  <2> SUFFICES ASSUME PostureInv, TypeInv, NEW d \in Domains, NEW e \in Domains, NEW f \in Domains
               PROVE  /\ ~Before(d, d)
                      /\ d # e => Before(d, e) \/ Before(e, d)
                      /\ Before(d, e) /\ Before(e, f) => Before(d, f)
    OBVIOUS
  <2>1. \A c \in Domains : c \in Nat /\ cur[c].requested \in Nat
    BY PostureAssumption, RowFacts DEF PostureInv, Types, RowType, PresentRow
  <2>2. /\ \A c \in Domains : Completed(c) => Position(c) \in Nat
        /\ \A c, g \in Domains : Completed(c) /\ Completed(g) /\ Position(c) = Position(g) => c = g
    BY PositionFacts
  <2>3. \A c, g \in Domains : StalerFirst(c, g) <=>
          Completed(g) /\ (~Completed(c) \/ Position(c) < Position(g))
    BY DEF StalerFirst
  <2>4. \A c, g \in Domains : Before(c, g) <=>
          \/ cur[c].requested > cur[g].requested
          \/ cur[c].requested = cur[g].requested /\ StalerFirst(c, g)
          \/ /\ cur[c].requested = cur[g].requested
             /\ ~StalerFirst(c, g) /\ ~StalerFirst(g, c) /\ c < g
    BY <2>1, <2>2, <2>3 DEF Before, AskedFirst
  <2>5. ~Before(d, d)
    BY <2>1, <2>2, <2>3, <2>4
  <2>6. d # e => Before(d, e) \/ Before(e, d)
    BY <2>1, <2>4
  <2>7. Before(d, e) /\ Before(e, f) => Before(d, f)
    BY <2>1, <2>2, <2>3, <2>4
  <2> QED BY <2>5, <2>6, <2>7
<1> QED BY <1>1, AlwaysTypes, PTL
=============================================================================

----------------------------- MODULE DnsPosture -----------------------------
(***************************************************************************)
(* How DMARQ keeps DNS evidence about its domains.  Importers ask for a    *)
(* refresh in the transaction that stores a report.  One worker takes the  *)
(* domains in rounds, resolves them over the network, and publishes what   *)
(* it finds as a snapshot; only a snapshot that is safe becomes the        *)
(* accepted one.  A failed or empty lookup is answered from cached         *)
(* evidence for a day.                                                     *)
(*                                                                         *)
(* Importers run in threads of their own: between any two steps of the     *)
(* worker they may read or commit.  The worker's session keeps the row it  *)
(* has loaded until it commits, and it commits in the middle of a refresh  *)
(* only when the cache takes a new answer.                                 *)
(***************************************************************************)
EXTENDS Naturals, FiniteSets, SequencesExt

CONSTANTS
  Domains,        \* the active domains, numbers in the order of their ids
  Importers,      \* the importers that may run at the same time
  Limits,         \* the values of DNS_POSTURE_REFRESH_LIMIT to consider
  Confirmations,  \* DNS_POSTURE_ABSENCE_CONFIRMATIONS
  MaxImports,     \* bound on the reports imported
  MaxCrashes      \* bound on restarts of the process

ASSUME PostureAssumption ==
  /\ Domains \subseteq Nat /\ IsFiniteSet(Domains) /\ IsFiniteSet(Importers)
  /\ Limits \subseteq Nat \ {0} /\ Limits # {}
  /\ {Confirmations, MaxImports, MaxCrashes} \subseteq Nat

VARIABLES
  limit,    \* how many domains a round takes
  cur,      \* [Domains -> the row of dns_posture_current, or NoRow]
  done,     \* the domains in the order of their completed_at
  recent,   \* the domains with cached evidence that is not a day old
  worker,   \* the worker's round and the refresh it is at
  imp,      \* [Importers -> the transaction each has open]
  imports,  \* how many reports were imported; dates the requests
  crashes,  \* how often the process restarted
  streak,   \* history: [Domains -> how many lookups in a row, the last ones
            \* captured, were answered and found no records]
  owed      \* history: domains with a request, made while they were not being
            \* refreshed, and not looked up since

vars == <<limit, cur, done, recent, worker, imp, imports, crashes, streak, owed>>

Needed == IF Confirmations < 2 THEN 2 ELSE Confirmations

NoRow == [requested |-> 0, accepted |-> "no row", absences |-> 0]
NewRow == [requested |-> 0, accepted |-> "none", absences |-> 0]

\* at: what the worker does with Head(todo).  loaded: the row as it was read.
\* fresh: the session has committed since, and reads the row again.
\* ok, evidence: the result of the lookup.
Resting == [at |-> "next", todo |-> <<>>, loaded |-> NoRow, fresh |-> FALSE,
            ok |-> FALSE, evidence |-> FALSE]
NoImport == [at |-> "idle", domain |-> 0, inserts |-> FALSE, asks |-> FALSE, date |-> 0]

-----------------------------------------------------------------------------
Completed(d) == \E i \in DOMAIN done : done[i] = d
Position(d) == CHOOSE i \in DOMAIN done : done[i] = d

\* MUTANT: requests in descending order, but NULLs first.
AskedFirstBug(d, e) ==
  \/ cur[d].requested = 0 /\ cur[e].requested # 0
  \/ cur[e].requested # 0 /\ cur[d].requested > cur[e].requested

\* requested_at descending, NULLs last
AskedFirst(d, e) == cur[d].requested > cur[e].requested

\* completed_at ascending, NULLs first
StalerFirst(d, e) ==
  \/ ~Completed(d) /\ Completed(e)
  \/ Completed(d) /\ Completed(e) /\ Position(d) < Position(e)

Before(d, e) ==
  \/ AskedFirst(d, e)
  \/ ~AskedFirst(e, d) /\ (StalerFirst(d, e) \/ (~StalerFirst(e, d) /\ d < e))

\* MUTANT: the limit is not applied.
BatchBug(s) == s

Batch(s) == SubSeq(s, 1, IF limit < Len(s) THEN limit ELSE Len(s))

\* MUTANT: whatever has been looked up once is left alone.
LeftAloneBug(row) == row # NoRow /\ row.requested = 0

\* A baseline that is accepted is looked up again only when asked for.
LeftAlone(row) == row.requested = 0 /\ row.accepted \in {"evidence", "absence"}

Refreshing(d) == worker.at \in {"lookup", "capture"} /\ Head(worker.todo) = d

Finished == [Resting EXCEPT !.todo = Tail(worker.todo)]

Init ==
  /\ limit \in Limits
  /\ cur \in [Domains -> {NoRow, [NewRow EXCEPT !.accepted = "evidence"]}]
  /\ done \in SetToSeqs({ d \in Domains : cur[d] # NoRow })
  /\ recent = {}
  /\ worker = Resting
  /\ imp = [i \in Importers |-> NoImport]
  /\ imports = 0 /\ crashes = 0
  /\ streak = [d \in Domains |-> 0]
  /\ owed = {}

\* _candidates: the round is fixed before its first refresh.
NextRound ==
  /\ worker.at = "next" /\ worker.todo = <<>>
  /\ \E order \in SetToSeqs(Domains) :
       /\ \A i, j \in DOMAIN order : i < j => Before(order[i], order[j])
       /\ worker' = [worker EXCEPT !.todo = Batch(order)]
  /\ UNCHANGED <<limit, cur, done, recent, imp, imports, crashes, streak, owed>>

\* refresh_domain_dns_posture up to its lookup
BeginRefresh ==
  /\ worker.at = "next" /\ worker.todo # <<>>
  /\ LET d == Head(worker.todo) IN
       IF LeftAlone(cur[d])
       THEN worker' = Finished /\ UNCHANGED owed
       ELSE worker' = [worker EXCEPT !.at = "lookup", !.loaded = cur[d]] /\ owed' = owed \ {d}
  /\ UNCHANGED <<limit, cur, done, recent, imp, imports, crashes, streak>>

\* resolve_domain_dns_cached: the first resolver that has records answers; all
\* answer that there are none; some fail; all fail.  Without records, cached
\* evidence that is recent enough is the answer.
Resolve(answer) ==
  LET d == Head(worker.todo)
      found == answer \in {"found", "fallback"}
      stale == ~found /\ d \in recent IN
  /\ worker.at = "lookup"
  /\ worker' = [worker EXCEPT !.at = "capture",
                              !.ok = stale \/ answer \in {"found", "empty"},
                              !.evidence = stale \/ found,
                              !.fresh = ~stale /\ answer # "failed"]
  /\ recent' = IF found THEN recent \cup {d} ELSE recent
  /\ UNCHANGED <<limit, cur, done, imp, imports, crashes, streak, owed>>

\* The row that capture_dns_posture_snapshot works on: what the session has
\* loaded, unless it has committed or there was no row to load.
Known(d) ==
  LET now == IF cur[d] = NoRow THEN NewRow ELSE cur[d] IN
  IF worker.fresh \/ worker.loaded = NoRow THEN now ELSE worker.loaded

\* MUTANT: evidence does not interrupt a series.
AbsencesBug(row) ==
  IF ~worker.ok THEN 0
  ELSE IF worker.evidence \/ row.absences >= Needed THEN row.absences
  ELSE row.absences + 1

\* absence_observations, counted up to what is needed
Absences(row) ==
  IF ~worker.ok \/ worker.evidence THEN 0
  ELSE IF row.absences < Needed THEN row.absences + 1 ELSE row.absences

Accepted(row) ==
  CASE ~worker.ok -> row.accepted
    [] worker.evidence -> "evidence"
    [] row.accepted = "none" \/ Absences(row) >= Needed -> "absence"
    [] OTHER -> row.accepted

\* capture_dns_posture_snapshot: one transaction.  A column is written when it
\* differs from the row the session knows, so a request that has come in is
\* erased when the session knew of one, and kept when it knew of none.
Capture ==
  LET d == Head(worker.todo)  row == Known(d) IN
  /\ worker.at = "capture"
  /\ cur' = [cur EXCEPT ![d] =
               [requested |-> IF row.requested # 0 THEN 0 ELSE @.requested,
                accepted |-> Accepted(row), absences |-> Absences(row)]]
  /\ done' = Append(RemoveFirst(done, d), d)
  /\ streak' = [streak EXCEPT ![d] = IF worker.ok /\ ~worker.evidence
                                     THEN IF @ < Needed THEN @ + 1 ELSE @ ELSE 0]
  /\ worker' = Finished
  /\ UNCHANGED <<limit, recent, imp, imports, crashes, owed>>

\* Cached evidence is a day old.
Expire(d) ==
  /\ d \in recent
  /\ recent' = recent \ {d}
  /\ UNCHANGED <<limit, cur, done, worker, imp, imports, crashes, streak, owed>>

-----------------------------------------------------------------------------
\* save_parsed_report calls request_dns_posture_refresh: a request that is
\* pending and not old, for the same selectors, will do.
Ask(i, d) ==
  /\ imp[i].at = "idle" /\ imports < MaxImports
  /\ imports' = imports + 1
  /\ \E asks \in BOOLEAN :
       /\ cur[d].requested = 0 => asks
       /\ imp' = [imp EXCEPT ![i] = [at |-> "open", domain |-> d, inserts |-> cur[d] = NoRow,
                                     asks |-> asks, date |-> imports + 1]]
  /\ UNCHANGED <<limit, cur, done, recent, worker, crashes, streak, owed>>

\* The importer's transaction commits, unless the row it inserts is there.
Requested(i) ==
  [cur EXCEPT ![imp[i].domain] =
     IF imp[i].inserts THEN [NewRow EXCEPT !.requested = imp[i].date]
     ELSE IF imp[i].asks THEN [@ EXCEPT !.requested = imp[i].date] ELSE @]

CommitImport(i) ==
  LET d == imp[i].domain IN
  /\ imp[i].at = "open"
  /\ imp' = [imp EXCEPT ![i] = NoImport]
  /\ IF imp[i].inserts /\ cur[d] # NoRow
     THEN UNCHANGED <<cur, owed>>
     ELSE /\ cur' = Requested(i)
          /\ owed' = IF imp[i].asks /\ ~Refreshing(d) THEN owed \cup {d} ELSE owed
  /\ UNCHANGED <<limit, done, recent, worker, imports, crashes, streak>>

\* The worker's INSERT waits for the importer's, and fails when that commits.
Collide(i) ==
  LET d == imp[i].domain IN
  /\ worker.at = "capture" /\ imp[i].at = "open" /\ imp[i].inserts /\ cur[d] = NoRow
  /\ Head(worker.todo) = d
  /\ cur' = Requested(i)
  /\ imp' = [imp EXCEPT ![i] = NoImport]
  /\ worker' = Finished
  /\ UNCHANGED <<limit, done, recent, imports, crashes, streak, owed>>

\* The process restarts: open transactions are gone.
Crash ==
  /\ crashes < MaxCrashes /\ crashes' = crashes + 1
  /\ worker' = Resting
  /\ imp' = [i \in Importers |-> NoImport]
  /\ UNCHANGED <<limit, cur, done, recent, imports, streak, owed>>

Answers == {"found", "fallback", "empty", "partial", "failed"}

WorkerStep ==
  NextRound \/ BeginRefresh \/ Capture \/ \E answer \in Answers : Resolve(answer)

Next ==
  \/ WorkerStep \/ Crash
  \/ \E d \in Domains : Expire(d)
  \/ \E i \in Importers : CommitImport(i) \/ Collide(i) \/ \E d \in Domains : Ask(i, d)

Spec == Init /\ [][Next]_vars

\* scheduled_dns_posture_refresh never stops, and a lookup ends.
FairSpec == Spec /\ WF_vars(WorkerStep)

-----------------------------------------------------------------------------
\* Every variable holds a value of its type; a round is within its limit and
\* takes no domain twice.
TypeOK ==
  /\ limit \in Limits
  /\ \A d \in Domains :
       cur[d] = NoRow \/ cur[d] \in [requested : 0..MaxImports,
                                     accepted : {"none", "evidence", "absence"},
                                     absences : 0..Needed]
  /\ recent \subseteq Domains /\ owed \subseteq Domains
  /\ worker.at \in {"next", "lookup", "capture"}
  /\ Len(worker.todo) <= limit /\ IsInjective(worker.todo)
  /\ worker.at # "next" => worker.todo # <<>>
  /\ \A d \in Domains : cur[d] # NoRow /\ cur[d].accepted # "none" => Completed(d)
  /\ imports \in 0..MaxImports /\ crashes \in 0..MaxCrashes

\* Evidence gives way to its absence only after the confirmations that the
\* configuration asks for: that many lookups in a row answered that there are
\* no records, and neither a failure nor a cached answer came between them
\* (DNS_POSTURE_ABSENCE_CONFIRMATIONS).
AbsenceIsConfirmed ==
  [][\A d \in Domains :
       cur[d].accepted = "evidence" /\ cur'[d].accepted = "absence" => streak'[d] >= Needed]_vars

\* A request that is made while its domain is not being refreshed is followed
\* by a lookup of the domain once no more reports come in, also with a limit of
\* one and through restarts.  (The newest request goes first: a steady stream of
\* reports about other domains can keep an old one waiting.)
RequestIsServed == \A d \in Domains : (d \in owed) ~> (d \notin owed)

\* A domain without a baseline is looked up again and again until it has one,
\* if a round takes every domain: a failed lookup is not the last.
KeepsTrying ==
  \A d \in Domains :
    limit >= Cardinality(Domains) =>
      []<>(cur[d].accepted \in {"evidence", "absence"} \/ Refreshing(d))
=============================================================================

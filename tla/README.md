# DMARQ in TLA+

DMARQ collects DMARC, forensic and TLS reports from mailboxes, uploads and
webhooks, stores them, interprets them into mail-health assessments and
notifies the people who run the domains.  This directory models the parts of it
that keep state across threads, transactions and restarts: TLA+ modules,
configurations for TLC, and proofs for TLAPS.

Paths below are relative to `src/backend/app` unless they begin with `docs/`.

## The system

One Python process serves the API on an event loop (FastAPI, `async` handlers
that call a synchronous SQLAlchemy session), runs API background tasks and the
fetches of importers in a thread pool, and runs schedulers as coroutines: one
whose cycle polls the enabled mail sources, runs due backfill jobs, evaluates
Calm Watch, sends summaries and delivers webhooks (`main.py:scheduled_imap_polling`),
one that refreshes DNS posture, one that projects reports into counters.  There
is one process (`entrypoint.sh` starts one uvicorn worker, the chart fixes the
number of replicas to one), so a handler that awaits nothing between its first
read and its commit is one step; interleavings come from awaits, from the threads,
and from parties outside: operators, providers, mailboxes, Stripe.  The database
is PostgreSQL or SQLite; what survives a restart is a row.

Three facts about the session (`core/database.py`) shape every model.  A commit
ends the locks of its transaction and expires every loaded row, so a row is read
again when it is next touched.  An UPDATE writes only the columns whose value
differs from the one that was read, so two writers of one row are merged column
by column.  `FOR UPDATE` locks on PostgreSQL and does nothing on SQLite.

| Component | State | Operations | Hard behaviour | What makes it correct |
| --- | --- | --- | --- | --- |
| Backfill jobs (`services/mail_source_backfill_worker.py`, `api/api_v1/endpoints/mail_sources.py`) | job row: status, attempts, page cursor, retry time | create, cancel, retry, delete, toggle; claim, page batch, complete, fail | two kinds of worker, locks that end at the claim, merged columns, crashes in mid-run | one run at a time unless an operator asked for more; no hole in a completed window; every job settles |
| Mail-health incidents (`services/mail_health_incidents.py`, `services/calm_watch.py`) | incident row: status, material state, last notification | record assessment, resolve, supersede, acknowledge, snooze, record result | decision committed before the send; manual and scheduled evaluation at once | every actionable incident is told, and once per change |
| Webhook outbox (`services/webhook_events.py`, `api/api_v1/endpoints/webhooks.py`) | delivery row: status, attempts, next attempt | enqueue, deliver, test, process, enable, disable | no claim, send before commit, idempotency key | every event is accepted or its attempts are used up; a row says what happened |
| Report ingestion and source projection (`services/report_persistence.py`, `services/source_read_projection.py`, `services/gmail_client.py`, `services/microsoft_graph_client.py`, `services/report_store.py`) | report rows, daily sender counters, ingested message ids, reports in memory | poll, import, backfill batch, upload, project, delete, hydrate | memory updated before the commit, no unique key on reports, ids overwritten, an advisory lock that deletions ignore | a message is recorded only with its report; counters match the reports; everything is projected |
| DNS changes (`api/api_v1/endpoints/domains.py`, `services/dns_provider_writes.py`, `services/dns_public_verification.py`, `services/cloudflare_dns.py`) | evidence, zone (at the provider), record history, audit | preview, confirm, apply, read back, verify, record | others write the zone; provider and resolvers answer late or not at all | nothing is removed that was not reviewed; the rollback evidence is right |
| DNS posture (`services/dns_posture_refresh.py`, `services/dns_posture_snapshots.py`, `services/dns_resolver.py`) | current row, request, absences, cache | request, round, lookup, capture | a request during a lookup; failures, empty answers and cached ones alternate | absence is confirmed; requests are served |
| Memberships and billing (`api/api_v1/endpoints/memberships.py`, `organizations.py`, `services/organizations.py`, `services/stripe_billing.py`, SCIM, sign-in) | subscriptions, entitlements, memberships, billing events | Stripe events, provider calls, put, invite, remove | events late, repeated, out of order; several ways to a seat | what limits an organization follows its subscriptions; seats stay within it |
| Alerts and summaries (`services/alert_history.py`, `services/summary_notifications.py`, `services/notifications.py`) | alert rows, last message, day and week sent | evaluate, send, record | two evaluations at once; one message per interval; crash after a send | a summary goes out once; the history is what was found |
| Health snapshots (`services/health_snapshot_refresh.py`) | materialised rows | refresh, read | a limited round | every domain gets its turn |
| Remediation queue and dispatch (`services/remediation_queue.py`, `services/remediation_dispatch.py`) | operators' markers in the audit log, permanent event keys | mark, dispatch | history that is cut off | a dispatch needs its acknowledgement |
| Parsing, resolution, scoring, sign-in flows, demo, front end | none of their own | pure functions and I/O | - | - |

`PROJECT.json` lists every component with its files and says which are
modelled, and every hazard at its line.

## Modules

| Module | What it is | Largest instance |
| --- | --- | --- |
| `BackfillLifecycle` | what one backfill job promises, in atomic steps | - |
| `BackfillJob`, `MCBackfillJob` | backfill jobs: rows, locks, workers, API calls, crashes | 220,000 states |
| `MailHealthIncidents`, `MCMailHealthIncidents` | incidents and Calm Watch | 1.2 million |
| `WebhookDelivery` | what the outbox promises of one delivery, in atomic steps | - |
| `WebhookOutbox` | delivery rows and two senders (its instance is `Outbox.cfg`) | 605,000 |
| `ReportImport`, `MCReportImport` | importers, uploads, projection worker, deletions, memory | 225,000 |
| `DnsChange`, `MCDnsChange` | a reviewed change of one record, through four kinds of connector | 1.3 million |
| `DnsPosture`, `MCDnsPosture` | evidence, its refresh and its acceptance | 310,000 |
| `Tenancy`, `MCTenancy` | subscriptions, entitlements, memberships and seats | 1.3 million |
| `AlertSummaries`, `MCAlertSummaries` | alert history, summaries and the limit on messages | 4.8 million |
| `BackfillJobProofs`, `MailHealthIncidentsProofs`, `WebhookOutboxProofs`, `ReportImportProofs`, `DnsChangeProofs`, `DnsPostureProofs`, `TenancyProofs`, `AlertSummariesProofs` | theorems | - |

Definitions keep the names of the code where they can.  A definition whose name
ends in `Bug` is what the definition after it would be with a plausible mistake
in the code.  No other definition uses it; put in the place of the right one, it
makes the property `PROJECT.json` names under "mutants" fail, which is how we
know that the property says something about the code.  "History" variables and
fields record what happened for the properties; no action reads them.

### BackfillJob

An action is one database transaction.  A worker (`worker[w]`) is the scheduler
thread or a thread of the API's task pool and walks through the code of
`run_mail_source_backfill_job_by_id` and `run_due_mail_source_backfills`:

| Step | Code |
| --- | --- |
| `SchedulerSelect`, `TaskSelect`, `TaskSkip` | the two `SELECT ... FOR UPDATE` queries and their skip paths |
| `Claim` | `_claim_job` and its commit, which ends the lock and expires the row |
| `Load`, `Reload` | the row being read again after a commit |
| `Continue`, `Complete`, `Fail` | `_mark_queued_for_next_page`, `_mark_success`, `_mark_failure` with their commit |
| `RowGone` | a run whose row was deleted |
| `RunEscapes` | the `except` block of a run raising again: no outcome is written |
| `Create`, `CallRead`/`CallWrite`, `DeleteSource`, `ToggleSource` | the API handlers; cancel and retry are a read and a write with a worker's commit possible in between |
| `RetryDue` | `next_retry_at` passing |
| `Crash` | the process dying and starting again |

`Update` is SQLAlchemy's partial UPDATE: it merges an outcome into the row
through the snapshot (`seen`) of the writer.  The page cursor is the number of
the next page batch; `Batches[j]` is the number of batches the window of job j
has.  Left out: result counters, error texts, timestamps other than
`next_retry_at`, the arithmetic of windows, and what a batch imports.

### MailHealthIncidents

An evaluation (`eval[e]`) is made by the scheduler or by the API call
`POST .../mail-health/incidents/evaluate`, and is split where somebody else may
commit: `Assess` (read the evidence), `Lookup` (find the row), then `Create`,
`Update` or `Close` (decide and commit).  Only the scheduler goes on to
`Enqueue` (the webhook event), `Send` and `RecordResult`, each with a commit of
its own.  `ShouldNotify` is `_should_notify`; `Resolve` is superseding;
`OperatorAction`, `SnoozeEnds`, `SetPosture` and `NewEvidence` are the
environment.  An incident is known by its domain and outcome.  A *version* of an
incident is its key with the time of its last material change; the history
variables record what happened to versions.  Left out: what the material state
consists of, the wording of messages, the hourly limit of notifications.

### WebhookOutbox

`Publish`/`Enqueue` is `enqueue_webhook_event`: the enabled endpoints are read
once, then one row per endpoint is inserted and committed, and the unique index
refuses a second one.  `Pick` is the query of `deliver_due_webhooks`, used by
`SchedulerPick`, `ProcessCall` and `PickForTest` with their limits and filters.
`Send` and `Record`, or `Abandon`, are `deliver_webhook_delivery`.  The first row
of a batch is used as the query read it; the commit of each row expires the
others, so a later one is read again just before it is sent, and nothing looks at
its status then.  The order of `next_attempt_at` among rows that are due is the
order in which they became due; `RetryDue` is time passing.  `Phase` and `Counted`
map a row to a delivery of `WebhookDelivery`: it waits, is attempted, is accepted (answered with 2xx
and not yet recorded) and comes to rest as delivered, failed or abandoned; a row that
is `excused`, because two senders had it in hand or a crash forgot its answer, is
`disturbed` there, and nothing is promised of it.  Left out: payloads
and signatures, the counters of an endpoint, and creating or editing endpoints
other than enabling and disabling.

### ReportImport

`tx[p]` is the open transaction of an importer, an upload or the projection
worker.  A batch of an importer is one transaction: `StartImport` (load the ids,
list the mailbox), `Look` or `FetchFails` for each message, `Insert` or `Refuse`
(`save_parsed_report` with the policy the domain takes over, or the volume limit of
the plan), `Project` (`materialize_source_projection` under the advisory lock, which
the transaction keeps) and `Commit` with the ids.  Other transactions see nothing of
it before, but the in-memory store does (`Remembered`): that is why a rolled back
report may stay in memory (`fate.shadowed`).  `BreaksOff` is an exception in a
backfill, whose handler commits the reports stored so far without their ids; the
other importers roll back.

A flush sends what the session has changed to the database row by row
(`FlushDomain`, `FlushCounter`), at the next report of the batch and at its end, and
from then on the row is locked.  `BeginDeletion`, `DropCounter` for each counter,
`ResetRows` and `CommitDeletion` are `delete_persisted_report`, which waits for the
counters that importers have flushed and locks those it has dropped.  A counter row
has a generation, so that a deleted and recreated row is another row for a pending
UPDATE (`Fits`).  `Deadlock` is PostgreSQL ending one of the two circles
(`MeetsDeletion`, `Meets`).

Which of these can overlap follows from where they run: the poll and
backfill jobs are in threads (`Threads`); uploads, deletions, reloads, the projection
worker and some imports by hand are synchronous between two awaits of the event loop, so
at most one of them is under way (`LoopFree`), and `SKIP LOCKED` (`Pick`) never has
anything to skip.  Left out: forensic and TLS reports, IMAP's read flags, import
history, the creation of domains; the sums of a counter row are one number.

### DnsChange

A request walks through the handler: `Plan` (from the evidence, which is cached),
`Preview` or `PrepareWrite` (`prepare_mutation` on a fresh listing, with what the
client reviewed in `expect`), `Write` (`AfterWrite`: UPSERT of the set for Route 53
and `set_records` for a record that Hetzner has; else a new record, or an update by
id), `ReadBack`, `Concluded`, `List` and `Sync` (the change history of Cloudflare's
records), and for a change of type `AskResolver` and `ResolversAnswered`.
A listing of Cloudflare is read page by page with an await between the pages: it
begins (`BeginListing`, the records as they were go into `first`) and ends, and if
the zone was changed meanwhile, here or at another name (`EditElsewhere`), it is
`stale` and may have missed records or have them twice (`Listings`).
`ForeignEdit`, `Propagate`, `ProviderFails` and `Crash` are the world.  The audit
entry is the outcome `recorded`.  `Propagate` moves a resolver only while a change
of type waits for it, since nobody looks otherwise.  Left out: record types other
than DMARC's, value overrides, partial expectations, the check that the named
provider is the zone's, prerequisites other than ownership, and demo mode.

### DnsPosture

The worker takes `NextRound` (`_candidates`), then for each domain `BeginRefresh`,
`Resolve` (`resolve_domain_dns_cached` with every kind of answer, and the cached
evidence a failed or empty one falls back on) and `Capture`
(`capture_dns_posture_snapshot`).  An importer's `Ask` and `CommitImport` are
`request_dns_posture_refresh` inside `save_parsed_report`.  What `Capture` writes
depends on the row its session knows (`Known`): the cache's commit in between
makes it read the row again.  `Collide` is both inserting the first row.  In one
process the advisory lock of a round is always free, so it is left out, as are
the contents of evidence and the history rows.

### Tenancy

A handler awaits nothing and is one step: `Apply` is `apply_stripe_event` on one
of the events in `log`, in any order and again; `Provision` and `ReportState` are
the provider's calls; `Put`, `Invite` and `Remove` the membership endpoints of a
workspace or an organization; `ScimWrite`, `ScimSetActive` and `SignIn` the others
who give and take seats.  `Ensured` and `Withdrawn` are the two halves of
`_set_subscription_entitlements` for the entitlement "users".  `late` records which
subscriptions had an event applied after a later one.  Left out: home workspaces
(`user.workspace_id`), roles, the other entitlements, organizations with several
workspaces, checkout sessions.  "Inactive" accounts exist from the start only.

### AlertSummaries

`actor["scheduler"]` is a cycle of `send_due_summaries`, `actor["api"]` a call of
an administrator (check, send, or a summary by hand).  An evaluation is `Evaluate`
(the rules), `Look` (the rows of what was found), `List` (the active rows) and
`Record` or `RecordFails`; then `Enqueue` for the calls, `CheckLimit`, `Accept` or
`Refuse`, `Stamp` (`last_sent_at`) and, for a scheduled summary, `Mark`; either of
these two commits may fail (`RecordOfMessageFails`), which leaves a message nobody
knows of.  A tick is a part of `min_send_interval_minutes`, which is `Interval` ticks:
the limit slides with the last message and is independent of ticks, cycles and days.
`UnlimitedMessage` is Calm Watch or a test message.  `today` counts the cycles of
the day that had a chance: they began with the limit free, and nothing else sent,
failed or crashed, and midnight did not pass, until they ended.  The rules read their
data by several queries, which are one step here.

## What the runs check

| Run | Instance | What it shows |
| --- | --- | --- |
| `backfill_operators` | PostgreSQL, one job of two batches, the scheduler and two task threads, three operator calls out of cancel, retry, delete and toggle, one crash or escaped exception | types; runs need permits; no orphaned `running` row |
| `backfill_scheduler` | two jobs, the scheduler and a task thread, nobody interferes | the transactions implement `BackfillLifecycle` |
| `backfill_sqlite` | no row locks, two operator calls | even when one job is claimed twice: no hole in a completed window, and it settles |
| `backfill_cancel_overwritten` | a scheduler, one operator | **expected to fail**: `docs/reference/api.md:386` says the call cancels a running job; the run goes on and writes its own status over the cancellation |
| `incident_races` | scheduler and API, two material states, two changes of evidence | types; nothing is told twice, announced twice or forgotten; a new incident is told at last |
| `incident_postures` | an actionable outcome and another, three postures, an operator, a snooze, three changes of evidence, a crash between any two commits | nothing forgotten |
| `webhook_outbox` | an event and a test delivery, the scheduler and an API sender, two toggles, one processing call, one crash, three attempts | delivered means accepted; failed means tried three times; accepted once unless a crash or an overlap intervened; every delivery comes to rest |
| `report_import` | two messages, a poll, a backfill, an upload, the worker, one report from before the counters, and two of: import, upload, deletion, reload, fault | counters match; an ingested message is accounted for; nobody waits in a circle but the two PostgreSQL ends; every message is handled and every report projected |
| `dns_change` | three requests through each connector, two resolvers, a foreign edit, a fault | only what was reviewed is lost; rollback evidence is right; verified means public; the history fails only when listings are processed out of order or read while the zone changes |
| `dns_posture` | two domains, two importers, rounds of one or two, two reports, a restart | absence is confirmed; a request is served; a domain without a baseline is tried again |
| `tenancy` | two organizations, two users, two Stripe subscriptions of one organization and a provider's of the other, three operations | repeated events change nothing; an ended subscription grants nothing; an organization's own calls keep to its limit |
| `alert_summaries` | two alerts, two summaries, a limit of two ticks, days of four, six ticks, two calls, a fault | once per day or week, and once more for a crash or failed commit; neither summary waits for more than the other; history follows evaluations |

`CHECK_DEADLOCK FALSE` is set where the system may rightly stop: all jobs
settled, the evidence bound reached, every delivery final, every request done,
the last tick or operation reached.

### Bounds, and why they are enough

* Backfill: two task threads and one scheduler are the least number with which
  a run, a second run beside it and a third claim meet.  Three calls allow
  cancel-retry-cancel and retry-after-retry.  A window of two batches has a first
  and a last one, and `MaxAttempts` 2 has a failure that is retried and one that
  is final.  One fault is enough to lose a run; a second job matters only for the
  order in which the scheduler takes them, which `backfill_scheduler` has.
* Incidents: in `incident_races` two processes race and nobody else acts
  (`MaxActions` and `MaxCrashes` are 0), in `incident_postures` there is one and the
  world acts; both at once are covered by the proofs alone.  Two changes of evidence
  make an incident change and go away; three make it come back.  Two material states are needed for a change, two outcomes
  for superseding and for the difference between postures.
* Outbox: two keys of one endpoint (an event and a test) are the least with which
  one row can stand before another; a limit of one makes the scheduler leave a row
  behind, a call of two makes a batch whose second row is read again.  Three
  attempts leave room for a lost count between the first and the last.
* Imports: two importers and an upload of the same report are the three ways to
  store it twice; two messages make ids that are overwritten and one transaction
  that stores a second report after the first; two reports of one cell share a
  counter.  `MaxTotal` 2 is a deletion that meets an import, or either with a fault;
  the poll is not counted.  A fault in the middle of a deletion that meets an import is
  left to the proofs.
* DNS changes: a request that previews, the one that applies it, and one more that
  gets between; two record ids, so that a record can be replaced; a content with the
  report mailbox and one without; one foreign edit moves the zone between any two
  calls or pages.
* Posture: a round of one out of two domains leaves one out; two confirmations are
  the least the code accepts; the two reports are requests before, during and after
  a lookup.  Answers are not bounded.
* Tenancy: three operations are the limit and two membership calls, or three events
  delivered in any order (only what Stripe sends is counted, not what arrives).
* Summaries: days of four ticks, the hour at the second, and a limit of two: the
  weekly summary is held back by the daily one and can be sent two ticks later,
  while a message in between holds it back beyond the day.  Two calls move the limit
  once and change the data once.

No state constraint is used: every bound is a guard of the action it bounds.
Symmetry is used only in runs without liveness.

### Fairness

* The scheduler's cycle repeats for ever and catches every error
  (`main.py:442-467`), so its steps are weakly fair: `SchedulerSelect`,
  `Evaluate("scheduler")`, `Notify("scheduler")`, `SchedulerPick`,
  `Deliver("scheduler")`, `StartImport(Scheduler)`.  A thread that has started a run
  goes on.  The projection worker (`Pick`) and the posture worker (`WorkerStep`) are
  loops of the same kind; a lookup ends.
* A transaction of `ReportImport` that has begun goes on (`Continue`), and so does a
  deletion (`Delete`), strongly fair: the advisory lock and row locks are granted in
  the order in which they are asked for.  PostgreSQL ends a deadlock (`Deadlock`,
  weak).
* Time passes: `RetryDue` is weakly fair.
* An API handler that has read goes on to write (`CallWrite`).  No API call is
  ever assumed to be made, and API background tasks have no fairness.
* `NewIncidentIsTold` assumes that a target which is tried again and again accepts
  at last (strong fairness of `Send("scheduler", "accepted")`).  The outbox assumes
  nothing of an endpoint's answers: a delivery that is never accepted fails.
* The safety runs use `Spec`, without fairness; so do all proofs.
  `SummariesKeepUp` is safety: it counts the cycles that found the limit free and
  went undisturbed.

## What is proved

The theorems hold for every value of the constants that satisfies the named
assumptions of the modules (`JobsAssumption`, ..., `IncidentsAssumption`,
`OutboxAssumption`, `ImportAssumption`, `ChangeAssumption`, `PostureAssumption`,
`TenancyAssumption`, `ScheduleAssumption`):
any number of jobs, workers, operators, evaluators, endpoints, events, importers,
organizations, alerts, any schedule and any bounds.

**BackfillJobProofs**

* `TypeCorrect`: `TypeOK` is inductive.  It includes that a stored page cursor
  stays inside the window, which needs that only `Continue` stores one.
* `ClaimsAreExclusive`: with row locks, a claim finds the row as it was selected
  (`ClaimTakesWaitingJob`, which no run checks).  Inductive part:
  `SelectedIsCurrent`, because every other writer is refused by the lock.
* `CompletedWindows`: `CompletedCoversWindow`.  `WindowInv` says that every batch
  before a stored cursor, and before the page a run is about to read, has been
  read by some run; no lock is needed for it.
* `NoOrphans`: `NoOrphanedRunning` is inductive with `TypeOK`: the status column
  of a run's outcome is always written while the row says `running`, because the
  run's snapshot says so too.
* `RunsNeedPermits`: `RunnerPermits`, an inequality between a cardinality and a
  count, with `WorkersHaveJobs` (a worker is only given a job that was
  created) and lemmas on the cardinality of the set of runners.
* `Implementation`: if row locks work and the only calls are toggles
  (`Undisturbed`), `Spec` implements `BackfillLifecycle!Spec`.  The refinement
  mapping needs `RunnerIsCurrent`, that the snapshot of a run is the row itself,
  so that the merge of columns is an assignment.  With a cancel this is false,
  which is the content of `backfill_cancel_overwritten`.

**MailHealthIncidentsProofs**

* `TypeCorrect`: `TypeInv` adds to `TypeOK` that only findings are sent and that
  a sender which has sent holds a result.
* `Announcement`: `AnnouncedOnce`.  A row that is missing has never been announced.
* `ToldOnce`: `TellsOnce`.  A told version (`ToldInv`) is traced by the row
  (notified, not failed), by the evaluation that is about to record it, or by the
  crash; no evaluation decides such a version again.
* `Publication`: `ToldIsPublished`, which no run lists: an incident is never told
  without its webhook event.  An evaluation past `Enqueue` has its event.
* `NoVersionForgotten`: `NothingForgotten`.  The version a row shows is carried by
  an evaluation, accounted for in a history variable, or refused on the row.

The step lemmas of this module sort the actions into four kinds (`StepKinds`):
quiet, a decision, a send, a result, or a crash; every invariant is shown for
those and not for each action again.

**WebhookOutboxProofs**

* `Delivered`: `DeliveredWasAccepted`, and `GivenUp`: `GivenUpAfterAllAttempts`.
  Neither is inductive, since a row is written from a snapshot.  `Claims` says of
  every row and of every sender that the attempt count it holds is at most the
  number of attempts that were made, that a `delivered` it holds was accepted, and
  that a `failed` it holds comes after the last attempt.  A merge of two rows that
  claim no more than happened claims no more than happened.
* `TypeCorrect`: besides the types, that `due` has no row twice and only pending rows
  (`DueInv`), whoever inserts, retries, skips or records.
* `SentOnce`: `AcceptedOnce`, an action property.  `Once` is what holds of every row
  that is not excused: one sender at most has it in hand, the row is pending and so is
  that sender's copy of it, and if it was accepted it stays pending only while that
  sender is about to record the answer.  A row becomes excused when a second sender
  takes it into its batch or a crash forgets an answer; the proof shows that selecting
  by status, the unique key and the partial update leave no other way to send it again.
* `Implementation`: `Spec` implements `WebhookDelivery!Spec` (`ImplementsDelivery`, which
  no run lists; TLC finds no error in it on the constants of `Outbox.cfg`).  The
  mapping needs `Once` and `Claims`: the copy a sender works on has the attempt count
  that was made, so that recording it moves one row to the phase its answer says, and
  a row which two senders hold is disturbed before either of them writes it.

**ReportImportProofs**

* `TypeCorrect`: `TypeInv` adds to `TypeOK` what a transaction may look like at
  each point (`ShapeInv`: no counter is written without the lock, no two rows
  inserted for one report), how it relates to the committed rows (`RowsInv`:
  inserted rows are new and nobody else's, picked rows are there, not projected
  and not reset by a deletion) and that one transaction at most has the lock
  (`LockInv`).  `StepKinds` sorts the actions into eight kinds, for which all three
  theorems are shown.
* `IngestedAlwaysAccountedFor`: `IngestedIsAccountedFor` from `TraceInv`.  An id
  gets into the table from what an importer had loaded or read, so the invariant
  follows these ids, the report at hand, the rows inserted and the reports in
  memory: each report is kept or about to be inserted by the same transaction.
* `CountersAlwaysRight`: `CountersAreRight` from `CountInv`: until an overlap with a
  deletion, what a transaction is about to write to a counter is the committed sum
  and the rows it adds (`Written`, `Gained`).  That the committed sum is still the
  one it read is what the advisory lock gives; an undisturbed deletion drops every
  counter and resets every row (`DeletesAll`).
* `NobodyWaitsForever`: `SomebodyGoesOn`.  While anything is open, somebody can take
  its next step, or the wait is one of the two circles that PostgreSQL ends.  `WaitInv`
  adds to the types and `LockInv` that an importer which reads has something left to
  read, that one transaction at most has the row of the domain, and that a deletion
  which is not under way holds no counters.  Who has the advisory lock does not wait
  for it (`LockHolderGoesOn`), and only such a transaction has counters flushed
  (`FlushedByHolder`), so that a deletion waits for it alone; who has the row of the
  domain (`DomainHolderGoesOn`) waits for the lock at most.

**DnsChangeProofs**

* `TypeCorrect`: `TypeInv` adds to `TypeOK` that a zone is finite, that a text record
  has a text for its content, and what each stage of a request has (`Phase`).
* `EvidenceRestores`, `MigrationsArePublic` and `ReviewedOnly` (an action property),
  from what each request knows (`History`).  `ListedInv`: a request about to write
  knows the zone as it is, as long as it is not `raced`.  `AppliesTo` then shows that
  a change which is not blocked, and which the provider carries out, finds the one
  record it was prepared from or none, and leaves one; Lexicon, which lists one type
  only, needs for this that an alias stands alone.  `ShownInv`: who serves the new
  record, or has been heard to, has shown it since the write.
* `ConflictsAreDisorder`: ids are never given out twice, so what one listing misses
  and an earlier one had is gone.  `Ordered` says that of two listings under way
  one is the earlier, `LaterIsRight` that the later one, if it is not stale, is right
  about the ids of the earlier, and `InStep` that a listing which is not stale agrees
  with the history as long as no stale one was processed.  A listing is stale when a
  later one was processed before it or the zone changed between its pages; then it may
  be wrong in any way.  The actions other than `List` and `Sync` are treated as one
  kind (`QuietStep`).

**DnsPostureProofs**

* `ConfirmedAbsence`: `AbsenceIsConfirmed`, an action property.  A capture works on
  a row that was read before the lookup; `LoadedInv` says that it can differ from the
  stored one in requests only, and `SeriesInv` that the stored count of absences is
  at most the number that was seen.
* `OwedStaysRequested`, the safety part of `RequestIsServed` (no run checks it): a
  request made while its domain is not being refreshed stays in the row until a
  lookup of the domain begins (`PendingInv`).  Nothing in these two proofs depends
  on the order in which a round takes the domains.
* `TypeCorrect`: `TypeInv` says of a round that it is within its limit and has no
  domain twice (`RoundInv`), of `done` that a domain is in it once, and, if it has a
  baseline, at all (`DoneInv`), and gives the bounds of every count (`BoundsInv`).
* `AskedComeFirst`, the other safety part of `RequestIsServed` (no run checks it):
  while a request waits, a round begins with a domain that was asked for.  By
  `OwedStaysRequested` the request is in its row, and `Before` puts no domain without a
  request in front of one that has it.  What is left to liveness is that rounds go on
  and that newer requests end.
* `RoundsAreOrdered` (no run checks it): `Before` is a strict total order of the domains
  in every reachable state.  The last of its columns, the id, decides every tie of
  those before; a completed domain has one place in `done` (`PositionFacts`).

**TenancyProofs**

* `TypeCorrect`: `TypeInv`, in two halves for what billing writes and what the
  membership calls write.
* `EndedSubscriptions` and `OnlySubscriptions` (`OnlySubscriptionGrants`, which no run
  lists): `GrantInv` joins
  `EndedGrantsNothing` with `GrantsStayAtHome` (a grant names a subscription of its
  organization) and `OnlyGrantInv` (the grant of an only subscription, also while
  it is past due or its provider has suspended it, which `OnlySubscriptionGrants`
  does not mention but a later event starts from).
* `Repeats`: `RepeatsAreHarmless` is inductive with the types: an event that is
  applied is either the last of its subscription that was, or makes it `late`.
* `SeatsWithinLimit`: `SeatsGrowWithinLimit`, an action property: the seats after
  a call are those before it and at most one more, for which capacity was checked.

**AlertSummariesProofs**

* `TypeCorrect`: `TypeInv` adds what an actor at work is working on (`ActorInv`), and
  needs facts about quotients and remainders.
* `SummariesOnce`: `SummaryOnce` from `PendingInv` (what the scheduler works on,
  and has left, is not recorded) and `CarriedInv` (what was accepted is recorded,
  about to be recorded, or lost in a crash or a commit that failed).
* `HistoryIsWhatWasFound`: `HistoryFollows` from `ReadingsInv`: what an evaluation
  has read is still so as long as nothing was recorded since the last quiet moment,
  and no row ever disappears.
* `SummariesAreSent`: `SummariesKeepUp` from `KeepUpInv`: `GoodInv` says what the cycles
  of the day that had a chance have got done, `ChanceInv` that the one under way, as
  long as it keeps its chance, works on the first summary that is due under a limit
  that stays free, because nothing moves `lastSent` and the clock only grows, or has it
  done.

### What is only model-checked

* Liveness (`EventuallySettles`, `NewIncidentIsTold`, `EventuallyFinal`,
  `EveryMessageIsHandled`, `EveryRowIsProjected`, `RequestIsServed`, `KeepsTrying`):
  the prover does not treat fairness.
* That the domains can be put into the order `Before` (`RoundsAreOrdered` proves that it
  is a strict total order; that a finite set then has a sorted sequence is an
  induction): `NextRound` would be disabled without it, which the runs of `DnsPosture`
  would report as a deadlock or a failure of `KeepsTrying`.
* The divergence `CancelSticks`, which is a counterexample.

## Other behaviour the models have

What follows is true of the code and of the models and is not a run: either no
document says otherwise, or the disagreement is smaller than a run is worth.

Backfill and mailboxes

* A failed job can never be re-queued, although `docs/reference/api.md:387` offers
  it: a job fails exactly when its attempts are used up, and then the call answers
  409 (`mail_sources.py:1601`).  A job whose run died stays `running`; the scheduler
  takes only `queued` and `backoff` (`mail_source_backfill_worker.py:688`, against
  `api.md:378`).
* A failure of a run drops the page cursor, so a retry reads the window from its
  start; `attempts` counts batches that succeeded too.

Incidents and webhooks

* A change whose notification failed is not sent again once an earlier version of
  the incident was told (`mail_health_incidents.py:124`, against
  `docs/product/guided-mail-health.md:193`).
* An outcome that comes back reopens its row and leaves the other incident of the
  domain active (`mail_health_incidents.py:306`).
* An evaluation by the API records a change as known without telling anyone; the
  scheduler then sees no change (`missed`).
* A superseded incident gets no `resolved` webhook event; a crash in the loop over
  closed incidents loses the events that are left.  An event is enqueued with one
  commit per endpoint, so a crash leaves the later endpoints without it.
* `POST /webhooks/{id}/test` takes the oldest due row of the endpoint
  (`webhooks.py:362`); with a backlog the test is not sent by the call.
* A delivered row can be written back to `pending` or `failed` by a second sender
  that had it in its batch.  `EventuallyFinal` says that it comes to rest all the
  same, `AcceptedOnce` that this is the only way, besides a crash, to send an
  accepted delivery again.
* A delivery abandoned because its endpoint was disabled stays abandoned when the
  endpoint is enabled and the event enqueued again.

Reports

* Two importers, or an importer and an upload, that overlap store a report twice
  (`report_persistence.py:174`); the counters count both rows.
* A report committed between the statements of a deletion is reset although its
  counter was not dropped, and is counted twice, although the comment at
  `report_persistence.py:577` has no stale counters left (`fate.overlap`).
* A backfill that breaks off keeps its reports without the ids of their messages,
  which are read and found to be duplicates the next time.
* A message may be recorded as ingested for a report that only memory ever held.

DNS

* A change is verified although the readback shows a second value of another
  client (`dns_provider_writes.py:364`, against `api.md:831`).
* Plans come from cached evidence, so tags that only the provider has are dropped
  when the preview is confirmed; they are visible in the preview.
* The web page tells an operator whose request, also an apply, took too long "No DNS
  change was made" (`static/js/domain-details-page.js:2964`), while the write
  may go on.
* Listings processed out of order, or read page by page while records are deleted
  (`dns_resolver.py:1165-1186`), retire a live record; from then on every sync of
  the domain violates a unique key after the write, which stays without an audit
  entry (against `api.md:823`).
* A request for a posture refresh that comes in during a lookup may be erased by
  it; a failed lookup of a domain with a baseline uses up its request; the newest
  request goes first, so a steady stream keeps an old one waiting; a domain that
  is left alone may still occupy a round.

Organizations

* A terminal status takes the limit away instead of setting it to nothing, so the
  organization is then without a limit.  `unpaid` and `past_due` do not make a
  workspace read-only, but `past_due` with an older canceled subscription does.
* Organization endpoints, SCIM and sign-in ignore read-only; SCIM and sign-in take
  seats without a check; an invitation activates the user everywhere.
* A late event of a canceled Stripe subscription revives it with its grant, since
  events are told apart by their id only (`stripe_billing.py:442`).
* Entitlements move to the subscription that was last updated: when that one is
  canceled, another active one grants nothing until its next event.
* An invoice of an unknown customer is recorded as unmatched and ignored when it
  is delivered again.  A provider's state update has no replay check
  (`docs/reference/provider-integrations.md:172` asks for one) and never touches
  entitlements.

Summaries

* The limit slides, so it depends on when the cycles of a day fall whether the weekly
  summary finds it free: with an interval of 15 minutes and cycles at minutes 9, 20 and
  31, it goes out in the third.
* With the send hour at 23 and polling every 60 minutes there is at most one cycle
  past the hour, so with both summaries switched on the weekly one is always held
  back by the daily one (against `docs/user_guide/settings.md:98`).
* Calm Watch and test messages are not subject to the limit; two senders whose
  checks overlap both send.
* A conflicting insert of an alert ends the scheduler's cycle, so the webhook
  deliveries of that cycle wait for the next one.  Scheduled summaries enqueue no
  alert events; the keys of alert events are permanent and include the detail, so an
  alert that reopens with the same detail produces no new event.

## Not modelled

Parsing, DNS resolution, scoring, sign-in flows, demo data and the front end keep no
state between calls or are input and output.  The HTML pages and startup migrations
of `main.py`, the OAuth flows and connection tests of mail sources, and the editing
of sources and endpoints change configuration that the modelled state machines only
read.  Forensic and TLS reports are stored as aggregate reports are, without
counters.  Health snapshots and remediation come next.

## Plan

Done: the modules above, in the order backfill jobs, incidents, webhooks,
report import, DNS changes, DNS posture, tenancy, alerts and summaries.  Left:

1. `RemediationDispatch`: operators' markers are rows of the audit log, and a
   dispatch is due when the history allows it; the history is cut at five rows per
   item and fifteen per item overall (`remediation_dispatch.py:394-432`), ordered by
   item, so the many rows of one item hide the hold of another, and five dispatches
   push an acknowledgement out; the event key is permanent per item, and a crash
   between the deliveries and the audit row leaves no marker.
2. `HealthSnapshots`: a round takes the domains updated most recently, up to a
   limit (`health_snapshot_refresh.py:36-49`), so the rest wait.
3. A composition of `WebhookOutbox` with a producer, the Calm Watch cycle, to state
   what a crash in the enqueue loop loses.

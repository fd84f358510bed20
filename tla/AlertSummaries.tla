---------------------------- MODULE AlertSummaries ----------------------------
(***************************************************************************)
(* Alert history, scheduled summaries and the limit on notifications.      *)
(*                                                                         *)
(* An evaluation finds the alerts the stored data calls for, stores the    *)
(* new ones, reopens those it finds again and resolves the active rows it  *)
(* did not find (alert_history.py).  The scheduler thread evaluates for    *)
(* the daily and the weekly summary it has to send (summary_notifications  *)
(* .py), an API call for an administrator (settings.py); API calls run on  *)
(* the event loop, one at a time, beside the scheduler.  Both send through *)
(* one notification channel whose limit is a time stamp that is read       *)
(* before a message goes out and written after it was accepted.            *)
(*                                                                         *)
(* Time is counted in ticks, of which notifications.min_send_interval_     *)
(* minutes are Interval: for so long after a message others are held back, *)
(* whatever the ticks, days and cycles are in which it went out.           *)
(***************************************************************************)
EXTENDS Integers, FiniteSets

CONSTANTS
  Alerts,        \* fingerprints: rule, domain, source and threshold
  Enabled,       \* the summaries that are switched on
  Interval,      \* min_send_interval_minutes; 0 means no limit
  TicksPerDay,
  SendTick,      \* the first tick of a day at or after summary_send_hour_utc
  DaysPerWeek,
  WeeklyDay,     \* summary_weekday_utc
  MaxClock,      \* bound: the last tick
  MaxCalls,      \* bound: API calls, unlimited messages and new data
  MaxFaults      \* bound: errors of the database or of the targets, and crashes

Periods == {"daily", "weekly"}

ASSUME ScheduleAssumption ==
  /\ Enabled \subseteq Periods /\ Interval \in Nat
  /\ TicksPerDay \in Nat \ {0} /\ SendTick \in 0..(TicksPerDay - 1)
  /\ DaysPerWeek \in Nat \ {0} /\ WeeklyDay \in 0..(DaysPerWeek - 1)
  /\ MaxClock \in Nat /\ MaxCalls \in Nat /\ MaxFaults \in Nat

VARIABLES
  current,   \* the alerts the rules find in the stored data
  history,   \* alert_history: the state of the row of a fingerprint
  queued,    \* alerts whose webhook event was enqueued
  clock,
  lastSent,  \* notifications.last_sent_at, Never before the first message
  marked,    \* the day and the week recorded as sent
  actor,     \* what the scheduler and the API call are doing
  used,      \* what of the bounds is used up
  \* for the properties only:
  accepted,  \* messages of each summary that a target accepted
  unmarked,  \* of these, messages whose record a fault prevented
  seen,      \* what the evaluations since the last quiet moment found
  today      \* good: cycles of this day that had a chance and have ended; chance:
             \* the limit was free when the cycle under way began, and nothing
             \* failed or came between since

vars == <<current, history, queued, clock, lastSent, marked, actor, used,
          accepted, unmarked, seen, today>>

Never == -1
Actors == {"scheduler", "api"}
Calls == {"check", "send", "summary"}

Day(t) == t \div TicksPerDay
Week(t) == Day(t) \div DaysPerWeek
Index(p, t) == IF p = "daily" THEN Day(t) ELSE Week(t)
PastSendHour(t) == t % TicksPerDay >= SendTick
OnWeekday(t) == Day(t) % DaysPerWeek = WeeklyDay
Indices == 0..Day(MaxClock)

Due(p) ==
  /\ p \in Enabled
  /\ PastSendHour(clock)
  /\ p = "weekly" => OnWeekday(clock)
  /\ marked[p] # Index(p, clock)

\* left: the summaries of the cycle still to come; start: when the cycle began.
Idle == [pc |-> "idle", task |-> "none", left |-> {}, start |-> 0,
         signals |-> {}, found |-> {}, dormant |-> {}, listed |-> {}]

Init ==
  /\ current \in SUBSET Alerts
  /\ history = [s \in Alerts |-> "absent"]
  /\ queued = {}
  /\ clock = 0
  /\ lastSent = Never
  /\ marked = [p \in Periods |-> Never]
  /\ actor = [a \in Actors |-> Idle]
  /\ used = [calls |-> 0, faults |-> 0]
  /\ accepted = [p \in Periods |-> [i \in Indices |-> 0]]
  /\ unmarked = [p \in Periods |-> [i \in Indices |-> 0]]
  /\ seen = [some |-> {}, all |-> {}, fresh |-> FALSE]
  /\ today = [good |-> 0, chance |-> FALSE]

Others(a) == Actors \ {a}
Evaluating(b) == actor[b].pc \in {"look", "list", "record"}
Goto(a, pc) == actor' = [actor EXCEPT ![a].pc = pc]
Spend(what, max) ==
  used[what] < max /\ used' = [used EXCEPT ![what] = @ + 1]
Disturbed == today' = [today EXCEPT !.chance = FALSE]
Active == {s \in Alerts : history[s] = "active"}

-----------------------------------------------------------------------------
(***************************************************************************)
(* The scheduler's cycle and the API calls begin                           *)
(***************************************************************************)
\* The settings and the time are read once, for both summaries; with none due
\* the cycle changes nothing.
BeginCycle ==
  LET due == {p \in Periods : Due(p)}
      first == IF "daily" \in due THEN "daily" ELSE "weekly" IN
  /\ actor["scheduler"].pc = "idle"
  /\ due # {}
  /\ actor' = [actor EXCEPT !["scheduler"] =
       [Idle EXCEPT !.pc = "evaluate", !.task = first, !.left = due \ {first}, !.start = clock]]
  /\ today' = [today EXCEPT !.chance = lastSent = Never \/ lastSent + Interval <= clock]
  /\ UNCHANGED <<current, history, queued, clock, lastSent, marked, used,
                 accepted, unmarked, seen>>

\* Calm Watch, which comes before the summaries in a cycle, and the test message
\* of an administrator are not limited.
UnlimitedMessage(a) ==
  /\ actor[a].pc = "idle"
  /\ Spend("calls", MaxCalls)
  /\ lastSent' = clock
  /\ Disturbed
  /\ UNCHANGED <<current, history, queued, clock, marked, actor, accepted,
                 unmarked, seen>>

BeginCall(call) ==
  /\ actor["api"].pc = "idle"
  /\ Spend("calls", MaxCalls)
  /\ actor' = [actor EXCEPT !["api"] = [Idle EXCEPT !.pc = "evaluate", !.task = call]]
  /\ UNCHANGED <<current, history, queued, clock, lastSent, marked, accepted,
                 unmarked, seen, today>>

\* The next summary of the cycle, or the end of what a was doing.
NextTask(a) ==
  actor' = [actor EXCEPT ![a] =
    IF actor[a].left = {} THEN Idle
    ELSE [Idle EXCEPT !.pc = "evaluate", !.task = "weekly", !.start = actor[a].start]]

\* The same, and a cycle that ends here may have had its chance.
GoOn(a) ==
  /\ NextTask(a)
  /\ today' = IF a = "scheduler" /\ actor[a].left = {} /\ today.chance
              THEN [good |-> today.good + 1, chance |-> FALSE] ELSE today

-----------------------------------------------------------------------------
(***************************************************************************)
(* An evaluation (record_alert_evaluation)                                 *)
(***************************************************************************)
Evaluate(a) ==
  /\ actor[a].pc = "evaluate"
  /\ actor' = [actor EXCEPT ![a].signals = current, ![a].pc = "look"]
  /\ seen' = IF \E b \in Others(a) : Evaluating(b) THEN seen
             ELSE [seen EXCEPT !.fresh = TRUE]
  /\ UNCHANGED <<current, history, queued, clock, lastSent, marked, used,
                 accepted, unmarked, today>>

\* The rows of the alerts it found, as they are now.
Look(a) ==
  /\ actor[a].pc = "look"
  /\ actor' = [actor EXCEPT
       ![a].found = {s \in actor[a].signals : history[s] # "absent"},
       ![a].dormant = {s \in actor[a].signals : history[s] = "resolved"},
       ![a].pc = "list"]
  /\ UNCHANGED <<current, history, queued, clock, lastSent, marked, used,
                 accepted, unmarked, seen, today>>

\* The active rows.  Nothing is flushed before this query (autoflush is off).
List(a) ==
  /\ actor[a].pc = "list"
  /\ actor' = [actor EXCEPT ![a].listed = Active, ![a].pc = "record"]
  /\ UNCHANGED <<current, history, queued, clock, lastSent, marked, used,
                 accepted, unmarked, seen, today>>

Inserts(a) == actor[a].signals \ actor[a].found
Conflicts(a) == \E s \in Inserts(a) : history[s] # "absent"

\* MUTANT: an alert that comes back is counted but not reopened.
ReopenedBug(a) == {}

\* An UPDATE sets is_active and resolved_at only where the session changed them:
\* a row that was active when it was looked up and is found again keeps the
\* state others give it.
Reopened(a) == actor[a].dormant
Resolved(a) == actor[a].listed \ actor[a].signals

Recorded(a) ==
  [s \in Alerts |->
     IF s \in Inserts(a) \cup Reopened(a) THEN "active"
     ELSE IF s \in Resolved(a) THEN "resolved" ELSE history[s]]

\* What follows the commit: events for API evaluations, then the message.
AfterRecord(a) == IF actor[a].task \in {"check", "send"} THEN "enqueue" ELSE "limit"

Record(a) ==
  /\ actor[a].pc = "record" /\ ~Conflicts(a)
  /\ history' = Recorded(a)
  /\ Goto(a, AfterRecord(a))
  /\ seen' = IF seen.fresh
             THEN [some |-> actor[a].signals, all |-> actor[a].signals, fresh |-> FALSE]
             ELSE [seen EXCEPT !.some = @ \cup actor[a].signals,
                               !.all = @ \cap actor[a].signals]
  /\ UNCHANGED <<current, queued, clock, lastSent, marked, used, accepted,
                 unmarked, today>>

\* Someone else inserted a fingerprint first: the commit fails with everything
\* in it, and the exception ends the call or the scheduler's cycle.
RecordFails(a) ==
  /\ actor[a].pc = "record"
  /\ IF Conflicts(a) THEN UNCHANGED used ELSE Spend("faults", MaxFaults)
  /\ actor' = [actor EXCEPT ![a] = Idle]
  /\ Disturbed
  /\ UNCHANGED <<current, history, queued, clock, lastSent, marked, accepted,
                 unmarked, seen>>

\* enqueue_alert_webhook_events; the scheduler's summaries do not call it.
Enqueue(a) ==
  /\ actor[a].pc = "enqueue"
  /\ queued' = queued \cup actor[a].signals
  /\ IF actor[a].task = "send" /\ actor[a].signals # {}
     THEN Goto(a, "limit")
     ELSE actor' = [actor EXCEPT ![a] = Idle]
  /\ UNCHANGED <<current, history, clock, lastSent, marked, used, accepted,
                 unmarked, seen, today>>

-----------------------------------------------------------------------------
(***************************************************************************)
(* Sending (send_notification) and recording what was sent                 *)
(***************************************************************************)
\* MUTANT: one tick too many.
LimitedBug == lastSent # Never /\ clock <= lastSent + Interval

\* _rate_limit_result: the limit slides with the last message.
Limited == lastSent # Never /\ clock < lastSent + Interval

\* What is recorded as sent once the message of a's task was.
Marked(a) == [marked EXCEPT ![actor[a].task] = Index(actor[a].task, actor[a].start)]

\* MUTANT: a summary that was held back is recorded as sent.
HeldBackBug(a) == GoOn(a) /\ marked' = IF a = "scheduler" THEN Marked(a) ELSE marked

\* What a summary that was held back counts as: not sent.
HeldBack(a) == GoOn(a) /\ UNCHANGED marked

CheckLimit(a) ==
  /\ actor[a].pc = "limit"
  /\ IF Limited THEN HeldBack(a)
     ELSE Goto(a, "send") /\ UNCHANGED <<today, marked>>
  /\ UNCHANGED <<current, history, queued, clock, lastSent, used, accepted,
                 unmarked, seen>>

\* One more message of the summary that the scheduler is sending.
OneMore(count) ==
  LET me == actor["scheduler"] IN
  [count EXCEPT ![me.task][Index(me.task, me.start)] = @ + 1]

Accept(a) ==
  /\ actor[a].pc = "send"
  /\ Goto(a, "stamp")
  /\ accepted' = IF a = "scheduler" THEN OneMore(accepted) ELSE accepted
  /\ UNCHANGED <<current, history, queued, clock, lastSent, marked, used,
                 unmarked, seen, today>>

\* No target accepts it, or notifications are off or have no target.
Refuse(a) ==
  /\ actor[a].pc = "send"
  /\ Spend("faults", MaxFaults)
  /\ NextTask(a)
  /\ Disturbed
  /\ UNCHANGED <<current, history, queued, clock, lastSent, marked, accepted,
                 unmarked, seen>>

\* What follows the commit of the time stamp.
Stamped(a) ==
  IF a = "scheduler" THEN Goto(a, "mark") /\ UNCHANGED today
  ELSE NextTask(a) /\ Disturbed

\* MUTANT: the time stamp lies ahead.
StampBug(a) ==
  /\ actor[a].pc = "stamp"
  /\ lastSent' = clock + 1
  /\ Stamped(a)
  /\ UNCHANGED <<current, history, queued, clock, marked, used, accepted,
                 unmarked, seen>>

Stamp(a) ==
  /\ actor[a].pc = "stamp"
  /\ lastSent' = clock
  /\ Stamped(a)
  /\ UNCHANGED <<current, history, queued, clock, marked, used, accepted,
                 unmarked, seen>>

\* A summary that an administrator sends is not recorded as the scheduled one.
Mark ==
  /\ actor["scheduler"].pc = "mark"
  /\ marked' = Marked("scheduler")
  /\ GoOn("scheduler")
  /\ UNCHANGED <<current, history, queued, clock, lastSent, used, accepted,
                 unmarked, seen>>

\* A commit fails, that of the time stamp or that of the day or week: the
\* exception ends the call, or the cycle with a message nobody knows of.
RecordOfMessageFails(a) ==
  /\ actor[a].pc \in {"stamp", "mark"}
  /\ Spend("faults", MaxFaults)
  /\ actor' = [actor EXCEPT ![a] = Idle]
  /\ Disturbed
  /\ unmarked' = IF a = "scheduler" THEN OneMore(unmarked) ELSE unmarked
  /\ UNCHANGED <<current, history, queued, clock, lastSent, marked, accepted, seen>>

-----------------------------------------------------------------------------
(***************************************************************************)
(* Time, data and crashes                                                  *)
(***************************************************************************)
\* Midnight takes its chance from a cycle that goes on.
Tick ==
  /\ clock < MaxClock
  /\ clock' = clock + 1
  /\ today' = IF Day(clock + 1) = Day(clock) THEN today ELSE [good |-> 0, chance |-> FALSE]
  /\ UNCHANGED <<current, history, queued, lastSent, marked, actor, used,
                 accepted, unmarked, seen>>

\* Reports come in, days go by, or an administrator changes a rule.
NewData ==
  /\ Spend("calls", MaxCalls)
  /\ \E s \in Alerts :
       current' = IF s \in current THEN current \ {s} ELSE current \cup {s}
  /\ UNCHANGED <<history, queued, clock, lastSent, marked, actor, accepted,
                 unmarked, seen, today>>

Crash ==
  /\ Spend("faults", MaxFaults)
  /\ actor' = [a \in Actors |-> Idle]
  /\ unmarked' = IF actor["scheduler"].pc \in {"stamp", "mark"} THEN OneMore(unmarked)
                 ELSE unmarked
  /\ Disturbed
  /\ UNCHANGED <<current, history, queued, clock, lastSent, marked, accepted, seen>>

Step(a) ==
  \/ Evaluate(a) \/ Look(a) \/ List(a) \/ Record(a) \/ RecordFails(a) \/ Enqueue(a)
  \/ CheckLimit(a) \/ Accept(a) \/ Refuse(a) \/ Stamp(a) \/ RecordOfMessageFails(a)

Next ==
  \/ BeginCycle \/ \E call \in Calls : BeginCall(call)
  \/ \E a \in Actors : UnlimitedMessage(a) \/ Step(a)
  \/ Mark \/ Tick \/ NewData \/ Crash

Spec == Init /\ [][Next]_vars

-----------------------------------------------------------------------------
(***************************************************************************)
(* Properties                                                              *)
(***************************************************************************)
States == {"absent", "active", "resolved"}

\* Every variable keeps its type.
TypeOK ==
  /\ current \subseteq Alerts /\ queued \subseteq Alerts
  /\ history \in [Alerts -> States]
  /\ clock \in 0..MaxClock /\ lastSent \in Never..clock
  /\ marked \in [Periods -> Never..Day(MaxClock)]
  /\ actor \in [Actors ->
       [pc : {"idle", "evaluate", "look", "list", "record", "enqueue", "limit",
              "send", "stamp", "mark"},
        task : Periods \cup Calls \cup {"none"}, left : SUBSET {"weekly"},
        start : 0..MaxClock, signals : SUBSET Alerts, found : SUBSET Alerts,
        dormant : SUBSET Alerts, listed : SUBSET Alerts]]
  /\ used \in [calls : 0..MaxCalls, faults : 0..MaxFaults]
  /\ accepted \in [Periods -> [Indices -> Nat]]
  /\ unmarked \in [Periods -> [Indices -> Nat]]
  /\ seen \in [some : SUBSET Alerts, all : SUBSET Alerts, fresh : BOOLEAN]
  /\ today \in [good : Nat, chance : BOOLEAN]

\* A scheduled summary goes out once for its day or week: a second message needs
\* a crash or a failing commit between the acceptance of the first and its
\* record, and nothing is recorded as sent that no target accepted.  Calls of an
\* administrator, a limit reached, failures and midnight come in between.
SummaryOnce ==
  /\ \A p \in Periods, i \in Indices : accepted[p][i] <= 1 + unmarked[p][i]
  /\ \A p \in Periods : marked[p] # Never => accepted[p][marked[p]] > 0

\* The two summaries share one message per interval with everybody else.  Still
\* one cycle that finds the limit free and is not disturbed until it ends sends
\* the daily summary, and as many such cycles of a day as there are summaries
\* send the weekly one: neither waits for more, however long the cycles take and
\* whatever was held back before (send_due_scheduled_summaries).
SummariesKeepUp ==
  /\ today.good >= 1 /\ "daily" \in Enabled => marked["daily"] = Day(clock)
  /\ today.good >= Cardinality(Enabled) /\ "weekly" \in Enabled /\ OnWeekday(clock)
       => marked["weekly"] = Week(clock)

\* However evaluations overlap, insert the same alert or fail, the history is
\* what they found: when none is at work, every alert all of the last ones found
\* is active, an alert none of them found is not, and no event was enqueued for
\* an alert that has no row.
HistoryFollows ==
  /\ (\A a \in Actors : ~Evaluating(a)) => seen.all \subseteq Active /\ Active \subseteq seen.some
  /\ \A s \in queued : history[s] # "absent"
=============================================================================

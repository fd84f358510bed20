------------------------ MODULE MailHealthIncidents ------------------------
(***************************************************************************)
(* Calm Watch in one workspace: the mail-health incident rows, the         *)
(* scheduler cycle that records the current assessment and notifies, the   *)
(* API call that records it without notifying, and the operators that      *)
(* acknowledge and snooze incidents.                                       *)
(*                                                                         *)
(* An evaluation is three steps: assess the stored evidence, look the      *)
(* incident up, record the decision and commit.  The scheduler goes on     *)
(* with three more, each with its own commit: enqueue the webhook event,   *)
(* send the notification, record its result.  The process may die between  *)
(* any two.  An incident is known by its domain and outcome; what its      *)
(* material state consists of is left out, and only whether it changed     *)
(* counts.  Times are ticks of one clock.                                  *)
(***************************************************************************)
EXTENDS Naturals, FiniteSets

CONSTANTS
  Domains,      \* domains an assessment may name, or none
  Outcomes,     \* outcomes that make an incident
  Actionable,   \* ACTIONABLE_OUTCOMES
  States,       \* material states
  Evaluators,   \* who records assessments
  Postures,     \* notification postures the workspace may choose
  MaxEvidence,  \* bound on changes of the evidence
  MaxActions,   \* bound on operator actions
  MaxCrashes    \* bound on restarts of the process

ASSUME IncidentsAssumption ==
  /\ Domains # {} /\ States # {} /\ Postures # {}
  /\ Outcomes \cap {"healthy", "insufficient_evidence", "waiting"} = {}
  /\ Actionable \subseteq Outcomes
  /\ Evaluators \subseteq {"scheduler", "handler"}
  /\ Postures \subseteq {"actionable_only", "important_plus_digest", "all_signals", "disabled"}
  /\ MaxEvidence \in Nat /\ MaxActions \in Nat /\ MaxCrashes \in Nat

VARIABLES
  evidence,  \* the assessment that the stored evidence leads to
  incident,  \* incident[k]: the row of incident key k
  posture,   \* Workspace.notification_posture
  eval,      \* eval[e]: the evaluation e is in
  events,    \* idempotency keys of the webhook events enqueued
  clock,     \* time of the last change of a row
  told,      \* versions of incidents a target accepted (history)
  repeated,  \* versions accepted more than once (history)
  missed,    \* versions recorded without anyone going to send them (history)
  unsaved,   \* versions sent by a process that died before recording it (history)
  creations, \* creations[k]: decisions to announce k as new (history)
  changes, actions, crashes  \* bounded by MaxEvidence, MaxActions, MaxCrashes

vars == <<evidence, incident, posture, eval, events, clock, told, repeated, missed,
          unsaved, creations, changes, actions, crashes>>
history == <<told, repeated, missed, unsaved, creations>>
bounds == <<changes, actions, crashes>>

Keys == Domains \X Outcomes
Assessments ==
  [outcome : {"healthy", "insufficient_evidence", "waiting"} \cup Outcomes,
   domain : Domains, state : States]
Reasons == {"none", "created", "material_change", "pending_delivery"}
Active == {"open", "acknowledged", "snoozed"}

\* delivery is last_notification_reason without the reason it carries; notified
\* says that last_notified_at is set; change is last_material_change_at.
Incident ==
  [status : {"none", "resolved"} \cup Active, state : States, change : Nat,
   notified : BOOLEAN, delivery : {"none", "sent", "failed", "skipped"},
   snooze : {"none", "active", "over"}]
Eval ==
  [pc : {"idle", "assessed", "looked", "decided", "enqueued", "sent"},
   found : Assessments, posture : Postures, seen : Incident,
   closing : SUBSET Keys, reason : Reasons, at : Nat,
   result : {"none", "accepted", "skipped", "failed"}]

AnyState == CHOOSE s \in States : TRUE
Healthy ==
  [outcome |-> "healthy", domain |-> CHOOSE d \in Domains : TRUE, state |-> AnyState]
NoIncident ==
  [status |-> "none", state |-> AnyState, change |-> 0, notified |-> FALSE,
   delivery |-> "none", snooze |-> "none"]
Idle ==
  [pc |-> "idle", found |-> Healthy, posture |-> CHOOSE p \in Postures : TRUE,
   seen |-> NoIncident, closing |-> {}, reason |-> "none", at |-> 0, result |-> "none"]

IsFinding(a) == a.outcome \in Outcomes
\* Only active incidents are looked up.
MissingBug(r) == r.status \notin Active
Missing(r) == r.status = "none"
Key(a) == <<a.domain, a.outcome>>

Init ==
  /\ evidence = Healthy
  /\ incident = [k \in Keys |-> NoIncident]
  /\ posture \in Postures
  /\ eval = [e \in Evaluators |-> Idle]
  /\ events = {}
  /\ clock = 0
  /\ told = {} /\ repeated = {} /\ missed = {} /\ unsaved = {}
  /\ creations = [k \in Keys |-> 0]
  /\ changes = 0 /\ actions = 0 /\ crashes = 0

(***************************************************************************)
(* The decision to interrupt                                               *)
(***************************************************************************)
\* A failed delivery counts as none at all.
ShouldNotifyBug(e, k, r, new, material) ==
  CASE eval[e].posture = "disabled" \/ (r.status = "snoozed" /\ r.snooze = "active") -> "none"
    [] k[2] \notin Actionable /\ eval[e].posture # "all_signals" -> "none"
    [] new -> "created"
    [] material -> "material_change"
    [] OTHER -> "none"

\* r is the row as the evaluation has it in memory, its update included.
ShouldNotify(e, k, r, new, material) ==
  LET quiet ==
        \/ eval[e].posture = "disabled"
        \/ r.status = "snoozed" /\ r.snooze = "active"
        \/ k[2] \notin Actionable /\ eval[e].posture # "all_signals"
  IN CASE quiet -> "none"
       [] ~quiet /\ new -> "created"
       [] ~quiet /\ ~new /\ material -> "material_change"
       [] ~quiet /\ ~new /\ ~material /\ k[2] \in Actionable /\ ~r.notified
            /\ r.delivery = "failed" -> "pending_delivery"
       [] OTHER -> "none"

(***************************************************************************)
(* Recording an assessment                                                 *)
(***************************************************************************)
\* An evaluation that finds the workspace waiting for report data ends at once.
Assess(e) ==
  /\ eval[e].pc = "idle"
  /\ evidence.outcome # "waiting"
  /\ eval' = [eval EXCEPT ![e] = [Idle EXCEPT !.pc = "assessed", !.found = evidence,
                                              !.posture = posture]]
  /\ UNCHANGED <<evidence, incident, posture, events, clock, history, bounds>>

\* The incidents a clear assessment closes: a healthy one those of every domain.
ToClose(a) ==
  {k \in Keys : incident[k].status \in Active /\ (a.outcome = "healthy" \/ k[1] = a.domain)}

Lookup(e) ==
  LET a == eval[e].found IN
  /\ eval[e].pc = "assessed"
  /\ eval' = [eval EXCEPT ![e].pc = "looked",
       ![e].seen = IF IsFinding(a) THEN incident[Key(a)] ELSE NoIncident,
       ![e].closing = IF IsFinding(a) THEN {} ELSE ToClose(a)]
  /\ UNCHANGED <<evidence, incident, posture, events, clock, history, bounds>>

Resolve(r) == [r EXCEPT !.status = "resolved"]

\* What the commit of a decision leaves behind.  The handler answers with the
\* reason and goes no further; a version nobody is going to send is missed.
Decided(e, k, row, reason, changed) ==
  LET sends == e = "scheduler" /\ reason # "none" IN
  /\ eval' = [eval EXCEPT ![e] =
       IF sends
       THEN [Idle EXCEPT !.pc = "decided", !.found = eval[e].found, !.reason = reason,
                         !.at = row.change]
       ELSE Idle]
  /\ missed' = IF changed /\ ~sends THEN missed \cup {<<k, row.change>>} ELSE missed
  /\ creations' = [creations EXCEPT ![k] = @ + (IF reason = "created" THEN 1 ELSE 0)]
  /\ clock' = IF changed THEN clock + 1 ELSE clock
  /\ UNCHANGED <<evidence, posture, events, told, repeated, unsaved, bounds>>

\* _create_incident_row: the other incidents of the domain are superseded.
Create(e) ==
  LET a == eval[e].found
      k == Key(a)
      row == [NoIncident EXCEPT !.status = "open", !.state = a.state, !.change = clock + 1]
  IN
  /\ eval[e].pc = "looked"
  /\ IsFinding(a)
  /\ Missing(eval[e].seen)
  /\ Missing(incident[k])
  /\ incident' = [i \in Keys |->
       IF i = k THEN row
       ELSE IF i[1] = k[1] /\ incident[i].status \in Active THEN Resolve(incident[i])
       ELSE incident[i]]
  /\ Decided(e, k, row, ShouldNotify(e, k, row, TRUE, FALSE), TRUE)

\* A reopened incident keeps the time of its last change.
UpdateRowBug(r, old, state) ==
  [old EXCEPT
     !.status = IF r.status = "resolved" THEN "open" ELSE @,
     !.state = IF r.state # state THEN state ELSE @,
     !.change = IF r.state # state THEN clock + 1 ELSE @]

\* _update_incident_row on the row r in memory; only changed columns are written.
UpdateRow(r, old, state) ==
  LET material == r.state # state \/ r.status = "resolved" IN
  [old EXCEPT
     !.status = IF r.status = "resolved" THEN "open" ELSE @,
     !.state = IF r.state # state THEN state ELSE @,
     !.change = IF material THEN clock + 1 ELSE @]

\* The same with others of the domain superseded first, as in a lost race to
\* create the row: the insert fails and the committed row is updated instead.
Update(e) ==
  LET a == eval[e].found
      k == Key(a)
      raced == Missing(eval[e].seen)
      r == IF raced THEN incident[k] ELSE eval[e].seen
      material == r.state # a.state \/ r.status = "resolved"
      row == UpdateRow(r, incident[k], a.state)
      mine == UpdateRow(r, r, a.state)
  IN
  /\ eval[e].pc = "looked"
  /\ IsFinding(a)
  /\ ~Missing(incident[k])
  /\ incident' = [i \in Keys |->
       IF i = k THEN row
       ELSE IF raced /\ i[1] = k[1] /\ incident[i].status \in Active THEN Resolve(incident[i])
       ELSE incident[i]]
  /\ Decided(e, k, row, ShouldNotify(e, k, mine, FALSE, material), material)

\* _resolve_active_incidents; the scheduler announces what it closed.
Close(e) ==
  /\ eval[e].pc = "looked"
  /\ ~IsFinding(eval[e].found)
  /\ incident' = [k \in Keys |->
       IF k \in eval[e].closing THEN Resolve(incident[k]) ELSE incident[k]]
  /\ clock' = IF eval[e].closing = {} THEN clock ELSE clock + 1
  /\ eval' = [eval EXCEPT ![e] =
       IF e = "scheduler" /\ eval[e].closing # {}
       THEN [Idle EXCEPT !.pc = "decided", !.found = eval[e].found, !.closing = eval[e].closing,
                         !.at = clock + 1]
       ELSE Idle]
  /\ UNCHANGED <<evidence, posture, events, history, bounds>>

(***************************************************************************)
(* What the scheduler does with the decision                               *)
(***************************************************************************)
\* The event's idempotency key holds the reason, the incident and the time.
Enqueue(e) ==
  LET a == eval[e].found
      closed == {[reason |-> "resolved", key |-> k, at |-> eval[e].at] : k \in eval[e].closing}
  IN
  /\ eval[e].pc = "decided"
  /\ events' = events \cup
       (IF IsFinding(a) THEN {[reason |-> eval[e].reason, key |-> Key(a), at |-> eval[e].at]}
        ELSE closed)
  /\ eval' = [eval EXCEPT ![e] = IF IsFinding(a) THEN [@ EXCEPT !.pc = "enqueued"] ELSE Idle]
  /\ UNCHANGED <<evidence, incident, posture, clock, history, bounds>>

\* "failed" stands for a refusal by the targets and for the cap of a cycle.
Send(e, result) ==
  LET version == <<Key(eval[e].found), eval[e].at>>
      accepted == IF result = "accepted" THEN {version} ELSE {}
  IN
  /\ eval[e].pc = "enqueued"
  /\ eval' = [eval EXCEPT ![e].pc = "sent", ![e].result = result]
  /\ told' = told \cup accepted
  /\ repeated' = repeated \cup (accepted \cap told)
  /\ UNCHANGED <<evidence, incident, posture, events, clock, missed, unsaved, creations, bounds>>

\* The result is stored under its own name.
WithResultRawBug(r, result) ==
  [r EXCEPT !.notified = @ \/ result = "accepted", !.delivery = result]
\* A failure leaves no trace.
WithResultDroppedBug(r, result) ==
  IF result = "accepted" THEN [r EXCEPT !.notified = TRUE, !.delivery = "sent"] ELSE r
WithResult(r, result) ==
  IF result = "accepted"
  THEN [r EXCEPT !.notified = TRUE, !.delivery = "sent"]
  ELSE [r EXCEPT !.delivery = result]

RecordResult(e) ==
  LET k == Key(eval[e].found) IN
  /\ eval[e].pc = "sent"
  /\ incident' = [incident EXCEPT ![k] = WithResult(@, eval[e].result)]
  /\ eval' = [eval EXCEPT ![e] = Idle]
  /\ UNCHANGED <<evidence, posture, events, clock, history, bounds>>

(***************************************************************************)
(* Operators, evidence, time and crashes                                   *)
(***************************************************************************)
\* API handlers share one event loop with the evaluation an API call runs.
HandlerFree == "handler" \in Evaluators => eval["handler"].pc = "idle"

\* Any incident may be acknowledged or snoozed, a resolved one too.
OperatorAction(k, status) ==
  /\ actions < MaxActions
  /\ HandlerFree
  /\ ~Missing(incident[k])
  /\ incident' = [incident EXCEPT
       ![k].status = status,
       ![k].snooze = IF status = "snoozed" THEN "active" ELSE @]
  /\ actions' = actions + 1
  /\ UNCHANGED <<evidence, posture, eval, events, clock, history, changes, crashes>>

SnoozeEnds(k) ==
  /\ incident[k].snooze = "active"
  /\ incident' = [incident EXCEPT ![k].snooze = "over"]
  /\ UNCHANGED <<evidence, posture, eval, events, clock, history, bounds>>

SetPosture(p) ==
  /\ actions < MaxActions
  /\ HandlerFree
  /\ p # posture
  /\ posture' = p
  /\ actions' = actions + 1
  /\ UNCHANGED <<evidence, incident, eval, events, clock, history, changes, crashes>>

\* Reports arrive or leave the window.  A healthy workspace names no domain.
NewEvidence(a) ==
  /\ changes < MaxEvidence
  /\ a # evidence
  /\ ~IsFinding(a) => a.state = AnyState
  /\ a.outcome \in {"healthy", "waiting"} => a.domain = Healthy.domain
  /\ evidence' = a
  /\ changes' = changes + 1
  /\ UNCHANGED <<incident, posture, eval, events, clock, history, actions, crashes>>

\* The version an evaluation has announced in a row but not yet told.
Crash ==
  LET version(e) == <<Key(eval[e].found), eval[e].at>>
      InState(states) == {e \in Evaluators : eval[e].pc \in states /\ IsFinding(eval[e].found)}
  IN
  /\ crashes < MaxCrashes
  /\ eval' = [e \in Evaluators |-> Idle]
  /\ missed' = missed \cup {version(e) : e \in InState({"decided", "enqueued", "sent"})}
  /\ unsaved' = unsaved \cup {version(e) : e \in InState({"sent"})}
  /\ crashes' = crashes + 1
  /\ UNCHANGED <<evidence, incident, posture, events, clock, told, repeated, creations,
                 changes, actions>>

Evaluate(e) ==
  \/ Assess(e) \/ Lookup(e)
  \/ Create(e) \/ Update(e) \/ Close(e)
Notify(e) ==
  \/ Enqueue(e)
  \/ \E result \in {"accepted", "skipped", "failed"} : Send(e, result)
  \/ RecordResult(e)

Next ==
  \/ \E e \in Evaluators : Evaluate(e) \/ Notify(e)
  \/ \E k \in Keys : OperatorAction(k, "acknowledged") \/ OperatorAction(k, "snoozed")
                     \/ SnoozeEnds(k)
  \/ \E p \in Postures : SetPosture(p)
  \/ \E a \in Assessments : NewEvidence(a)
  \/ Crash

Spec == Init /\ [][Next]_vars

(***************************************************************************)
(* The scheduler repeats its cycle for ever; a target that is tried again  *)
(* and again accepts at last, and is not disabled.                         *)
(***************************************************************************)
Fairness ==
  "scheduler" \in Evaluators =>
    /\ WF_vars(Evaluate("scheduler"))
    /\ WF_vars(Notify("scheduler"))
    /\ SF_vars(Send("scheduler", "accepted"))

FairSpec == Spec /\ Fairness

-----------------------------------------------------------------------------
(***************************************************************************)
(* Properties                                                              *)
(***************************************************************************)
\* Every variable has its type, and no row was changed later than now.
TypeOK ==
  /\ evidence \in Assessments
  /\ incident \in [Keys -> Incident]
  /\ \A k \in Keys : incident[k].change <= clock
  /\ posture \in Postures
  /\ eval \in [Evaluators -> Eval]
  /\ events \subseteq [reason : Reasons \cup {"resolved"}, key : Keys, at : Nat]
  /\ clock \in Nat
  /\ told \subseteq Keys \X Nat /\ repeated \subseteq told
  /\ missed \subseteq Keys \X Nat /\ unsaved \subseteq Keys \X Nat
  /\ creations \in [Keys -> Nat]
  /\ changes \in 0..MaxEvidence /\ actions \in 0..MaxActions /\ crashes \in 0..MaxCrashes

Version(k) == <<k, incident[k].change>>

\* The operator is told once of each version of an incident, whatever API
\* evaluations and operator actions come in between; a second time only if the
\* process died after a target accepted it and before that was stored.  About
\* _should_notify reading the row that record_incident_notification_result wrote.
TellsOnce == repeated \subseteq unsaved

\* An incident is announced as new once in its life, although the scheduler and
\* an API call may both find it missing and resolving it does not remove it.
\* About the unique incident_key and the IntegrityError branch of
\* _create_incident_row.
AnnouncedOnce == \A k \in Keys : creations[k] <= 1

\* What the operator has been told, the webhooks have an event for, even if the
\* process died in between.  About the outbox row being committed before the send.
ToldIsPublished ==
  \A version \in told : \E event \in events :
    <<event.key, event.at>> = version /\ event.reason # "resolved"

\* What is known of an incident has been told, is being told, was refused by the
\* targets and says so, or was recorded by someone who was not going to tell it
\* (missed): no interleaving of an API evaluation with the scheduler's makes a
\* change disappear from both.  About the row an evaluation holds being stale.
Telling(k) ==
  \E e \in Evaluators :
    eval[e].pc \in {"decided", "enqueued", "sent"} /\ Key(eval[e].found) = k

NothingForgotten ==
  \A k \in Keys :
    \/ Missing(incident[k])
    \/ Version(k) \in told \cup missed
    \/ incident[k].delivery \in {"failed", "skipped"}
    \/ Telling(k)

\* The evidence still shows incident k, nobody has reacted, and k[2] is actionable.
Pressing(k) ==
  /\ IsFinding(evidence) /\ Key(evidence) = k
  /\ k[2] \in Actionable /\ posture # "disabled"
  /\ incident[k].status = "open"

\* A new actionable incident whose notification failed is tried again until a
\* target accepts it, as long as the evidence shows it.
NewIncidentIsTold ==
  \A k \in Keys : []<>~
    (/\ Pressing(k)
     /\ ~incident[k].notified /\ incident[k].delivery # "skipped"
     /\ Version(k) \notin missed)
=============================================================================

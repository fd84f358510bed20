--------------------- MODULE MailHealthIncidentsProofs ---------------------
(***************************************************************************)
(* Proofs about MailHealthIncidents, for any set of domains, outcomes,     *)
(* evaluators and postures and any bounds.                                 *)
(***************************************************************************)
EXTENDS MailHealthIncidents, TLAPS

-----------------------------------------------------------------------------
(***************************************************************************)
(* Values                                                                  *)
(***************************************************************************)
\* The initial values have their types.
LEMMA InitialValues ==
  /\ AnyState \in States
  /\ Healthy \in Assessments /\ ~IsFinding(Healthy)
  /\ NoIncident \in Incident /\ NoIncident.status = "none" /\ NoIncident.change = 0
  /\ Idle \in Eval /\ Idle.pc = "idle"
<1>1. AnyState \in States
  BY IncidentsAssumption DEF AnyState
<1>2. Healthy \in Assessments /\ ~IsFinding(Healthy)
  BY <1>1, IncidentsAssumption DEF Healthy, Assessments, IsFinding
<1>3. NoIncident \in Incident /\ NoIncident.status = "none" /\ NoIncident.change = 0
  BY <1>1 DEF NoIncident, Incident, Active
<1>4. (CHOOSE p \in Postures : TRUE) \in Postures
  BY IncidentsAssumption
<1>5. Idle \in Eval /\ Idle.pc = "idle"
  BY <1>2, <1>3, <1>4 DEF Idle, Eval, Reasons
<1> QED BY <1>1, <1>2, <1>3, <1>5

\* The key of a finding is a key (_incident_key).
LEMMA FindingKey ==
  ASSUME NEW a \in Assessments, IsFinding(a)
  PROVE  Key(a) \in Keys
BY DEF Assessments, IsFinding, Key, Keys

\* A decision is one of the reasons (_should_notify).
LEMMA Decision ==
  ASSUME NEW e, NEW k, NEW r, NEW new \in BOOLEAN, NEW material \in BOOLEAN
  PROVE  ShouldNotify(e, k, r, new, material) \in Reasons
BY DEF ShouldNotify, Reasons

\* An updated row is a row that exists, changed now or when it was before.
LEMMA UpdatedRow ==
  ASSUME NEW r \in Incident, NEW old \in Incident, ~Missing(old),
         NEW state \in States, clock \in Nat
  PROVE  /\ UpdateRow(r, old, state) \in Incident
         /\ UpdateRow(r, old, state).change =
              IF r.state # state \/ r.status = "resolved" THEN clock + 1 ELSE old.change
         /\ ~Missing(UpdateRow(r, old, state))
<1> DEFINE status == IF r.status = "resolved" THEN "open" ELSE old.status
           newState == IF r.state # state THEN state ELSE old.state
           change == IF r.state # state \/ r.status = "resolved" THEN clock + 1 ELSE old.change
<1>1. status \in {"resolved"} \cup Active
  BY DEF Incident, Active, Missing
<1>2. newState \in States /\ change \in Nat
  BY DEF Incident
<1>3. UpdateRow(r, old, state) =
        [old EXCEPT !.status = status, !.state = newState, !.change = change]
  BY DEF UpdateRow
<1> HIDE DEF status, newState, change
<1>4. /\ UpdateRow(r, old, state) \in Incident
      /\ UpdateRow(r, old, state).status = status
      /\ UpdateRow(r, old, state).change = change
  BY <1>1, <1>2, <1>3 DEF Incident, Active
<1> QED BY <1>1, <1>4 DEF Missing, Active, change

\* A resolved row is a row that exists, and its last change stays.
LEMMA ResolvedRow ==
  ASSUME NEW r \in Incident
  PROVE  /\ Resolve(r) \in Incident /\ Resolve(r).change = r.change
         /\ ~Missing(Resolve(r))
BY DEF Resolve, Incident, Active, Missing

\* A row with a notification result keeps its status and its last change.
LEMMA ResultRow ==
  ASSUME NEW r \in Incident, NEW result \in {"accepted", "skipped", "failed"}
  PROVE  /\ WithResult(r, result) \in Incident
         /\ WithResult(r, result).change = r.change
         /\ WithResult(r, result).status = r.status
BY DEF WithResult, Incident, Active

-----------------------------------------------------------------------------
(***************************************************************************)
(* Types                                                                   *)
(***************************************************************************)
\* Only a finding is sent: a clear assessment ends with its resolved events.
OnlyFindingsAreSent ==
  \A e \in Evaluators : eval[e].pc \in {"enqueued", "sent"} => IsFinding(eval[e].found)

\* A result is there when it is recorded.
SentHasResult ==
  \A e \in Evaluators : eval[e].pc = "sent" => eval[e].result # "none"

TypeInv == TypeOK /\ OnlyFindingsAreSent /\ SentHasResult

\* What a decision leaves behind has its types, whoever made it.
LEMMA DecidedTypes ==
  ASSUME TypeInv, NEW e \in Evaluators, NEW k \in Keys, NEW row \in Incident,
         NEW reason \in Reasons, NEW changed \in BOOLEAN, Decided(e, k, row, reason, changed)
  PROVE  /\ eval' \in [Evaluators -> Eval]
         /\ missed' \subseteq Keys \X Nat
         /\ creations' \in [Keys -> Nat]
         /\ clock' = IF changed THEN clock + 1 ELSE clock
         /\ UNCHANGED <<evidence, posture, events, told, repeated, unsaved, bounds>>
         /\ OnlyFindingsAreSent' /\ SentHasResult'
<1>1. row.change \in Nat /\ eval[e] \in Eval /\ eval[e].found \in Assessments
  BY DEF TypeInv, TypeOK, Incident, Eval
<1> DEFINE next == [Idle EXCEPT !.pc = "decided", !.found = eval[e].found,
                                !.reason = reason, !.at = row.change]
<1>2. next \in Eval /\ next.pc = "decided"
  BY <1>1, InitialValues DEF Eval
<1>3. eval' = [eval EXCEPT ![e] = next] \/ eval' = [eval EXCEPT ![e] = Idle]
  BY DEF Decided
<1> HIDE DEF next
<1>4. eval' \in [Evaluators -> Eval] /\ OnlyFindingsAreSent' /\ SentHasResult'
  BY <1>2, <1>3, InitialValues DEF TypeInv, TypeOK, OnlyFindingsAreSent, SentHasResult, IsFinding
<1>5. missed' \subseteq Keys \X Nat /\ creations' \in [Keys -> Nat]
  BY <1>1 DEF Decided, TypeInv, TypeOK
<1> QED BY <1>4, <1>5 DEF Decided

LEMMA TypeStep == TypeInv /\ [Next]_vars => TypeInv'
<1> SUFFICES ASSUME TypeInv, [Next]_vars PROVE TypeInv'
  OBVIOUS
<1> USE DEF TypeInv
<1>1. ASSUME NEW e \in Evaluators, Assess(e) PROVE TypeInv'
  <2> DEFINE next == [Idle EXCEPT !.pc = "assessed", !.found = evidence, !.posture = posture]
  <2>1. next \in Eval /\ next.pc = "assessed"
    BY InitialValues DEF TypeOK, Eval
  <2>2. eval' = [eval EXCEPT ![e] = next]
    BY <1>1 DEF Assess
  <2> HIDE DEF next
  <2>3. eval' \in [Evaluators -> Eval] /\ OnlyFindingsAreSent' /\ SentHasResult'
    BY <2>1, <2>2 DEF TypeOK, OnlyFindingsAreSent, SentHasResult, IsFinding
  <2> QED BY <1>1, <2>3 DEF Assess, TypeOK, history, bounds
<1>2. ASSUME NEW e \in Evaluators, Lookup(e) PROVE TypeInv'
  <2> DEFINE a == eval[e].found
             seen == IF IsFinding(a) THEN incident[Key(a)] ELSE NoIncident
             closing == IF IsFinding(a) THEN {} ELSE ToClose(a)
             next == [eval[e] EXCEPT !.pc = "looked", !.seen = seen, !.closing = closing]
  <2>1. eval[e] \in Eval /\ a \in Assessments
    BY DEF TypeOK, Eval
  <2>2. seen \in Incident
    BY <2>1, InitialValues, FindingKey DEF TypeOK
  <2>3. closing \in SUBSET Keys
    BY DEF ToClose
  <2>4. eval' = [eval EXCEPT ![e] = next]
    BY <1>2 DEF Lookup
  <2> HIDE DEF seen, closing
  <2>5. next \in Eval /\ next.pc = "looked"
    BY <2>1, <2>2, <2>3 DEF Eval
  <2> HIDE DEF next
  <2>6. eval' \in [Evaluators -> Eval] /\ OnlyFindingsAreSent' /\ SentHasResult'
    BY <2>4, <2>5 DEF TypeOK, OnlyFindingsAreSent, SentHasResult, IsFinding
  <2> QED BY <1>2, <2>6 DEF Lookup, TypeOK, history, bounds
<1>3. ASSUME NEW e \in Evaluators, Create(e) PROVE TypeInv'
  <2> DEFINE a == eval[e].found
             k == Key(a)
             row == [NoIncident EXCEPT !.status = "open", !.state = a.state, !.change = clock + 1]
             reason == ShouldNotify(e, k, row, TRUE, FALSE)
  <2>1. a \in Assessments /\ a.state \in States /\ clock \in Nat
    BY DEF TypeOK, Eval, Assessments
  <2>2. k \in Keys
    BY <1>3, <2>1, FindingKey DEF Create
  <2>3. row \in Incident /\ row.change = clock + 1
    <3> DEFINE state == a.state
               change == clock + 1
    <3>1. state \in States /\ change \in Nat /\ NoIncident \in Incident
      BY <2>1, InitialValues
    <3>2. row = [NoIncident EXCEPT !.status = "open", !.state = state, !.change = change]
      OBVIOUS
    <3> HIDE DEF row, state, change
    <3>3. row \in Incident /\ row.change = change
      BY <3>1, <3>2 DEF Incident, Active
    <3> QED BY <3>3 DEF change
  <2>4. Decided(e, k, row, reason, TRUE)
    BY <1>3 DEF Create
  <2>5. incident' = [i \in Keys |->
          IF i = k THEN row
          ELSE IF i[1] = k[1] /\ incident[i].status \in Active THEN Resolve(incident[i])
          ELSE incident[i]]
    BY <1>3 DEF Create
  <2>6. reason \in Reasons
    BY Decision
  <2> HIDE DEF row, reason, k
  <2>7. clock' = clock + 1 /\ incident' \in [Keys -> Incident]
    BY <2>2, <2>3, <2>4, <2>5, <2>6, DecidedTypes, ResolvedRow DEF TypeOK
  <2>8. \A i \in Keys : incident'[i].change <= clock'
    BY <2>1, <2>3, <2>5, <2>7, ResolvedRow DEF TypeOK, Incident
  <2>9. TRUE \in BOOLEAN
    OBVIOUS
  <2>10. /\ eval' \in [Evaluators -> Eval] /\ missed' \subseteq Keys \X Nat
         /\ creations' \in [Keys -> Nat]
         /\ UNCHANGED <<evidence, posture, events, told, repeated, unsaved, bounds>>
         /\ OnlyFindingsAreSent' /\ SentHasResult'
    BY <2>2, <2>3, <2>4, <2>6, <2>9, DecidedTypes
  <2> QED BY <2>1, <2>7, <2>8, <2>10 DEF TypeOK, bounds
<1>4. ASSUME NEW e \in Evaluators, Update(e) PROVE TypeInv'
  <2> DEFINE a == eval[e].found
             k == Key(a)
             raced == Missing(eval[e].seen)
             r == IF raced THEN incident[k] ELSE eval[e].seen
             material == r.state # a.state \/ r.status = "resolved"
             row == UpdateRow(r, incident[k], a.state)
             mine == UpdateRow(r, r, a.state)
             reason == ShouldNotify(e, k, mine, FALSE, material)
  <2>1. a \in Assessments /\ a.state \in States /\ clock \in Nat /\ eval[e].seen \in Incident
    BY DEF TypeOK, Eval, Assessments
  <2>2. k \in Keys /\ incident[k] \in Incident /\ ~Missing(incident[k])
    BY <1>4, <2>1, FindingKey DEF Update, TypeOK
  <2>3. r \in Incident
    BY <2>1, <2>2
  <2>4. Decided(e, k, row, reason, material)
    BY <1>4 DEF Update
  <2>5. incident' = [i \in Keys |->
          IF i = k THEN row
          ELSE IF raced /\ i[1] = k[1] /\ incident[i].status \in Active
               THEN Resolve(incident[i])
          ELSE incident[i]]
    BY <1>4 DEF Update
  <2> HIDE DEF r, k, mine
  <2>6. /\ row \in Incident
        /\ row.change = IF material THEN clock + 1 ELSE incident[k].change
    BY <2>1, <2>2, <2>3, UpdatedRow
  <2>7. reason \in Reasons /\ material \in BOOLEAN
    BY Decision
  <2> HIDE DEF row, material, reason, raced
  <2>8. clock' = (IF material THEN clock + 1 ELSE clock) /\ incident' \in [Keys -> Incident]
    BY <2>2, <2>4, <2>5, <2>6, <2>7, DecidedTypes, ResolvedRow DEF TypeOK
  <2>9. \A i \in Keys : incident'[i].change <= clock'
    BY <2>1, <2>2, <2>5, <2>6, <2>8, ResolvedRow DEF TypeOK, Incident
  <2> QED BY <2>1, <2>2, <2>4, <2>6, <2>7, <2>8, <2>9, DecidedTypes DEF TypeOK, bounds
<1>5. ASSUME NEW e \in Evaluators, Close(e) PROVE TypeInv'
  <2> DEFINE at == clock + 1
             found == eval[e].found
             closing == eval[e].closing
             next == [Idle EXCEPT !.pc = "decided", !.found = found, !.closing = closing, !.at = at]
  <2>1. /\ clock \in Nat /\ at \in Nat /\ found \in Assessments /\ closing \in SUBSET Keys
        /\ Idle \in Eval /\ Idle.pc = "idle"
    BY InitialValues DEF TypeOK, Eval
  <2>2. eval' = [eval EXCEPT ![e] = next] \/ eval' = [eval EXCEPT ![e] = Idle]
    BY <1>5 DEF Close
  <2>3. next \in Eval /\ next.pc = "decided"
    <3>1. next = [Idle EXCEPT !.pc = "decided", !.found = found, !.closing = closing, !.at = at]
      OBVIOUS
    <3> HIDE DEF next, at, found, closing
    <3> QED BY <2>1, <3>1 DEF Eval
  <2> HIDE DEF next
  <2>4. eval' \in [Evaluators -> Eval] /\ OnlyFindingsAreSent' /\ SentHasResult'
    BY <2>1, <2>2, <2>3 DEF TypeOK, OnlyFindingsAreSent, SentHasResult, IsFinding
  <2>5. incident' \in [Keys -> Incident] /\ \A k \in Keys : incident'[k].change = incident[k].change
    BY <1>5, ResolvedRow DEF Close, TypeOK
  <2>6. clock' \in Nat /\ clock <= clock'
    BY <1>5, <2>1 DEF Close
  <2>7. \A k \in Keys : incident'[k].change <= clock'
    BY <2>1, <2>5, <2>6 DEF TypeOK, Incident
  <2> QED BY <1>5, <2>4, <2>5, <2>6, <2>7 DEF Close, TypeOK, history, bounds
<1>6. ASSUME NEW e \in Evaluators, Enqueue(e) PROVE TypeInv'
  <2> DEFINE a == eval[e].found
             Event(reason, k) == [reason |-> reason, key |-> k, at |-> eval[e].at]
             next == IF IsFinding(a) THEN [eval[e] EXCEPT !.pc = "enqueued"] ELSE Idle
  <2>1. /\ eval[e] \in Eval /\ a \in Assessments /\ eval[e].reason \in Reasons
        /\ eval[e].at \in Nat /\ eval[e].closing \subseteq Keys
    BY DEF TypeOK, Eval
  <2>2. eval' = [eval EXCEPT ![e] = next]
    BY <1>6 DEF Enqueue
  <2>3. /\ next \in Eval /\ next.pc \in {"idle", "enqueued"}
        /\ next.pc = "enqueued" => IsFinding(next.found)
    BY <2>1, InitialValues DEF Eval
  <2> HIDE DEF next
  <2>4. eval' \in [Evaluators -> Eval] /\ OnlyFindingsAreSent' /\ SentHasResult'
    BY <2>2, <2>3 DEF TypeOK, OnlyFindingsAreSent, SentHasResult, IsFinding
  <2>5. events' \subseteq [reason : Reasons \cup {"resolved"}, key : Keys, at : Nat]
    <3>1. CASE IsFinding(a)
      <4>1. events' = events \cup {Event(eval[e].reason, Key(a))}
        BY <1>6, <3>1 DEF Enqueue
      <4> QED BY <2>1, <3>1, <4>1, FindingKey DEF TypeOK
    <3>2. CASE ~IsFinding(a)
      <4>1. events' = events \cup {Event("resolved", k) : k \in eval[e].closing}
        BY <1>6, <3>2 DEF Enqueue
      <4> QED BY <2>1, <4>1 DEF TypeOK
    <3> QED BY <3>1, <3>2
  <2> QED BY <1>6, <2>4, <2>5 DEF Enqueue, TypeOK, history, bounds
<1>7. ASSUME NEW e \in Evaluators, NEW result \in {"accepted", "skipped", "failed"},
             Send(e, result)
      PROVE  TypeInv'
  <2> DEFINE next == [eval[e] EXCEPT !.pc = "sent", !.result = result]
             version == <<Key(eval[e].found), eval[e].at>>
  <2>1. eval[e] \in Eval /\ eval[e].found \in Assessments /\ IsFinding(eval[e].found)
    BY <1>7 DEF TypeOK, Eval, Send, OnlyFindingsAreSent
  <2>2. eval' = [eval EXCEPT ![e] = next]
    BY <1>7 DEF Send
  <2>3. next \in Eval /\ next.result = result /\ next.found = eval[e].found
    BY <2>1 DEF Eval
  <2> HIDE DEF next
  <2>4. eval' \in [Evaluators -> Eval] /\ OnlyFindingsAreSent' /\ SentHasResult'
    BY <2>1, <2>2, <2>3 DEF TypeOK, OnlyFindingsAreSent, SentHasResult, IsFinding
  <2>5. version \in Keys \X Nat
    BY <2>1, FindingKey DEF Eval
  <2>6. told' \subseteq Keys \X Nat /\ repeated' \subseteq told'
    BY <1>7, <2>5 DEF Send, TypeOK
  <2> QED BY <1>7, <2>4, <2>6 DEF Send, TypeOK, bounds
<1>8. ASSUME NEW e \in Evaluators, RecordResult(e) PROVE TypeInv'
  <2> DEFINE k == Key(eval[e].found)
             row == WithResult(incident[k], eval[e].result)
  <2>1. /\ eval[e].found \in Assessments /\ IsFinding(eval[e].found)
        /\ eval[e].result \in {"accepted", "skipped", "failed"}
    BY <1>8 DEF TypeOK, Eval, RecordResult, OnlyFindingsAreSent, SentHasResult
  <2>2. k \in Keys
    BY <2>1, FindingKey
  <2>3. row \in Incident /\ row.change = incident[k].change
    BY <2>1, <2>2, ResultRow DEF TypeOK
  <2>4. incident' = [incident EXCEPT ![k] = row] /\ eval' = [eval EXCEPT ![e] = Idle]
    BY <1>8 DEF RecordResult
  <2> HIDE DEF row, k
  <2>5. incident' \in [Keys -> Incident] /\ \A i \in Keys : incident'[i].change <= clock
    BY <2>2, <2>3, <2>4 DEF TypeOK
  <2>6. eval' \in [Evaluators -> Eval] /\ OnlyFindingsAreSent' /\ SentHasResult'
    BY <2>4, InitialValues DEF TypeOK, OnlyFindingsAreSent, SentHasResult, IsFinding
  <2> QED BY <1>8, <2>5, <2>6 DEF RecordResult, TypeOK, history, bounds
<1>9. ASSUME NEW k \in Keys, NEW status \in {"acknowledged", "snoozed"}, OperatorAction(k, status)
      PROVE  TypeInv'
  <2> DEFINE snooze == IF status = "snoozed" THEN "active" ELSE incident[k].snooze
             row == [incident[k] EXCEPT !.status = status, !.snooze = snooze]
  <2>1. incident[k] \in Incident /\ snooze \in {"none", "active", "over"}
    BY DEF TypeOK, Incident
  <2>2. incident' \in [Keys -> Incident] /\ \A i \in Keys : incident'[i].change <= clock
    <3>1. incident' = [incident EXCEPT ![k] = row]
      BY <1>9 DEF OperatorAction
    <3> HIDE DEF snooze
    <3>2. row \in Incident /\ row.change = incident[k].change
      BY <2>1 DEF Incident, Active
    <3> HIDE DEF row
    <3> QED BY <3>1, <3>2 DEF TypeOK
  <2>3. actions' \in 0..MaxActions
    BY <1>9, IncidentsAssumption DEF OperatorAction, TypeOK
  <2> QED BY <1>9, <2>2, <2>3 DEF OperatorAction, TypeOK, history, OnlyFindingsAreSent, SentHasResult
<1>10. ASSUME NEW k \in Keys, SnoozeEnds(k) PROVE TypeInv'
  <2>1. incident' \in [Keys -> Incident] /\ \A i \in Keys : incident'[i].change <= clock
    BY <1>10 DEF SnoozeEnds, TypeOK, Incident
  <2> QED BY <1>10, <2>1 DEF SnoozeEnds, TypeOK, history, bounds, OnlyFindingsAreSent, SentHasResult
<1>11. ASSUME NEW p \in Postures, SetPosture(p) PROVE TypeInv'
  BY <1>11, IncidentsAssumption DEF SetPosture, TypeOK, history, OnlyFindingsAreSent, SentHasResult
<1>12. ASSUME NEW a \in Assessments, NewEvidence(a) PROVE TypeInv'
  BY <1>12, IncidentsAssumption DEF NewEvidence, TypeOK, history, OnlyFindingsAreSent, SentHasResult
<1>13. ASSUME Crash PROVE TypeInv'
  <2> DEFINE version(e) == <<Key(eval[e].found), eval[e].at>>
             InState(states) == {e \in Evaluators : eval[e].pc \in states /\ IsFinding(eval[e].found)}
  <2>1. \A e \in Evaluators : IsFinding(eval[e].found) => version(e) \in Keys \X Nat
    BY FindingKey DEF TypeOK, Eval
  <2>2. /\ missed' = missed \cup {version(e) : e \in InState({"decided", "enqueued", "sent"})}
        /\ unsaved' = unsaved \cup {version(e) : e \in InState({"sent"})}
    BY <1>13 DEF Crash
  <2> HIDE DEF version
  <2>3. missed' \subseteq Keys \X Nat /\ unsaved' \subseteq Keys \X Nat
    BY <2>1, <2>2 DEF TypeOK
  <2>4. eval' \in [Evaluators -> Eval] /\ OnlyFindingsAreSent' /\ SentHasResult'
    BY <1>13, InitialValues DEF Crash, OnlyFindingsAreSent, SentHasResult
  <2> QED BY <1>13, <2>3, <2>4, IncidentsAssumption DEF Crash, TypeOK
<1>14. CASE UNCHANGED vars
  BY <1>14 DEF vars, TypeOK, OnlyFindingsAreSent, SentHasResult, IsFinding
<1> QED
  BY <1>1, <1>2, <1>3, <1>4, <1>5, <1>6, <1>7, <1>8, <1>9, <1>10, <1>11, <1>12, <1>13, <1>14
     DEF Next, Evaluate, Notify

\* The program starts with every variable in its type.
LEMMA TypeInit == Init => TypeInv
BY InitialValues, IncidentsAssumption
   DEF Init, TypeInv, TypeOK, OnlyFindingsAreSent, SentHasResult

\* Every variable has its type, no row was changed later than now, and only the
\* versions of findings are sent.
LEMMA TypeInvariance == Spec => []TypeInv
BY TypeInit, TypeStep, PTL DEF Spec

\* Every variable has its type and no row was changed later than now: whichever
\* column of the row an evaluation, a result or an operator writes.
THEOREM TypeCorrect == Spec => []TypeOK
BY TypeInvariance, PTL DEF TypeInv

-----------------------------------------------------------------------------
(***************************************************************************)
(* What a decision does                                                    *)
(***************************************************************************)
\* A row that does not exist carries no notification result.
MissingIsUntold ==
  \A k \in Keys : Missing(incident[k]) => ~incident[k].notified /\ incident[k].delivery = "none"

\* e is on its way to tell SentVersion(e), or to record that it did.
Sending(e) == eval[e].pc \in {"decided", "enqueued", "sent"} /\ IsFinding(eval[e].found)
SentVersion(e) == <<Key(eval[e].found), eval[e].at>>

\* What e knows of the rows: nobody but the scheduler writes notification
\* results, so the row it looked up is stale in other columns only; the rows to
\* close or to notify exist; only the scheduler goes on after a decision.
Sound(e) ==
  /\ e = "scheduler" /\ eval[e].pc = "looked" /\ IsFinding(eval[e].found)
       => eval[e].seen.notified = incident[Key(eval[e].found)].notified
  /\ \A k \in eval[e].closing : ~Missing(incident[k])
  /\ Sending(e) => ~Missing(incident[Key(eval[e].found)])
  /\ e # "scheduler" => eval[e].pc \notin {"decided", "enqueued", "sent"}

RowInv == MissingIsUntold /\ \A e \in Evaluators : Sound(e)

\* Creating or updating the row of key k, seen through what the properties
\* relate: versions, notification results and who goes on to send.
DecisionEffect(e, k, sends, changed) ==
  /\ eval[e].pc = "looked" /\ IsFinding(eval[e].found) /\ k = Key(eval[e].found) /\ k \in Keys
  /\ sends => e = "scheduler"
  /\ Missing(incident[k]) => changed
  /\ sends /\ ~changed => ~incident[k].notified
  /\ incident' \in [Keys -> Incident]
  /\ ~Missing(incident'[k])
  /\ incident'[k].change = IF changed THEN clock + 1 ELSE incident[k].change
  /\ \A i \in Keys : /\ incident'[i].notified = incident[i].notified
                     /\ incident'[i].delivery = incident[i].delivery
  /\ \A i \in Keys \ {k} : /\ incident'[i].change = incident[i].change
                           /\ Missing(incident'[i]) <=> Missing(incident[i])
  /\ clock' = IF changed THEN clock + 1 ELSE clock
  /\ missed' = IF changed /\ ~sends THEN missed \cup {<<k, incident'[k].change>>} ELSE missed
  /\ \A d \in Evaluators \ {e} : eval'[d] = eval[d]
  /\ IF sends
     THEN /\ eval'[e].pc = "decided" /\ eval'[e].found = eval[e].found
          /\ eval'[e].at = incident'[k].change
     ELSE eval'[e] = Idle
  /\ eval'[e].closing = {}
  /\ \A i \in Keys \ {k} : creations'[i] = creations[i]
  /\ creations'[k] = creations[k] \/ (Missing(incident[k]) /\ creations'[k] = creations[k] + 1)
  /\ UNCHANGED <<events, told, repeated, unsaved>>

\* The reason of a decision: only a new row is announced as created, and only a
\* row never told is tried again (_should_notify).
LEMMA ReasonOfDecision ==
  ASSUME NEW e, NEW k, NEW r, NEW material \in BOOLEAN
  PROVE  /\ ShouldNotify(e, k, r, FALSE, material) # "created"
         /\ ~material /\ ShouldNotify(e, k, r, FALSE, material) # "none" => ~r.notified
BY DEF ShouldNotify

\* An updated row keeps its notification results.
LEMMA UpdateKeepsResult ==
  ASSUME NEW r \in Incident, NEW old \in Incident, NEW state \in States
  PROVE  /\ UpdateRow(r, old, state).notified = old.notified
         /\ UpdateRow(r, old, state).delivery = old.delivery
BY DEF UpdateRow, Incident

LEMMA DecidedEffect ==
  ASSUME TypeInv, NEW e \in Evaluators, NEW k \in Keys, NEW row \in Incident,
         NEW reason \in Reasons, NEW changed \in BOOLEAN, Decided(e, k, row, reason, changed)
  PROVE  LET sends == e = "scheduler" /\ reason # "none" IN
         /\ \A d \in Evaluators \ {e} : eval'[d] = eval[d]
         /\ IF sends
            THEN /\ eval'[e].pc = "decided" /\ eval'[e].found = eval[e].found
                 /\ eval'[e].at = row.change
            ELSE eval'[e] = Idle
         /\ eval'[e].closing = {}
         /\ missed' = IF changed /\ ~sends THEN missed \cup {<<k, row.change>>} ELSE missed
         /\ \A i \in Keys \ {k} : creations'[i] = creations[i]
         /\ creations'[k] = creations[k] + (IF reason = "created" THEN 1 ELSE 0)
<1> DEFINE found == eval[e].found
           at == row.change
           next == [Idle EXCEPT !.pc = "decided", !.found = found, !.reason = reason, !.at = at]
<1>1. Idle \in Eval /\ Idle.closing = {}
  BY InitialValues DEF Idle
<1>2. next.pc = "decided" /\ next.found = found /\ next.at = at /\ next.closing = {}
  BY <1>1 DEF Eval
<1>3. eval' = [eval EXCEPT ![e] = IF e = "scheduler" /\ reason # "none" THEN next ELSE Idle]
  BY DEF Decided
<1> HIDE DEF next, found, at
<1>4. eval \in [Evaluators -> Eval] /\ creations \in [Keys -> Nat]
  BY DEF TypeInv, TypeOK
<1> QED BY <1>1, <1>2, <1>3, <1>4 DEF Decided, found, at

\* Creating a row is such a decision (_create_incident_row).
LEMMA CreateEffect ==
  ASSUME TypeInv, RowInv, NEW e \in Evaluators, Create(e)
  PROVE  \E sends \in BOOLEAN : DecisionEffect(e, Key(eval[e].found), sends, TRUE)
<1> DEFINE a == eval[e].found
           k == Key(a)
           state == a.state
           change == clock + 1
           row == [NoIncident EXCEPT !.status = "open", !.state = state, !.change = change]
           reason == ShouldNotify(e, k, row, TRUE, FALSE)
           sends == e = "scheduler" /\ reason # "none"
<1>1. a \in Assessments /\ state \in States /\ change \in Nat
  BY DEF TypeInv, TypeOK, Eval, Assessments
<1>2. /\ eval[e].pc = "looked" /\ IsFinding(a) /\ Missing(incident[k])
      /\ Decided(e, k, row, reason, TRUE)
      /\ incident' = [i \in Keys |->
           IF i = k THEN row
           ELSE IF i[1] = k[1] /\ incident[i].status \in Active THEN Resolve(incident[i])
           ELSE incident[i]]
  BY DEF Create
<1>3. k \in Keys
  BY <1>1, <1>2, FindingKey
<1>4. reason \in Reasons /\ TRUE \in BOOLEAN
  BY Decision
<1>5. row \in Incident /\ row.change = change /\ row.status = "open"
      /\ row.notified = FALSE /\ row.delivery = "none"
  <2>1. /\ NoIncident \in Incident /\ NoIncident.notified = FALSE
        /\ NoIncident.delivery = "none"
    BY InitialValues DEF NoIncident
  <2> HIDE DEF state, change
  <2> QED BY <1>1, <2>1 DEF Incident, Active
<1> HIDE DEF row, reason, k
<1>6. /\ \A d \in Evaluators \ {e} : eval'[d] = eval[d]
      /\ IF sends
         THEN /\ eval'[e].pc = "decided" /\ eval'[e].found = eval[e].found
              /\ eval'[e].at = row.change
         ELSE eval'[e] = Idle
      /\ eval'[e].closing = {}
      /\ missed' = IF TRUE /\ ~sends THEN missed \cup {<<k, row.change>>} ELSE missed
      /\ \A i \in Keys \ {k} : creations'[i] = creations[i]
      /\ creations'[k] = creations[k] + (IF reason = "created" THEN 1 ELSE 0)
  BY <1>2, <1>3, <1>4, <1>5, DecidedEffect
<1>7. clock' = clock + 1 /\ UNCHANGED <<events, told, repeated, unsaved>>
  BY <1>2 DEF Decided
<1>8. /\ incident' \in [Keys -> Incident] /\ incident'[k] = row /\ ~Missing(row)
      /\ \A i \in Keys \ {k} :
           \/ incident'[i] = incident[i]
           \/ incident'[i] = Resolve(incident[i]) /\ incident[i].status \in Active
  BY <1>2, <1>3, <1>5, ResolvedRow DEF TypeInv, TypeOK, Missing
<1>9. \A i \in Keys \ {k} : /\ incident'[i].change = incident[i].change
                            /\ incident'[i].notified = incident[i].notified
                            /\ incident'[i].delivery = incident[i].delivery
                            /\ Missing(incident'[i]) <=> Missing(incident[i])
  BY <1>8 DEF Resolve, TypeInv, TypeOK, Incident, Active, Missing
<1>10. incident[k].notified = FALSE /\ incident[k].delivery = "none"
  BY <1>2, <1>3 DEF RowInv, MissingIsUntold, TypeInv, TypeOK, Incident
<1>11. creations'[k] = creations[k] \/ creations'[k] = creations[k] + 1
  BY <1>3, <1>6 DEF TypeInv, TypeOK
<1>12. DecisionEffect(e, k, sends, TRUE)
  BY <1>2, <1>3, <1>5, <1>6, <1>7, <1>8, <1>9, <1>10, <1>11 DEF DecisionEffect, k
<1> QED BY <1>12 DEF k

\* Updating a row is such a decision, whether the row was looked up or found by
\* losing the race to create it (_update_incident_row).
LEMMA UpdateEffect ==
  ASSUME TypeInv, RowInv, NEW e \in Evaluators, Update(e)
  PROVE  \E sends, changed \in BOOLEAN : DecisionEffect(e, Key(eval[e].found), sends, changed)
<1> DEFINE a == eval[e].found
           k == Key(a)
           raced == Missing(eval[e].seen)
           r == IF raced THEN incident[k] ELSE eval[e].seen
           material == r.state # a.state \/ r.status = "resolved"
           row == UpdateRow(r, incident[k], a.state)
           mine == UpdateRow(r, r, a.state)
           reason == ShouldNotify(e, k, mine, FALSE, material)
           sends == e = "scheduler" /\ reason # "none"
<1>1. a \in Assessments /\ a.state \in States /\ clock \in Nat /\ eval[e].seen \in Incident
  BY DEF TypeInv, TypeOK, Eval, Assessments
<1>2. /\ eval[e].pc = "looked" /\ IsFinding(a) /\ ~Missing(incident[k])
      /\ Decided(e, k, row, reason, material)
      /\ incident' = [i \in Keys |->
           IF i = k THEN row
           ELSE IF raced /\ i[1] = k[1] /\ incident[i].status \in Active
                THEN Resolve(incident[i])
           ELSE incident[i]]
  BY DEF Update
<1>3. k \in Keys /\ incident[k] \in Incident
  BY <1>1, <1>2, FindingKey DEF TypeInv, TypeOK
<1>4. r \in Incident /\ (e = "scheduler" => r.notified = incident[k].notified)
  BY <1>1, <1>2, <1>3 DEF RowInv, Sound
<1> HIDE DEF r, k
<1>5. /\ row \in Incident /\ ~Missing(row)
      /\ row.change = IF material THEN clock + 1 ELSE incident[k].change
      /\ row.notified = incident[k].notified /\ row.delivery = incident[k].delivery
      /\ mine.notified = r.notified
  BY <1>1, <1>2, <1>3, <1>4, UpdatedRow, UpdateKeepsResult
<1>6. /\ reason \in Reasons /\ material \in BOOLEAN /\ reason # "created"
      /\ ~material /\ reason # "none" => ~mine.notified
  BY Decision, ReasonOfDecision
<1> HIDE DEF row, mine, material, reason, raced
<1>7. /\ \A d \in Evaluators \ {e} : eval'[d] = eval[d]
      /\ IF sends
         THEN /\ eval'[e].pc = "decided" /\ eval'[e].found = eval[e].found
              /\ eval'[e].at = row.change
         ELSE eval'[e] = Idle
      /\ eval'[e].closing = {}
      /\ missed' = IF material /\ ~sends THEN missed \cup {<<k, row.change>>} ELSE missed
      /\ \A i \in Keys \ {k} : creations'[i] = creations[i]
      /\ creations'[k] = creations[k] + (IF reason = "created" THEN 1 ELSE 0)
  BY <1>2, <1>3, <1>5, <1>6, DecidedEffect
<1>8. /\ clock' = IF material THEN clock + 1 ELSE clock
      /\ UNCHANGED <<events, told, repeated, unsaved>>
  BY <1>2 DEF Decided
<1>9. /\ incident' \in [Keys -> Incident] /\ incident'[k] = row
      /\ \A i \in Keys \ {k} :
           \/ incident'[i] = incident[i]
           \/ incident'[i] = Resolve(incident[i]) /\ incident[i].status \in Active
  BY <1>2, <1>3, <1>5, ResolvedRow DEF TypeInv, TypeOK
<1>10. \A i \in Keys \ {k} : /\ incident'[i].change = incident[i].change
                             /\ incident'[i].notified = incident[i].notified
                             /\ incident'[i].delivery = incident[i].delivery
                             /\ Missing(incident'[i]) <=> Missing(incident[i])
  BY <1>9 DEF Resolve, TypeInv, TypeOK, Incident, Active, Missing
<1>11. creations'[k] = creations[k]
  BY <1>3, <1>6, <1>7 DEF TypeInv, TypeOK
<1>12. sends /\ ~material => ~incident[k].notified
  BY <1>4, <1>5, <1>6
<1>13. DecisionEffect(e, k, sends, material)
  BY <1>2, <1>3, <1>5, <1>7, <1>8, <1>9, <1>10, <1>11, <1>12 DEF DecisionEffect, k
<1> QED BY <1>6, <1>13 DEF k

-----------------------------------------------------------------------------
(***************************************************************************)
(* The steps that tell nobody anything                                     *)
(***************************************************************************)
\* The columns of a row that the properties relate.
RowsKept ==
  \A k \in Keys : /\ incident'[k].change = incident[k].change
                  /\ incident'[k].notified = incident[k].notified
                  /\ incident'[k].delivery = incident[k].delivery
                  /\ Missing(incident'[k]) <=> Missing(incident[k])

\* The version e is about to send has its event in the outbox.
Published(version) ==
  \E event \in events : <<event.key, event.at>> = version /\ event.reason # "resolved"

Quiet ==
  /\ RowsKept
  /\ UNCHANGED <<told, repeated, missed, unsaved, creations>>
  /\ clock <= clock' /\ events \subseteq events'
  /\ \A e \in Evaluators :
       \/ eval'[e] = eval[e]
       \/ ~Sending(e) /\ ~Sending(e)' /\ Sound(e)'
       \/ /\ Sound(e)'
          /\ eval[e].pc = "decided" /\ eval'[e].pc = "enqueued"
          /\ Sending(e) /\ eval'[e].found = eval[e].found /\ eval'[e].at = eval[e].at
          /\ Published(SentVersion(e))'

\* A new state of one evaluation leaves the others alone.
LEMMA OneEvaluation ==
  ASSUME TypeInv, NEW e \in Evaluators, NEW next, eval' = [eval EXCEPT ![e] = next]
  PROVE  eval'[e] = next /\ \A d \in Evaluators \ {e} : eval'[d] = eval[d]
BY DEF TypeInv, TypeOK

LEMMA AssessIsQuiet == TypeInv /\ RowInv /\ (\E e \in Evaluators : Assess(e)) => Quiet
<1> SUFFICES ASSUME TypeInv, RowInv, NEW e \in Evaluators, Assess(e) PROVE Quiet
  OBVIOUS
<1> DEFINE next == [Idle EXCEPT !.pc = "assessed", !.found = evidence, !.posture = posture]
<1>1. eval[e].pc = "idle" /\ eval' = [eval EXCEPT ![e] = next]
  BY DEF Assess
<1>2. next.pc = "assessed" /\ next.closing = {}
  BY InitialValues DEF Eval, Idle
<1> HIDE DEF next
<1>3. eval'[e] = next /\ \A d \in Evaluators \ {e} : eval'[d] = eval[d]
  BY <1>1, OneEvaluation
<1>4. ~Sending(e) /\ ~Sending(e)' /\ Sound(e)'
  BY <1>1, <1>2, <1>3 DEF Sending, Sound
<1>5. clock \in Nat /\ UNCHANGED <<incident, events, clock, told, repeated, missed, unsaved, creations>>
  BY DEF Assess, history, TypeInv, TypeOK
<1> QED BY <1>3, <1>4, <1>5 DEF Quiet, RowsKept

LEMMA LookupIsQuiet == TypeInv /\ RowInv /\ (\E e \in Evaluators : Lookup(e)) => Quiet
<1> SUFFICES ASSUME TypeInv, RowInv, NEW e \in Evaluators, Lookup(e) PROVE Quiet
  OBVIOUS
<1> DEFINE a == eval[e].found
           seen == IF IsFinding(a) THEN incident[Key(a)] ELSE NoIncident
           closing == IF IsFinding(a) THEN {} ELSE ToClose(a)
           next == [eval[e] EXCEPT !.pc = "looked", !.seen = seen, !.closing = closing]
<1>1. eval[e].pc = "assessed" /\ eval' = [eval EXCEPT ![e] = next] /\ eval[e] \in Eval
  BY DEF Lookup, TypeInv, TypeOK
<1>2. IsFinding(a) => seen = incident[Key(a)]
  OBVIOUS
<1>3. \A k \in closing : ~Missing(incident[k])
  BY DEF ToClose, Active, Missing
<1> HIDE DEF seen, closing, a
<1>4. next.pc = "looked" /\ next.seen = seen /\ next.closing = closing /\ next.found = a
  BY <1>1 DEF Eval, a
<1> HIDE DEF next
<1>5. eval'[e] = next /\ \A d \in Evaluators \ {e} : eval'[d] = eval[d]
  BY <1>1, OneEvaluation
<1>6. UNCHANGED incident
  BY DEF Lookup
<1>7. ~Sending(e) /\ ~Sending(e)' /\ Sound(e)'
  BY <1>1, <1>4, <1>5, <1>2, <1>3, <1>6 DEF Sending, Sound, Missing, IsFinding, Key
<1>8. clock \in Nat /\ UNCHANGED <<incident, events, clock, told, repeated, missed, unsaved, creations>>
  BY DEF Lookup, history, TypeInv, TypeOK
<1> QED BY <1>5, <1>7, <1>8 DEF Quiet, RowsKept

LEMMA CloseIsQuiet == TypeInv /\ RowInv /\ (\E e \in Evaluators : Close(e)) => Quiet
<1> SUFFICES ASSUME TypeInv, RowInv, NEW e \in Evaluators, Close(e) PROVE Quiet
  OBVIOUS
<1> DEFINE at == clock + 1
           found == eval[e].found
           closing == eval[e].closing
           next == [Idle EXCEPT !.pc = "decided", !.found = found, !.closing = closing, !.at = at]
<1>1. /\ eval[e].pc = "looked" /\ ~IsFinding(found)
      /\ eval' = [eval EXCEPT ![e] = next] \/ eval' = [eval EXCEPT ![e] = Idle]
      /\ incident' = [k \in Keys |-> IF k \in closing THEN Resolve(incident[k]) ELSE incident[k]]
      /\ clock' = IF closing = {} THEN clock ELSE clock + 1
      /\ UNCHANGED <<events, told, repeated, missed, unsaved, creations>>
  BY DEF Close, history
<1>2. /\ Idle \in Eval /\ Idle.pc = "idle" /\ Idle.closing = {}
      /\ clock \in Nat /\ incident \in [Keys -> Incident]
  BY InitialValues DEF TypeInv, TypeOK, Idle
<1>3. next.found = found /\ next.pc = "decided" /\ next.closing = closing
  BY <1>2 DEF Eval
<1>4. closing \subseteq Keys /\ \A k \in closing : ~Missing(incident[k])
  BY DEF RowInv, Sound, TypeInv, TypeOK, Eval
<1>5. e # "scheduler" => eval' = [eval EXCEPT ![e] = Idle]
  BY DEF Close
<1> HIDE DEF next, found, closing
<1>6. ~Sending(e)' /\ ~Sending(e) /\ \A d \in Evaluators \ {e} : eval'[d] = eval[d]
  BY <1>1, <1>2, <1>3, OneEvaluation DEF Sending, IsFinding, found
<1>7. RowsKept
  BY <1>1, <1>2, <1>4, ResolvedRow DEF RowsKept, Resolve, Incident
<1>8. clock <= clock'
  BY <1>1, <1>2
<1>9. Sound(e)'
  <2>1. \/ eval'[e] = Idle
        \/ eval'[e].pc = "decided" /\ eval'[e].closing = closing /\ e = "scheduler"
    BY <1>1, <1>3, <1>5, OneEvaluation
  <2>2. eval'[e].closing \subseteq closing /\ eval'[e].pc # "looked"
    <3>1. CASE eval'[e] = Idle
      BY <1>2, <3>1
    <3>2. CASE eval'[e].pc = "decided" /\ eval'[e].closing = closing
      BY <3>2
    <3> QED BY <2>1, <3>1, <3>2
  <2>3. \A k \in eval'[e].closing : ~Missing(incident'[k])
    <3>1. \A k \in closing : k \in Keys /\ ~Missing(incident[k])
      BY <1>4
    <3>2. \A k \in Keys : ~Missing(incident[k]) => ~Missing(incident'[k])
      BY <1>7 DEF RowsKept
    <3> QED BY <2>2, <3>1, <3>2
  <2>4. e # "scheduler" => eval'[e].pc \notin {"decided", "enqueued", "sent"}
    BY <1>2, <2>1
  <2> QED BY <1>6, <2>2, <2>3, <2>4 DEF Sound
<1> QED BY <1>1, <1>6, <1>7, <1>8, <1>9 DEF Quiet

LEMMA EnqueueIsQuiet == TypeInv /\ RowInv /\ (\E e \in Evaluators : Enqueue(e)) => Quiet
<1> SUFFICES ASSUME TypeInv, RowInv, NEW e \in Evaluators, Enqueue(e) PROVE Quiet
  OBVIOUS
<1> DEFINE a == eval[e].found
           event == [reason |-> eval[e].reason, key |-> Key(a), at |-> eval[e].at]
           next == IF IsFinding(a) THEN [eval[e] EXCEPT !.pc = "enqueued"] ELSE Idle
<1>1. /\ eval[e].pc = "decided" /\ eval[e] \in Eval /\ eval[e].reason # "resolved"
      /\ eval' = [eval EXCEPT ![e] = next]
      /\ IsFinding(a) => events' = events \cup {event}
      /\ events \subseteq events'
  BY DEF Enqueue, TypeInv, TypeOK, Eval, Reasons
<1>2. IsFinding(a) => /\ next.pc = "enqueued" /\ next.found = a /\ next.at = eval[e].at
                      /\ next.closing = eval[e].closing
  BY <1>1 DEF Eval
<1>3. ~IsFinding(a) => next.pc = "idle" /\ next.closing = {}
  BY InitialValues DEF Idle
<1>4. Sound(e) /\ UNCHANGED incident
  BY DEF RowInv, Enqueue
<1> HIDE DEF next
<1>5. eval'[e] = next /\ \A d \in Evaluators \ {e} : eval'[d] = eval[d]
  BY <1>1, OneEvaluation
<1>6. CASE IsFinding(a)
  <2>1. Sending(e) /\ eval'[e].pc = "enqueued" /\ eval'[e].found = a /\ eval'[e].at = eval[e].at
    BY <1>1, <1>2, <1>5, <1>6 DEF Sending
  <2>2. Published(SentVersion(e))'
    <3>1. event \in events' /\ event.reason # "resolved"
      BY <1>1, <1>6
    <3>2. <<event.key, event.at>> = SentVersion(e)'
      BY <2>1 DEF SentVersion, Key
    <3> QED BY <3>1, <3>2 DEF Published
  <2>3. clock \in Nat /\ UNCHANGED <<incident, clock, told, repeated, missed, unsaved, creations>>
    BY DEF Enqueue, history, TypeInv, TypeOK
  <2>4. Sound(e)'
    BY <1>1, <1>2, <1>5, <1>6, <1>4, <2>1 DEF Sound, Sending, Missing, IsFinding, Key
  <2> QED BY <1>1, <1>5, <2>1, <2>2, <2>3, <2>4 DEF Quiet, RowsKept
<1>7. CASE ~IsFinding(a)
  <2>1. ~Sending(e) /\ ~Sending(e)'
    BY <1>3, <1>5, <1>7 DEF Sending
  <2>2. Sound(e)'
    BY <1>3, <1>5, <1>7, <2>1 DEF Sound
  <2>3. clock \in Nat /\ UNCHANGED <<incident, clock, told, repeated, missed, unsaved, creations>>
    BY DEF Enqueue, history, TypeInv, TypeOK
  <2> QED BY <1>1, <1>5, <2>1, <2>3, <2>2 DEF Quiet, RowsKept
<1> QED BY <1>6, <1>7

\* Operators, time and evidence.
LEMMA OthersAreQuiet ==
  /\ TypeInv
  /\ \/ \E k \in Keys : \E status \in {"acknowledged", "snoozed"} : OperatorAction(k, status)
     \/ \E k \in Keys : SnoozeEnds(k)
     \/ \E p \in Postures : SetPosture(p)
     \/ \E a \in Assessments : NewEvidence(a)
     \/ UNCHANGED vars
  => Quiet
<1> SUFFICES ASSUME TypeInv,
                    \/ \E k \in Keys : \E status \in {"acknowledged", "snoozed"} :
                         OperatorAction(k, status)
                    \/ \E k \in Keys : SnoozeEnds(k)
                    \/ \E p \in Postures : SetPosture(p)
                    \/ \E a \in Assessments : NewEvidence(a)
                    \/ UNCHANGED vars
             PROVE  Quiet
  OBVIOUS
<1>1. clock \in Nat /\ UNCHANGED <<eval, events, clock, told, repeated, missed, unsaved, creations>>
  BY DEF OperatorAction, SnoozeEnds, SetPosture, NewEvidence, vars, history, TypeInv, TypeOK
<1>2. RowsKept
  <2>1. ASSUME NEW k \in Keys, NEW status \in {"acknowledged", "snoozed"}, OperatorAction(k, status)
        PROVE  RowsKept
    BY <2>1 DEF OperatorAction, RowsKept, TypeInv, TypeOK, Incident, Missing
  <2>2. ASSUME NEW k \in Keys, SnoozeEnds(k) PROVE RowsKept
    BY <2>2 DEF SnoozeEnds, RowsKept, TypeInv, TypeOK, Incident, Missing
  <2>3. ASSUME UNCHANGED incident PROVE RowsKept
    BY <2>3 DEF RowsKept
  <2> QED BY <2>1, <2>2, <2>3 DEF SetPosture, NewEvidence, vars
<1> QED BY <1>1, <1>2 DEF Quiet

-----------------------------------------------------------------------------
(***************************************************************************)
(* Every step is quiet, a decision, a send, a result or a crash            *)
(***************************************************************************)
\* e sends, and the target answers result.
SendEffect(e, result) ==
  LET accepted == IF result = "accepted" THEN {SentVersion(e)} ELSE {} IN
  /\ eval[e].pc = "enqueued" /\ IsFinding(eval[e].found)
  /\ eval'[e].pc = "sent" /\ eval'[e].found = eval[e].found /\ eval'[e].at = eval[e].at
  /\ eval'[e].result = result /\ eval'[e].closing = eval[e].closing
  /\ \A d \in Evaluators \ {e} : eval'[d] = eval[d]
  /\ told' = told \cup accepted
  /\ repeated' = repeated \cup (accepted \cap told)
  /\ UNCHANGED <<incident, clock, events, missed, unsaved, creations>>

LEMMA SendIsSend ==
  ASSUME TypeInv, NEW e \in Evaluators, NEW result \in {"accepted", "skipped", "failed"},
         Send(e, result)
  PROVE  SendEffect(e, result)
<1> DEFINE next == [eval[e] EXCEPT !.pc = "sent", !.result = result]
<1>1. /\ eval[e].pc = "enqueued" /\ eval[e] \in Eval /\ IsFinding(eval[e].found)
      /\ eval' = [eval EXCEPT ![e] = next]
  BY DEF Send, TypeInv, TypeOK, OnlyFindingsAreSent
<1>2. /\ next.pc = "sent" /\ next.found = eval[e].found /\ next.at = eval[e].at
      /\ next.result = result /\ next.closing = eval[e].closing
  BY <1>1 DEF Eval
<1> HIDE DEF next
<1>3. eval'[e] = next /\ \A d \in Evaluators \ {e} : eval'[d] = eval[d]
  BY <1>1, OneEvaluation
<1> QED BY <1>1, <1>2, <1>3 DEF Send, SendEffect, SentVersion

\* e records the result in the row of its incident.
ResultEffect(e) ==
  LET k == Key(eval[e].found) IN
  /\ eval[e].pc = "sent" /\ IsFinding(eval[e].found) /\ k \in Keys
  /\ eval'[e] = Idle
  /\ \A d \in Evaluators \ {e} : eval'[d] = eval[d]
  /\ \A i \in Keys \ {k} : incident'[i] = incident[i]
  /\ incident'[k].change = incident[k].change
  /\ Missing(incident'[k]) <=> Missing(incident[k])
  /\ incident'[k].notified = (incident[k].notified \/ eval[e].result = "accepted")
  /\ eval[e].result # "accepted" => incident'[k].delivery \in {"failed", "skipped"}
  /\ UNCHANGED <<clock, events, told, repeated, missed, unsaved, creations>>

LEMMA RecordIsResult ==
  ASSUME TypeInv, NEW e \in Evaluators, RecordResult(e)
  PROVE  ResultEffect(e)
<1> DEFINE k == Key(eval[e].found)
           result == eval[e].result
           row == WithResult(incident[k], result)
<1>1. /\ eval[e].pc = "sent" /\ eval[e].found \in Assessments /\ IsFinding(eval[e].found)
      /\ result \in {"accepted", "skipped", "failed"}
      /\ eval' = [eval EXCEPT ![e] = Idle] /\ incident' = [incident EXCEPT ![k] = row]
      /\ UNCHANGED <<clock, events, told, repeated, missed, unsaved, creations>>
  BY DEF TypeInv, TypeOK, Eval, RecordResult, OnlyFindingsAreSent, SentHasResult, history
<1>2. k \in Keys /\ incident[k] \in Incident /\ incident \in [Keys -> Incident]
  BY <1>1, FindingKey DEF TypeInv, TypeOK
<1> HIDE DEF result, k
<1>3. /\ row.change = incident[k].change /\ row.status = incident[k].status
      /\ row.notified = (incident[k].notified \/ result = "accepted")
      /\ result # "accepted" => row.delivery \in {"failed", "skipped"}
  BY <1>1, <1>2 DEF WithResult, Incident
<1> HIDE DEF row
<1>4. incident'[k] = row /\ \A i \in Keys \ {k} : incident'[i] = incident[i]
  BY <1>1, <1>2
<1>5. eval'[e] = Idle /\ \A d \in Evaluators \ {e} : eval'[d] = eval[d]
  BY <1>1, OneEvaluation
<1> QED BY <1>1, <1>2, <1>3, <1>4, <1>5 DEF ResultEffect, Missing, k, result

LEMMA StepKinds ==
  ASSUME TypeInv, RowInv, [Next]_vars
  PROVE  \/ Quiet
         \/ \E e \in Evaluators : \E sends, changed \in BOOLEAN :
              DecisionEffect(e, Key(eval[e].found), sends, changed)
         \/ \E e \in Evaluators : \E result \in {"accepted", "skipped", "failed"} :
              SendEffect(e, result)
         \/ \E e \in Evaluators : ResultEffect(e)
         \/ Crash
<1>1. CASE \E e \in Evaluators : Evaluate(e)
  BY <1>1, AssessIsQuiet, LookupIsQuiet, CloseIsQuiet, CreateEffect, UpdateEffect DEF Evaluate
<1>2. CASE \E e \in Evaluators : Notify(e)
  BY <1>2, EnqueueIsQuiet, SendIsSend, RecordIsResult DEF Notify
<1>3. CASE \E k \in Keys : OperatorAction(k, "acknowledged") \/ OperatorAction(k, "snoozed")
                          \/ SnoozeEnds(k)
  BY <1>3, OthersAreQuiet
<1>4. CASE (\E p \in Postures : SetPosture(p)) \/ (\E a \in Assessments : NewEvidence(a))
           \/ UNCHANGED vars
  BY <1>4, OthersAreQuiet
<1> QED BY <1>1, <1>2, <1>3, <1>4 DEF Next

\* An evaluation that does not move stays sound while rows keep their results.
LEMMA SoundKept ==
  ASSUME TypeInv, NEW d \in Evaluators, Sound(d), eval'[d] = eval[d],
         d = "scheduler" => \A k \in Keys : incident'[k].notified = incident[k].notified,
         \A k \in Keys : Missing(incident'[k]) => Missing(incident[k])
  PROVE  Sound(d)'
<1>1. eval[d].closing \subseteq Keys /\ (IsFinding(eval[d].found) => Key(eval[d].found) \in Keys)
  BY FindingKey DEF TypeInv, TypeOK, Eval
<1> QED BY <1>1 DEF Sound, Sending, IsFinding, Key

LEMMA RowStep == TypeInv /\ RowInv /\ [Next]_vars => RowInv'
<1> SUFFICES ASSUME TypeInv, RowInv, [Next]_vars PROVE RowInv'
  OBVIOUS
<1>1. Idle.pc = "idle" /\ Idle.closing = {}
  BY InitialValues DEF Idle
<1>2. CASE Quiet
  <2>1. MissingIsUntold'
    BY <1>2 DEF Quiet, RowsKept, RowInv, MissingIsUntold, Missing
  <2>2. \A k \in Keys : /\ incident'[k].notified = incident[k].notified
                        /\ Missing(incident'[k]) => Missing(incident[k])
    BY <1>2 DEF Quiet, RowsKept
  <2>3. ASSUME NEW d \in Evaluators PROVE Sound(d)'
    BY <1>2, <2>2, <2>3, SoundKept DEF Quiet, RowInv
  <2> QED BY <2>1, <2>3 DEF RowInv
<1>3. ASSUME NEW e \in Evaluators, NEW sends \in BOOLEAN, NEW changed \in BOOLEAN,
             DecisionEffect(e, Key(eval[e].found), sends, changed)
      PROVE  RowInv'
  <2> DEFINE k == Key(eval[e].found)
  <2>1. \A i \in Keys : /\ incident'[i].notified = incident[i].notified
                        /\ incident'[i].delivery = incident[i].delivery
                        /\ Missing(incident'[i]) => Missing(incident[i])
    BY <1>3 DEF DecisionEffect
  <2>2. MissingIsUntold'
    BY <2>1 DEF RowInv, MissingIsUntold
  <2>3. Sound(e)'
    BY <1>1, <1>3 DEF DecisionEffect, Sound, Sending
  <2>4. ASSUME NEW d \in Evaluators \ {e} PROVE Sound(d)'
    <3>1. eval'[d] = eval[d]
      BY <1>3 DEF DecisionEffect
    <3> QED BY <2>1, <3>1, SoundKept DEF RowInv
  <2> QED BY <2>2, <2>3, <2>4 DEF RowInv
<1>4. ASSUME NEW e \in Evaluators, NEW result \in {"accepted", "skipped", "failed"},
             SendEffect(e, result)
      PROVE  RowInv'
  <2>1. UNCHANGED incident /\ Sound(e)
    BY <1>4 DEF SendEffect, RowInv
  <2>2. MissingIsUntold'
    BY <2>1 DEF RowInv, MissingIsUntold
  <2>3. Sound(e)'
    BY <1>4, <2>1 DEF SendEffect, Sound, Sending, IsFinding, Key
  <2>4. ASSUME NEW d \in Evaluators \ {e} PROVE Sound(d)'
    <3>1. eval'[d] = eval[d]
      BY <1>4 DEF SendEffect
    <3> QED BY <2>1, <3>1, SoundKept DEF RowInv
  <2> QED BY <2>2, <2>3, <2>4 DEF RowInv
<1>5. ASSUME NEW e \in Evaluators, ResultEffect(e) PROVE RowInv'
  <2> DEFINE k == Key(eval[e].found)
  <2>1. e = "scheduler" /\ ~Missing(incident[k])
    BY <1>5 DEF ResultEffect, RowInv, Sound, Sending
  <2>2. \A i \in Keys : Missing(incident'[i]) => Missing(incident[i]) /\ incident'[i] = incident[i]
    BY <1>5, <2>1 DEF ResultEffect
  <2>3. MissingIsUntold'
    BY <2>2 DEF RowInv, MissingIsUntold
  <2>4. Sound(e)'
    BY <1>1, <1>5 DEF ResultEffect, Sound, Sending
  <2>5. ASSUME NEW d \in Evaluators \ {e} PROVE Sound(d)'
    <3>1. eval'[d] = eval[d] /\ d # "scheduler"
      BY <1>5, <2>1 DEF ResultEffect
    <3> QED BY <2>2, <3>1, SoundKept DEF RowInv
  <2> QED BY <2>3, <2>4, <2>5 DEF RowInv
<1>6. CASE Crash
  BY <1>1, <1>6 DEF Crash, RowInv, MissingIsUntold, Sound, Sending
<1> QED BY <1>2, <1>3, <1>4, <1>5, <1>6, StepKinds

LEMMA RowInit == Init => RowInv
<1>1. NoIncident.notified = FALSE /\ NoIncident.delivery = "none"
  BY DEF NoIncident
<1>2. Idle.pc = "idle" /\ Idle.closing = {}
  BY DEF Idle
<1>3. Init => MissingIsUntold
  BY <1>1 DEF Init, MissingIsUntold
<1>4. Init => \A e \in Evaluators : Sound(e)
  BY <1>2 DEF Init, Sound, Sending
<1> QED BY <1>3, <1>4 DEF RowInv

-----------------------------------------------------------------------------
(***************************************************************************)
(* An incident is announced once                                           *)
(***************************************************************************)
\* What was announced exists, and was announced once.
Announced ==
  \A k \in Keys : creations[k] = 0 \/ (creations[k] = 1 /\ ~Missing(incident[k]))

LEMMA AnnouncedStep == TypeInv /\ RowInv /\ Announced /\ [Next]_vars => Announced'
<1> SUFFICES ASSUME TypeInv, RowInv, Announced, [Next]_vars PROVE Announced'
  OBVIOUS
<1>1. CASE Quiet
  BY <1>1 DEF Quiet, RowsKept, Announced
<1>2. ASSUME NEW e \in Evaluators, NEW sends \in BOOLEAN, NEW changed \in BOOLEAN,
             DecisionEffect(e, Key(eval[e].found), sends, changed)
      PROVE  Announced'
  BY <1>2 DEF DecisionEffect, Announced
<1>3. ASSUME NEW e \in Evaluators, NEW result \in {"accepted", "skipped", "failed"},
             SendEffect(e, result)
      PROVE  Announced'
  BY <1>3 DEF SendEffect, Announced
<1>4. ASSUME NEW e \in Evaluators, ResultEffect(e) PROVE Announced'
  BY <1>4 DEF ResultEffect, Announced
<1>5. CASE Crash
  BY <1>5 DEF Crash, Announced
<1> QED BY <1>1, <1>2, <1>3, <1>4, <1>5, StepKinds

\* However the scheduler and API evaluations race to create an incident, it is
\* announced as new at most once, also after it was resolved and found again.
THEOREM Announcement == Spec => []AnnouncedOnce
<1>1. Init => TypeInv /\ RowInv /\ Announced
  BY TypeInit, RowInit DEF Init, Announced
<1>2. TypeInv /\ RowInv /\ Announced /\ [Next]_vars => (TypeInv /\ RowInv /\ Announced)'
  BY TypeStep, RowStep, AnnouncedStep
<1>3. Announced => AnnouncedOnce
  BY DEF Announced, AnnouncedOnce
<1> QED BY <1>1, <1>2, <1>3, PTL DEF Spec

-----------------------------------------------------------------------------
(***************************************************************************)
(* Nothing is told twice                                                   *)
(***************************************************************************)
\* Where a version that was told has left its trace: on the row, with the
\* evaluation that is recording it, or nowhere because that one died.
Traced(version) ==
  \/ version \in unsaved
  \/ incident[version[1]].notified
  \/ \E e \in Evaluators :
       eval[e].pc = "sent" /\ eval[e].result = "accepted" /\ SentVersion(e) = version

ToldInv ==
  /\ \A version \in told : version[2] <= clock /\ Traced(version)
  /\ \A e \in Evaluators :
       /\ Sending(e) => eval[e].at <= clock
       /\ Sending(e) /\ eval[e].pc # "sent" /\ SentVersion(e) \in told => SentVersion(e) \in unsaved
  /\ TellsOnce

LEMMA ToldStep == TypeInv /\ RowInv /\ ToldInv /\ [Next]_vars => ToldInv'
<1> SUFFICES ASSUME TypeInv, RowInv, ToldInv, [Next]_vars PROVE ToldInv'
  OBVIOUS
<1>1. /\ clock \in Nat /\ \A e \in Evaluators : eval[e].at \in Nat
      /\ told \subseteq Keys \X Nat
      /\ \A k \in Keys : incident[k].change \in Nat /\ incident[k].change <= clock
  BY DEF TypeInv, TypeOK, Eval, Incident
<1>2. clock' \in Nat
  BY TypeStep DEF TypeInv, TypeOK
<1>3. CASE Quiet
  <2>1. /\ UNCHANGED <<told, repeated, unsaved>> /\ clock <= clock'
        /\ \A k \in Keys : incident'[k].notified = incident[k].notified
        /\ \A e \in Evaluators :
             \/ eval'[e] = eval[e]
             \/ ~Sending(e) /\ ~Sending(e)'
             \/ /\ eval[e].pc = "decided" /\ eval'[e].pc = "enqueued"
                /\ Sending(e) /\ eval'[e].found = eval[e].found /\ eval'[e].at = eval[e].at
    BY <1>3 DEF Quiet, RowsKept
  <2>2. ASSUME NEW version \in told PROVE version[2] <= clock' /\ Traced(version)'
    <3>1. version[2] <= clock' /\ version[1] \in Keys
      BY <1>1, <1>2, <2>1 DEF ToldInv
    <3>2. CASE \E e \in Evaluators :
                 eval[e].pc = "sent" /\ eval[e].result = "accepted" /\ SentVersion(e) = version
      <4>1. PICK e \in Evaluators :
              eval[e].pc = "sent" /\ eval[e].result = "accepted" /\ SentVersion(e) = version
        BY <3>2
      <4>2. Sending(e)
        BY <4>1 DEF Sending, TypeInv, OnlyFindingsAreSent
      <4>3. eval'[e] = eval[e]
        BY <2>1, <4>1, <4>2
      <4> QED BY <3>1, <4>1, <4>3 DEF Traced, SentVersion, Key
    <3> QED BY <2>1, <3>1, <3>2 DEF ToldInv, Traced
  <2>3. ASSUME NEW e \in Evaluators
        PROVE  /\ Sending(e)' => eval'[e].at <= clock'
               /\ (Sending(e) /\ eval[e].pc # "sent" /\ SentVersion(e) \in told
                     => SentVersion(e) \in unsaved)'
    BY <1>1, <1>2, <2>1 DEF ToldInv, Sending, SentVersion, IsFinding, Key
  <2> QED BY <2>1, <2>2, <2>3 DEF ToldInv, TellsOnce
<1>4. ASSUME NEW e \in Evaluators, NEW sends \in BOOLEAN, NEW changed \in BOOLEAN,
             DecisionEffect(e, Key(eval[e].found), sends, changed)
      PROVE  ToldInv'
  <2> DEFINE k == Key(eval[e].found)
  <2>1. /\ UNCHANGED <<told, repeated, unsaved>> /\ clock <= clock' /\ k \in Keys
        /\ \A i \in Keys : incident'[i].notified = incident[i].notified
        /\ \A d \in Evaluators \ {e} : eval'[d] = eval[d]
        /\ eval[e].pc = "looked"
    BY <1>1, <1>4 DEF DecisionEffect
  <2>2. ASSUME NEW version \in told PROVE version[2] <= clock' /\ Traced(version)'
    <3>1. version[2] <= clock' /\ version[1] \in Keys
      BY <1>1, <1>2, <2>1 DEF ToldInv
    <3>2. \A d \in Evaluators : eval[d].pc = "sent" => eval'[d] = eval[d]
      BY <2>1
    <3> QED BY <2>1, <3>1, <3>2 DEF ToldInv, Traced, SentVersion, Key
  <2>3. ASSUME NEW d \in Evaluators \ {e}
        PROVE  /\ Sending(d)' => eval'[d].at <= clock'
               /\ (Sending(d) /\ eval[d].pc # "sent" /\ SentVersion(d) \in told
                     => SentVersion(d) \in unsaved)'
    BY <1>1, <1>2, <2>1 DEF ToldInv, Sending, SentVersion, IsFinding, Key
  <2>4. CASE ~sends
    <3>1. ~Sending(e)'
      BY <1>4, <2>4, InitialValues DEF DecisionEffect, Sending
    <3> QED BY <2>1, <2>2, <2>3, <3>1 DEF ToldInv, TellsOnce
  <2>5. CASE sends
    <3>1. /\ eval'[e].found = eval[e].found /\ eval'[e].at = incident'[k].change
          /\ incident'[k].change = IF changed THEN clock + 1 ELSE incident[k].change
          /\ clock' = IF changed THEN clock + 1 ELSE clock
          /\ e = "scheduler" /\ (~changed => ~incident[k].notified)
      BY <1>4, <2>5 DEF DecisionEffect
    <3>2. SentVersion(e)' = <<k, incident'[k].change>>
      BY <3>1 DEF SentVersion, Key
    <3>3. eval'[e].at <= clock'
      BY <1>1, <2>1, <3>1
    <3>4. <<k, incident'[k].change>> \in told => <<k, incident'[k].change>> \in unsaved
      <4>1. CASE changed
        BY <1>1, <3>1, <4>1 DEF ToldInv
      <4>2. CASE ~changed
        <5>1. \A d \in Evaluators : eval[d].pc # "sent"
          BY <2>1, <3>1 DEF RowInv, Sound
        <5> QED BY <3>1, <4>2, <5>1 DEF ToldInv, Traced
      <4> QED BY <4>1, <4>2
    <3> QED BY <2>1, <2>2, <2>3, <3>2, <3>3, <3>4 DEF ToldInv, TellsOnce
  <2> QED BY <2>4, <2>5
<1>5. ASSUME NEW e \in Evaluators, NEW result \in {"accepted", "skipped", "failed"},
             SendEffect(e, result)
      PROVE  ToldInv'
  <2> DEFINE accepted == IF result = "accepted" THEN {SentVersion(e)} ELSE {}
  <2>1. /\ UNCHANGED <<incident, clock, unsaved>> /\ told' = told \cup accepted
        /\ repeated' = repeated \cup (accepted \cap told)
        /\ \A d \in Evaluators \ {e} : eval'[d] = eval[d]
        /\ eval[e].pc = "enqueued" /\ Sending(e)
        /\ eval'[e].pc = "sent" /\ eval'[e].result = result
        /\ eval'[e].at = eval[e].at /\ SentVersion(e)' = SentVersion(e)
    BY <1>5 DEF SendEffect, Sending, SentVersion, Key
  <2>2. ASSUME NEW version \in told' PROVE version[2] <= clock' /\ Traced(version)'
    <3>1. CASE version \in accepted
      BY <2>1, <3>1 DEF ToldInv, Traced, SentVersion
    <3>2. CASE version \in told
      <4>1. \A d \in Evaluators : eval[d].pc = "sent" => eval'[d] = eval[d]
        BY <2>1
      <4> QED BY <2>1, <3>2, <4>1 DEF ToldInv, Traced, SentVersion, Key
    <3> QED BY <2>1, <3>1, <3>2
  <2>3. ASSUME NEW d \in Evaluators \ {e}
        PROVE  /\ Sending(d)' => eval'[d].at <= clock'
               /\ Sending(d)' => d = "scheduler"
    BY <2>1 DEF ToldInv, Sending, RowInv, Sound
  <2>4. e = "scheduler"
    BY <2>1 DEF RowInv, Sound
  <2>5. TellsOnce'
    BY <2>1 DEF ToldInv, TellsOnce
  <2> QED BY <2>1, <2>2, <2>3, <2>4, <2>5 DEF ToldInv
<1>6. ASSUME NEW e \in Evaluators, ResultEffect(e) PROVE ToldInv'
  <2> DEFINE k == Key(eval[e].found)
  <2>1. /\ UNCHANGED <<clock, told, repeated, unsaved>> /\ k \in Keys
        /\ \A d \in Evaluators \ {e} : eval'[d] = eval[d]
        /\ \A i \in Keys : incident[i].notified => incident'[i].notified
        /\ eval[e].result = "accepted" => incident'[k].notified
        /\ ~Sending(e)'
    BY <1>6, InitialValues DEF ResultEffect, Sending
  <2>2. ASSUME NEW version \in told PROVE version[2] <= clock' /\ Traced(version)'
    <3>1. version[2] <= clock' /\ version[1] \in Keys
      BY <1>1, <2>1 DEF ToldInv
    <3>2. CASE eval[e].result = "accepted" /\ SentVersion(e) = version
      BY <2>1, <3>1, <3>2 DEF Traced, SentVersion
    <3>3. CASE ~(eval[e].result = "accepted" /\ SentVersion(e) = version)
      BY <2>1, <3>1, <3>3 DEF ToldInv, Traced, SentVersion, Key
    <3> QED BY <3>2, <3>3
  <2>3. ASSUME NEW d \in Evaluators \ {e}
        PROVE  /\ Sending(d)' => eval'[d].at <= clock'
               /\ (Sending(d) /\ eval[d].pc # "sent" /\ SentVersion(d) \in told
                     => SentVersion(d) \in unsaved)'
    BY <2>1 DEF ToldInv, Sending, SentVersion, IsFinding, Key
  <2> QED BY <2>1, <2>2, <2>3 DEF ToldInv, TellsOnce
<1>7. CASE Crash
  <2>1. /\ UNCHANGED <<incident, clock, told, repeated>> /\ unsaved \subseteq unsaved'
        /\ \A e \in Evaluators : eval'[e] = Idle
        /\ \A e \in Evaluators : Sending(e) /\ eval[e].pc = "sent" => SentVersion(e) \in unsaved'
    BY <1>7 DEF Crash, Sending, SentVersion
  <2>2. \A e \in Evaluators : ~Sending(e)'
    BY <2>1, InitialValues DEF Sending
  <2>3. ASSUME NEW version \in told PROVE version[2] <= clock' /\ Traced(version)'
    BY <2>1 DEF ToldInv, Traced, Sending, TypeInv, OnlyFindingsAreSent
  <2> QED BY <2>1, <2>2, <2>3 DEF ToldInv, TellsOnce
<1> QED BY <1>3, <1>4, <1>5, <1>6, <1>7, StepKinds

\* No target is told a version of an incident twice, unless the process died
\* between a target's acceptance and its record: the result on the row and the
\* scheduler's own memory together always hold what was told.
THEOREM ToldOnce == Spec => []TellsOnce
<1>1. Init => TypeInv /\ RowInv /\ ToldInv
  <2>1. Init => ToldInv
    BY InitialValues DEF Init, ToldInv, TellsOnce, Sending
  <2> QED BY <2>1, TypeInit, RowInit
<1>2. TypeInv /\ RowInv /\ ToldInv /\ [Next]_vars => (TypeInv /\ RowInv /\ ToldInv)'
  BY TypeStep, RowStep, ToldStep
<1>3. ToldInv => TellsOnce
  BY DEF ToldInv
<1> QED BY <1>1, <1>2, <1>3, PTL DEF Spec

-----------------------------------------------------------------------------
(***************************************************************************)
(* What is told is published                                               *)
(***************************************************************************)
\* What was told has its event, and so has what is about to be sent.
PublishInv ==
  /\ \A version \in told : Published(version)
  /\ \A e \in Evaluators : eval[e].pc = "enqueued" => Published(SentVersion(e))

\* Events are never removed from the outbox.
LEMMA StaysPublished ==
  ASSUME NEW version, Published(version), events \subseteq events'
  PROVE  Published(version)'
BY DEF Published

LEMMA PublishStep == TypeInv /\ RowInv /\ PublishInv /\ [Next]_vars => PublishInv'
<1> SUFFICES ASSUME TypeInv, RowInv, PublishInv, [Next]_vars PROVE PublishInv'
  OBVIOUS
<1>1. ASSUME NEW d \in Evaluators, eval'[d] = eval[d], events \subseteq events',
             eval'[d].pc = "enqueued"
      PROVE  Published(SentVersion(d))'
  <2>1. Published(SentVersion(d)) /\ SentVersion(d)' = SentVersion(d)
    BY <1>1 DEF PublishInv, SentVersion, Key
  <2> QED BY <1>1, <2>1 DEF Published
<1>2. CASE Quiet
  <2>1. \A version \in told' : Published(version)'
    BY <1>2, StaysPublished DEF Quiet, PublishInv
  <2>2. ASSUME NEW d \in Evaluators, eval'[d].pc = "enqueued" PROVE Published(SentVersion(d))'
    <3>1. CASE eval'[d] = eval[d]
      BY <1>1, <1>2, <2>2, <3>1 DEF Quiet
    <3>2. CASE eval'[d] # eval[d] /\ ~Published(SentVersion(d))'
      <4>1. ~Sending(d)' /\ eval'[d].pc = "enqueued"
        BY <1>2, <2>2, <3>2 DEF Quiet
      <4>2. OnlyFindingsAreSent'
        BY TypeStep DEF TypeInv
      <4> QED BY <4>1, <4>2 DEF OnlyFindingsAreSent, Sending
    <3> QED BY <3>1, <3>2
  <2> QED BY <2>1, <2>2 DEF PublishInv
<1>3. ASSUME NEW e \in Evaluators, NEW sends \in BOOLEAN, NEW changed \in BOOLEAN,
             DecisionEffect(e, Key(eval[e].found), sends, changed)
      PROVE  PublishInv'
  <2>1. UNCHANGED <<events, told>> /\ \A d \in Evaluators \ {e} : eval'[d] = eval[d]
    BY <1>3 DEF DecisionEffect
  <2>2. eval'[e].pc # "enqueued"
    BY <1>3, InitialValues DEF DecisionEffect
  <2>3. \A version \in told' : Published(version)'
    BY <2>1, StaysPublished DEF PublishInv
  <2> QED BY <1>1, <2>1, <2>2, <2>3 DEF PublishInv
<1>4. ASSUME NEW e \in Evaluators, NEW result \in {"accepted", "skipped", "failed"},
             SendEffect(e, result)
      PROVE  PublishInv'
  <2>1. /\ UNCHANGED events /\ \A d \in Evaluators \ {e} : eval'[d] = eval[d]
        /\ eval[e].pc = "enqueued" /\ eval'[e].pc = "sent"
        /\ told' \subseteq told \cup {SentVersion(e)}
    BY <1>4 DEF SendEffect
  <2>2. Published(SentVersion(e)) /\ \A version \in told : Published(version)
    BY <2>1 DEF PublishInv
  <2>3. \A version \in told' : Published(version)'
    BY <2>1, <2>2, StaysPublished
  <2> QED BY <1>1, <2>1, <2>3 DEF PublishInv
<1>5. ASSUME NEW e \in Evaluators, ResultEffect(e) PROVE PublishInv'
  <2>1. /\ UNCHANGED <<events, told>> /\ \A d \in Evaluators \ {e} : eval'[d] = eval[d]
        /\ eval'[e].pc = "idle"
    BY <1>5, InitialValues DEF ResultEffect
  <2>2. \A version \in told' : Published(version)'
    BY <2>1, StaysPublished DEF PublishInv
  <2> QED BY <1>1, <2>1, <2>2 DEF PublishInv
<1>6. CASE Crash
  <2>1. UNCHANGED <<events, told>> /\ \A d \in Evaluators : eval'[d].pc = "idle"
    BY <1>6, InitialValues DEF Crash
  <2>2. \A version \in told' : Published(version)'
    BY <2>1, StaysPublished DEF PublishInv
  <2> QED BY <2>1, <2>2 DEF PublishInv
<1> QED BY <1>2, <1>3, <1>4, <1>5, <1>6, StepKinds

\* Whatever the operator has been told has its webhook event in the outbox,
\* wherever the process died: the event is committed before the send.
THEOREM Publication == Spec => []ToldIsPublished
<1>1. Init => TypeInv /\ RowInv /\ PublishInv
  <2>1. Init => PublishInv
    BY InitialValues DEF Init, PublishInv
  <2> QED BY <2>1, TypeInit, RowInit
<1>2. TypeInv /\ RowInv /\ PublishInv /\ [Next]_vars => (TypeInv /\ RowInv /\ PublishInv)'
  BY TypeStep, RowStep, PublishStep
<1>3. PublishInv => ToldIsPublished
  BY DEF PublishInv, ToldIsPublished, Published
<1> QED BY <1>1, <1>2, <1>3, PTL DEF Spec

-----------------------------------------------------------------------------
(***************************************************************************)
(* No version is forgotten                                                 *)
(***************************************************************************)
\* e is going to tell the version of k that its row has, or was refused.
Carries(e, k) ==
  /\ Sending(e) /\ SentVersion(e) = Version(k)
  /\ ~(eval[e].pc = "sent" /\ eval[e].result = "accepted")

Refused(k) ==
  /\ incident[k].delivery \in {"failed", "skipped"}
  /\ \A e \in Evaluators : Sending(e) => Key(eval[e].found) # k

Accounted(k) ==
  \/ Missing(incident[k])
  \/ Version(k) \in told \cup missed
  \/ \E e \in Evaluators : Carries(e, k)
  \/ Refused(k)

LEMMA AccountedStep ==
  TypeInv /\ RowInv /\ (\A k \in Keys : Accounted(k)) /\ [Next]_vars
    => \A k \in Keys : Accounted(k)'
<1> SUFFICES ASSUME TypeInv, RowInv, \A i \in Keys : Accounted(i), [Next]_vars, NEW k \in Keys
             PROVE  Accounted(k)'
  OBVIOUS
<1>1. Accounted(k)
  OBVIOUS
<1>2. CASE Quiet
  <2>1. /\ Missing(incident'[k]) <=> Missing(incident[k])
        /\ Version(k)' = Version(k) /\ incident'[k].delivery = incident[k].delivery
        /\ UNCHANGED <<told, missed>>
    BY <1>2 DEF Quiet, RowsKept, Version
  <2>2. ASSUME NEW e \in Evaluators PROVE (Carries(e, k) => Carries(e, k)')
    BY <1>2, <2>1 DEF Quiet, Carries, Sending, SentVersion, IsFinding, Key
  <2>3. ASSUME NEW e \in Evaluators PROVE Sending(e)' => Sending(e) /\ eval'[e].found = eval[e].found
    BY <1>2 DEF Quiet, Sending
  <2>4. Refused(k) => Refused(k)'
    BY <2>1, <2>3 DEF Refused, Key
  <2> QED BY <1>1, <2>1, <2>2, <2>4 DEF Accounted
<1>3. ASSUME NEW e \in Evaluators, NEW sends \in BOOLEAN, NEW changed \in BOOLEAN,
             DecisionEffect(e, Key(eval[e].found), sends, changed)
      PROVE  Accounted(k)'
  <2> DEFINE i == Key(eval[e].found)
  <2>1. /\ \A d \in Evaluators \ {e} : eval'[d] = eval[d]
        /\ eval[e].pc = "looked" /\ ~Sending(e) /\ UNCHANGED told /\ missed \subseteq missed'
        /\ incident'[k].delivery = incident[k].delivery
    BY <1>3 DEF DecisionEffect, Sending
  <2>2. CASE k = i /\ changed /\ ~sends
    BY <1>3, <2>2 DEF DecisionEffect, Accounted, Version
  <2>3. CASE k = i /\ sends
    <3>1. Sending(e)' /\ SentVersion(e)' = Version(k)' /\ eval'[e].pc = "decided"
      BY <1>3, <2>3 DEF DecisionEffect, Sending, SentVersion, Version, IsFinding, Key
    <3> QED BY <3>1 DEF Accounted, Carries
  <2>4. CASE (k = i /\ ~changed /\ ~sends) \/ k # i
    <3>1. /\ Missing(incident'[k]) => Missing(incident[k])
          /\ ~Missing(incident'[k]) => Version(k)' = Version(k) /\ ~Missing(incident[k])
      BY <1>3, <2>4 DEF DecisionEffect, Version
    <3>2. Sending(e)' => Key(eval'[e].found) # k
      <4>1. CASE sends
        BY <1>3, <2>4, <4>1 DEF DecisionEffect
      <4>2. CASE ~sends
        BY <1>3, <4>2, InitialValues DEF DecisionEffect, Sending
      <4> QED BY <4>1, <4>2
    <3>3. ASSUME NEW d \in Evaluators, ~Missing(incident'[k]), Carries(d, k) PROVE Carries(d, k)'
      BY <2>1, <3>1, <3>3 DEF Carries, Sending, SentVersion, IsFinding, Key
    <3>4. Refused(k) => Refused(k)'
      BY <2>1, <3>2 DEF Refused, Sending, IsFinding, Key
    <3> QED BY <1>1, <2>1, <3>1, <3>3, <3>4 DEF Accounted
  <2> QED BY <2>2, <2>3, <2>4
<1>4. ASSUME NEW e \in Evaluators, NEW result \in {"accepted", "skipped", "failed"},
             SendEffect(e, result)
      PROVE  Accounted(k)'
  <2>1. /\ UNCHANGED <<incident, missed>> /\ told \subseteq told'
        /\ \A d \in Evaluators \ {e} : eval'[d] = eval[d]
        /\ Sending(e) /\ eval'[e].found = eval[e].found /\ eval'[e].at = eval[e].at
        /\ eval'[e].pc = "sent" /\ eval'[e].result = result
        /\ result = "accepted" => SentVersion(e) \in told'
    BY <1>4 DEF SendEffect, Sending
  <2>2. Sending(e)' /\ SentVersion(e)' = SentVersion(e) /\ Version(k)' = Version(k)
    BY <2>1 DEF Sending, SentVersion, Version, IsFinding, Key
  <2>3. ASSUME NEW d \in Evaluators, Carries(d, k) PROVE Accounted(k)'
    <3>1. CASE d = e
      BY <2>1, <2>2, <2>3, <3>1 DEF Accounted, Carries
    <3>2. CASE d # e
      <4>1. Carries(d, k)'
        BY <2>1, <2>2, <2>3, <3>2 DEF Carries, Sending, SentVersion, IsFinding, Key
      <4> QED BY <4>1 DEF Accounted
    <3> QED BY <3>1, <3>2
  <2>4. Refused(k) => Refused(k)'
    BY <2>1 DEF Refused, Sending, IsFinding, Key
  <2> QED BY <1>1, <2>1, <2>2, <2>3, <2>4 DEF Accounted
<1>5. ASSUME NEW e \in Evaluators, ResultEffect(e) PROVE Accounted(k)'
  <2>1. /\ \A d \in Evaluators \ {e} : eval'[d] = eval[d]
        /\ Sending(e) /\ ~Sending(e)' /\ UNCHANGED <<told, missed>>
        /\ Version(k)' = Version(k)
        /\ Missing(incident'[k]) <=> Missing(incident[k])
        /\ Key(eval[e].found) # k => incident'[k] = incident[k]
        /\ Key(eval[e].found) = k /\ eval[e].result # "accepted"
             => incident'[k].delivery \in {"failed", "skipped"}
    BY <1>5, InitialValues DEF ResultEffect, Sending, Version
  <2>2. \A d \in Evaluators : Sending(d) => d = e
    BY <2>1 DEF RowInv, Sound, Sending
  <2>3. \A d \in Evaluators : ~Sending(d)'
    BY <2>1, <2>2 DEF Sending, IsFinding
  <2>4. ASSUME NEW d \in Evaluators, Carries(d, k) PROVE Refused(k)'
    BY <1>5, <2>1, <2>2, <2>3, <2>4 DEF Carries, Refused, SentVersion, Version, ResultEffect
  <2>5. Refused(k) => Refused(k)'
    BY <2>1, <2>3 DEF Refused
  <2> QED BY <1>1, <2>1, <2>4, <2>5 DEF Accounted
<1>6. CASE Crash
  <2>1. UNCHANGED <<incident, told>> /\ missed \subseteq missed' /\ \A e \in Evaluators : eval'[e] = Idle
    BY <1>6 DEF Crash
  <2>2. \A e \in Evaluators : Sending(e) => SentVersion(e) \in missed'
    BY <1>6 DEF Crash, Sending, SentVersion
  <2>3. \A e \in Evaluators : ~Sending(e)'
    BY <2>1, InitialValues DEF Sending
  <2> QED BY <1>1, <2>1, <2>2, <2>3 DEF Accounted, Carries, Refused, Version
<1> QED BY <1>2, <1>3, <1>4, <1>5, <1>6, StepKinds

\* Every version of an incident is accounted for: told, being told, refused, or
\* recorded by an evaluation that was not to tell it or that died.
THEOREM NoVersionForgotten == Spec => []NothingForgotten
<1> DEFINE Inv == \A k \in Keys : Accounted(k)
<1>1. Init => TypeInv /\ RowInv /\ Inv
  <2>1. Init => Inv
    BY InitialValues DEF Init, Accounted, Missing
  <2> QED BY <2>1, TypeInit, RowInit
<1>2. TypeInv /\ RowInv /\ Inv /\ [Next]_vars => (TypeInv /\ RowInv /\ Inv)'
  BY TypeStep, RowStep, AccountedStep
<1>3. Inv => NothingForgotten
  BY DEF Accounted, NothingForgotten, Carries, Refused, Telling, Sending, SentVersion, Version
<1> QED BY <1>1, <1>2, <1>3, PTL DEF Spec
=============================================================================

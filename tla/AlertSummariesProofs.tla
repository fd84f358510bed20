------------------------ MODULE AlertSummariesProofs ------------------------
(***************************************************************************)
(* Theorems about AlertSummaries, for any alerts, schedule and bounds.     *)
(*                                                                         *)
(* SummaryOnce needs to know where the scheduler is: the summary it works  *)
(* on is one it has not recorded yet, and it has been accepted exactly     *)
(* when the scheduler is about to record it (CarriedInv).  HistoryFollows  *)
(* needs what an evaluation has read to be still so, as long as nothing    *)
(* was recorded since the last quiet moment (ReadingsInv), SummariesKeepUp *)
(* the limit to stay free for the first summary of a cycle that has its    *)
(* chance (ChanceInv).                                                     *)
(***************************************************************************)
EXTENDS AlertSummaries, FiniteSetTheorems, TLAPS

-----------------------------------------------------------------------------
(***************************************************************************)
(* Days and weeks                                                          *)
(***************************************************************************)
\* A quotient grows with what is divided and is not greater than it.
LEMMA Quotients ==
  ASSUME NEW k \in Nat \ {0}, NEW t \in Nat, NEW u \in Nat, t <= u
  PROVE  t \div k \in Nat /\ t \div k <= u \div k /\ t \div k <= t
<1>1. t \div k \in Int /\ t \div k >= 0
  OBVIOUS
<1>2. t \div k <= t
  OBVIOUS
<1>3. t \div k <= u \div k
  OBVIOUS
<1> QED BY <1>1, <1>2, <1>3

\* The number of a summary's day or week grows with time.
LEMMA IndexGrows ==
  ASSUME NEW p \in Periods, NEW t \in Nat, NEW u \in Nat, t <= u
  PROVE  Index(p, t) \in Nat /\ Index(p, t) <= Index(p, u) /\ Index(p, t) <= Day(t)
<1>1. Day(t) \in Nat /\ Day(u) \in Nat /\ Day(t) <= Day(u)
  BY Quotients, ScheduleAssumption DEF Day
<1>2. Week(t) \in Nat /\ Week(t) <= Week(u) /\ Week(t) <= Day(t)
  BY <1>1, Quotients, ScheduleAssumption DEF Week
<1> QED BY <1>1, <1>2 DEF Index, Periods

\* An index of a tick within the bound counts messages.
LEMMA IndexInRange ==
  ASSUME NEW p \in Periods, NEW t \in 0..MaxClock
  PROVE  Index(p, t) \in Indices /\ Index(p, t) \in 0..Day(MaxClock) /\ Day(t) <= Day(MaxClock)
<1>1. MaxClock \in Nat /\ t \in Nat /\ t <= MaxClock
  BY ScheduleAssumption
<1>2. Day(t) \in Nat /\ Day(MaxClock) \in Nat /\ Day(t) <= Day(MaxClock)
  BY <1>1, Quotients, ScheduleAssumption DEF Day
<1>3. Index(p, t) \in Nat /\ Index(p, t) <= Day(t)
  BY <1>1, IndexGrows
<1> QED BY <1>2, <1>3 DEF Indices

-----------------------------------------------------------------------------
(***************************************************************************)
(* Types                                                                   *)
(***************************************************************************)
\* What the two actors may be doing.
ActorInv ==
  /\ LET me == actor["scheduler"] IN
     /\ me.pc # "idle" => me.task \in Periods /\ me.start <= clock
     /\ me.pc # "enqueue"
     /\ me.left # {} => me.task = "daily" /\ "weekly" \in Enabled
  /\ LET me == actor["api"] IN me.pc # "mark" /\ me.left = {}

TypeInv == TypeOK /\ ActorInv

TodayType == [good : Nat, chance : BOOLEAN]

ActorType ==
  [pc : {"idle", "evaluate", "look", "list", "record", "enqueue", "limit",
         "send", "stamp", "mark"},
   task : Periods \cup Calls \cup {"none"}, left : SUBSET {"weekly"},
   start : 0..MaxClock, signals : SUBSET Alerts, found : SUBSET Alerts,
   dormant : SUBSET Alerts, listed : SUBSET Alerts]

LEMMA InitType == Init => TypeInv
<1> SUFFICES ASSUME Init PROVE TypeInv
  OBVIOUS
<1>1. Idle \in ActorType
  BY ScheduleAssumption DEF Idle, ActorType
<1>2. Day(MaxClock) \in Nat
  BY ScheduleAssumption, Quotients DEF Day
<1>3. TypeOK
  BY <1>1, <1>2, ScheduleAssumption DEF Init, TypeOK, ActorType, States, Never
<1>4. ActorInv
  BY DEF Init, ActorInv, Idle, Actors
<1> QED BY <1>3, <1>4 DEF TypeInv

LEMMA IdleType == Idle \in ActorType
BY ScheduleAssumption DEF Idle, ActorType

LEMMA BegunType ==
  ASSUME NEW p \in Periods \cup Calls, NEW left \in SUBSET {"weekly"}, NEW t \in 0..MaxClock
  PROVE  [Idle EXCEPT !.pc = "evaluate", !.task = p, !.left = left, !.start = t] \in ActorType
BY DEF Idle, ActorType

LEMMA SpentType ==
  ASSUME TypeOK, NEW what \in {"calls", "faults"}, NEW max,
         max = IF what = "calls" THEN MaxCalls ELSE MaxFaults, Spend(what, max)
  PROVE  used' \in [calls : 0..MaxCalls, faults : 0..MaxFaults]
<1>1. CASE what = "calls"
  BY <1>1, ScheduleAssumption DEF TypeOK, Spend
<1>2. CASE what = "faults"
  BY <1>2, ScheduleAssumption DEF TypeOK, Spend
<1> QED BY <1>1, <1>2

LEMMA DisturbedType ==
  ASSUME TypeOK, Disturbed
  PROVE  today' \in TodayType /\ ~today'.chance /\ today'.good = today.good
BY DEF TypeOK, TodayType, Disturbed

\* The actor that moves on, and the others.
LEMMA Moved ==
  ASSUME TypeOK, NEW a \in Actors, NEW r \in ActorType, actor' = [actor EXCEPT ![a] = r]
  PROVE  actor' \in [Actors -> ActorType] /\ actor'[a] = r
         /\ \A b \in Actors : b # a => actor'[b] = actor[b]
BY DEF TypeOK, ActorType

LEMMA BeginType ==
  ASSUME TypeInv,
         \/ BeginCycle \/ \E call \in Calls : BeginCall(call)
         \/ \E a \in Actors : UnlimitedMessage(a)
  PROVE  TypeInv'
<1> USE DEF TypeInv
<1>1. CASE BeginCycle
  <2>1. actor' \in [Actors -> ActorType] /\ ActorInv'
    <3> DEFINE due == {p \in Periods : Due(p)}
               first == IF "daily" \in due THEN "daily" ELSE "weekly"
               begun == [Idle EXCEPT !.pc = "evaluate", !.task = first,
                                     !.left = due \ {first}, !.start = clock]
    <3>1. actor' = [actor EXCEPT !["scheduler"] = begun] /\ UNCHANGED clock /\ due # {}
      BY <1>1 DEF BeginCycle
    <3>2. first \in Periods /\ due \ {first} \in SUBSET {"weekly"} /\ clock \in 0..MaxClock
          /\ (due \ {first} # {} => first = "daily" /\ "weekly" \in Enabled)
      BY <3>1 DEF Periods, TypeOK, Due
    <3>3. begun \in ActorType
      BY <3>2, BegunType
    <3>4. /\ begun.pc = "evaluate" /\ begun.task = first /\ begun.left = due \ {first}
          /\ begun.start = clock
      BY DEF Idle
    <3> HIDE DEF begun, first, due
    <3>5. /\ actor' \in [Actors -> ActorType] /\ actor'["scheduler"] = begun
          /\ actor'["api"] = actor["api"]
      BY <3>1, <3>3, Moved DEF Actors
    <3>6. clock \in Nat
      BY ScheduleAssumption DEF TypeOK
    <3> QED BY <3>1, <3>2, <3>4, <3>5, <3>6 DEF ActorInv
  <2>2. today' \in TodayType
    <3>1. today' = [today EXCEPT !.chance = lastSent = Never \/ lastSent + Interval <= clock]
      BY <1>1 DEF BeginCycle
    <3> QED BY <3>1 DEF TypeOK, TodayType
  <2>3. UNCHANGED <<current, history, queued, clock, lastSent, marked, used,
                    accepted, unmarked, seen>>
    BY <1>1 DEF BeginCycle
  <2>4. TypeOK'
    BY <2>1, <2>2, <2>3 DEF TypeOK, ActorType, TodayType
  <2> QED BY <2>1, <2>4
<1>2. ASSUME NEW call \in Calls, BeginCall(call)
      PROVE  TypeInv'
  <2> DEFINE begun == [Idle EXCEPT !.pc = "evaluate", !.task = call]
  <2>1. begun \in ActorType
    BY IdleType DEF ActorType
  <2> begun.pc = "evaluate" /\ begun.left = {}
    BY DEF Idle
  <2>2. actor' = [actor EXCEPT !["api"] = begun]
    BY <1>2 DEF BeginCall
  <2> HIDE DEF begun
  <2>3. /\ actor' \in [Actors -> ActorType] /\ actor'["api"] = begun
        /\ actor'["scheduler"] = actor["scheduler"]
    BY <2>1, <2>2, Moved DEF Actors
  <2>4. used' \in [calls : 0..MaxCalls, faults : 0..MaxFaults]
    BY <1>2, SpentType DEF BeginCall
  <2>5. UNCHANGED <<current, history, queued, clock, lastSent, marked, accepted, unmarked, seen, today>>
    BY <1>2 DEF BeginCall
  <2>6. TypeOK'
    BY <2>3, <2>4, <2>5 DEF TypeOK, ActorType
  <2>7. ActorInv'
    BY <2>1, <2>3, <2>5 DEF ActorInv
  <2> QED BY <2>5, <2>6, <2>7 DEF TodayType
<1>3. ASSUME NEW a \in Actors, UnlimitedMessage(a)
      PROVE  TypeInv'
  <2>1. used' \in [calls : 0..MaxCalls, faults : 0..MaxFaults]
    BY <1>3, SpentType DEF UnlimitedMessage
  <2>2. today' \in TodayType
    BY <1>3, DisturbedType DEF UnlimitedMessage
  <2>3. clock \in Nat /\ clock \in Never..clock
    BY ScheduleAssumption DEF TypeOK, Never
  <2>4. /\ UNCHANGED <<current, history, queued, clock, marked, actor, accepted, unmarked, seen>>
        /\ lastSent' = clock
    BY <1>3 DEF UnlimitedMessage
  <2>5. TypeOK'
    BY <2>1, <2>2, <2>3, <2>4 DEF TypeOK, TodayType
  <2> QED BY <2>4, <2>5 DEF ActorInv
<1> QED BY <1>1, <1>2, <1>3

\* A step to another place of the code, to the next task, and to none.
LEMMA GotoType ==
  ASSUME TypeInv, NEW a \in Actors, actor[a].pc # "idle", UNCHANGED clock,
         NEW pc \in {"look", "list", "record", "enqueue", "limit", "send", "stamp", "mark"},
         pc = "mark" => a = "scheduler", pc = "enqueue" => a = "api", Goto(a, pc)
  PROVE  actor' \in [Actors -> ActorType] /\ ActorInv'
<1> DEFINE r == [actor[a] EXCEPT !.pc = pc]
<1>1. actor[a] \in ActorType /\ actor' = [actor EXCEPT ![a] = r]
  BY DEF TypeInv, TypeOK, ActorType, Goto
<1>2. r \in ActorType /\ r.pc = pc /\ r.task = actor[a].task /\ r.left = actor[a].left
      /\ r.start = actor[a].start
  BY <1>1 DEF ActorType
<1> HIDE DEF r
<1>3. /\ actor' \in [Actors -> ActorType] /\ actor'[a] = r
      /\ \A b \in Actors : b # a => actor'[b] = actor[b]
  BY <1>1, <1>2, Moved DEF TypeInv
<1> QED BY <1>2, <1>3 DEF ActorInv, TypeInv, Actors

LEMMA EndType ==
  ASSUME TypeInv, NEW a \in Actors, UNCHANGED clock, actor' = [actor EXCEPT ![a] = Idle]
  PROVE  actor' \in [Actors -> ActorType] /\ ActorInv'
<1>1. /\ actor' \in [Actors -> ActorType] /\ actor'[a] = Idle
      /\ \A b \in Actors : b # a => actor'[b] = actor[b]
  BY IdleType, Moved DEF TypeInv
<1>2. Idle.pc = "idle" /\ Idle.left = {}
  BY DEF Idle
<1> QED BY <1>1, <1>2 DEF ActorInv, TypeInv, Actors

LEMMA NextTaskType ==
  ASSUME TypeInv, NEW a \in Actors, actor[a].pc # "idle", UNCHANGED clock, NextTask(a)
  PROVE  actor' \in [Actors -> ActorType] /\ ActorInv'
<1>1. CASE actor[a].left = {}
  BY <1>1, EndType DEF NextTask
<1>2. CASE actor[a].left # {}
  <2> DEFINE r == [Idle EXCEPT !.pc = "evaluate", !.task = "weekly", !.start = actor[a].start]
  <2>1. actor' = [actor EXCEPT ![a] = r] /\ a = "scheduler"
    BY <1>2 DEF NextTask, ActorInv, TypeInv, Actors
  <2>2. actor[a].start \in 0..MaxClock /\ actor[a].start <= clock
    BY <2>1 DEF TypeInv, TypeOK, ActorInv
  <2>3. r \in ActorType /\ r.pc = "evaluate" /\ r.task = "weekly" /\ r.left = {}
        /\ r.start = actor[a].start
    BY <2>2 DEF Idle, ActorType, Periods
  <2> HIDE DEF r
  <2>4. /\ actor' \in [Actors -> ActorType] /\ actor'[a] = r
        /\ \A b \in Actors : b # a => actor'[b] = actor[b]
    BY <2>1, <2>3, Moved DEF TypeInv
  <2> QED BY <2>1, <2>2, <2>3, <2>4 DEF ActorInv, TypeInv, Actors, Periods
<1> QED BY <1>1, <1>2

LEMMA GoOnType ==
  ASSUME TypeInv, NEW a \in Actors, actor[a].pc # "idle", UNCHANGED clock, GoOn(a)
  PROVE  actor' \in [Actors -> ActorType] /\ ActorInv' /\ today' \in TodayType
<1>1. NextTask(a)
  BY DEF GoOn
<1>2. today \in TodayType
  BY DEF TypeInv, TypeOK, TodayType
<1>3. today' = [good |-> today.good + 1, chance |-> FALSE] \/ today' = today
  BY DEF GoOn
<1>4. today' \in TodayType
  <2>1. today.good + 1 \in Nat
    BY <1>2 DEF TodayType
  <2>2. CASE today' = [good |-> today.good + 1, chance |-> FALSE]
    BY <2>1, <2>2 DEF TodayType
  <2>3. CASE today' = today
    BY <1>2, <2>3
  <2> QED BY <1>3, <2>2, <2>3
<1> QED BY <1>1, <1>4, NextTaskType

\* A step of an evaluation fills in what it read.
LEMMA ReadMoves ==
  ASSUME TypeInv, NEW a \in Actors, Evaluate(a) \/ Look(a) \/ List(a)
  PROVE  \E r \in ActorType :
           /\ actor' = [actor EXCEPT ![a] = r]
           /\ r.pc \in {"look", "list", "record"} /\ r.task = actor[a].task
           /\ r.left = actor[a].left /\ r.start = actor[a].start
<1>0. actor[a] \in ActorType /\ current \subseteq Alerts
  BY DEF TypeInv, TypeOK, ActorType, TodayType
<1>1. CASE Evaluate(a)
  <2> DEFINE r == [actor[a] EXCEPT !.signals = current, !.pc = "look"]
  <2>1. r \in ActorType /\ r.pc = "look" /\ r.task = actor[a].task /\ r.left = actor[a].left
        /\ r.start = actor[a].start
    BY <1>0 DEF ActorType
  <2>2. actor' = [actor EXCEPT ![a] = r]
    BY <1>1 DEF Evaluate
  <2> QED BY <2>1, <2>2
<1>2. CASE Look(a)
  <2> DEFINE r == [actor[a] EXCEPT
                     !.found = {s \in actor[a].signals : history[s] # "absent"},
                     !.dormant = {s \in actor[a].signals : history[s] = "resolved"},
                     !.pc = "list"]
  <2>1. r \in ActorType /\ r.pc = "list" /\ r.task = actor[a].task /\ r.left = actor[a].left
        /\ r.start = actor[a].start
    BY <1>0 DEF ActorType
  <2>2. actor' = [actor EXCEPT ![a] = r]
    BY <1>2 DEF Look
  <2> QED BY <2>1, <2>2
<1>3. CASE List(a)
  <2> DEFINE r == [actor[a] EXCEPT !.listed = Active, !.pc = "record"]
  <2>1. r \in ActorType /\ r.pc = "record" /\ r.task = actor[a].task /\ r.left = actor[a].left
        /\ r.start = actor[a].start
    BY <1>0 DEF ActorType, Active
  <2>2. actor' = [actor EXCEPT ![a] = r]
    BY <1>3 DEF List
  <2> QED BY <2>1, <2>2
<1> QED BY <1>1, <1>2, <1>3

LEMMA ReadType ==
  ASSUME TypeInv, NEW a \in Actors, Evaluate(a) \/ Look(a) \/ List(a)
  PROVE  TypeInv'
<1>1. /\ UNCHANGED <<current, history, queued, clock, lastSent, marked, used, accepted, unmarked, today>>
      /\ actor[a].pc \in {"evaluate", "look", "list"}
  BY DEF Evaluate, Look, List
<1>4. seen' \in [some : SUBSET Alerts, all : SUBSET Alerts, fresh : BOOLEAN]
  BY DEF Evaluate, Look, List, TypeInv, TypeOK
<1>5. PICK r \in ActorType :
        /\ actor' = [actor EXCEPT ![a] = r]
        /\ r.pc \in {"look", "list", "record"} /\ r.task = actor[a].task
        /\ r.left = actor[a].left /\ r.start = actor[a].start
  BY ReadMoves
<1>6. /\ actor' \in [Actors -> ActorType] /\ actor'[a] = r
      /\ \A b \in Actors : b # a => actor'[b] = actor[b]
  BY <1>5, Moved DEF TypeInv
<1>7. ActorInv'
  BY <1>1, <1>5, <1>6 DEF ActorInv, TypeInv, Actors
<1>8. TypeOK'
  BY <1>1, <1>4, <1>6 DEF TypeInv, TypeOK, ActorType, TodayType
<1> QED BY <1>1, <1>7, <1>8 DEF TypeInv

LEMMA RecordType ==
  ASSUME TypeInv, NEW a \in Actors, Record(a)
  PROVE  TypeInv'
<1>1. /\ UNCHANGED <<current, queued, clock, lastSent, marked, used, accepted, unmarked, today>>
      /\ actor[a].pc = "record" /\ history' = Recorded(a) /\ Goto(a, AfterRecord(a))
  BY DEF Record
<1>2. AfterRecord(a) \in {"enqueue", "limit"} /\ (AfterRecord(a) = "enqueue" => a = "api")
  BY <1>1 DEF AfterRecord, TypeInv, ActorInv, Actors, Periods
<1>3. actor' \in [Actors -> ActorType] /\ ActorInv'
  BY <1>1, <1>2, GotoType
<1>4. actor[a].signals \subseteq Alerts
  BY DEF TypeInv, TypeOK
<1>5. seen' \in [some : SUBSET Alerts, all : SUBSET Alerts, fresh : BOOLEAN]
  <2>1. CASE seen.fresh
    BY <1>4, <2>1 DEF Record
  <2>2. CASE ~seen.fresh
    BY <1>4, <2>2 DEF Record, TypeInv, TypeOK
  <2> QED BY <2>1, <2>2
<1>6. history' \in [Alerts -> States]
  BY <1>1 DEF Recorded, TypeInv, TypeOK, States
<1>7. TypeOK'
  BY <1>1, <1>3, <1>5, <1>6 DEF TypeInv, TypeOK, ActorType, TodayType
<1> QED BY <1>1, <1>3, <1>7 DEF TypeInv

LEMMA RecordFailsType ==
  ASSUME TypeInv, NEW a \in Actors, RecordFails(a)
  PROVE  TypeInv'
<1>1. /\ UNCHANGED <<current, history, queued, clock, lastSent, marked, accepted, unmarked, seen>>
      /\ actor' = [actor EXCEPT ![a] = Idle] /\ Disturbed
  BY DEF RecordFails
<1>2. actor' \in [Actors -> ActorType] /\ ActorInv'
  BY <1>1, EndType
<1>3. used' \in [calls : 0..MaxCalls, faults : 0..MaxFaults]
  BY SpentType DEF RecordFails, TypeInv, TypeOK
<1>4. today' \in TodayType
  BY <1>1, DisturbedType DEF TypeInv
<1>5. TypeOK'
  BY <1>1, <1>2, <1>3, <1>4 DEF TypeInv, TypeOK, ActorType, TodayType
<1> QED BY <1>1, <1>2, <1>4, <1>5 DEF TypeInv

LEMMA EnqueueType ==
  ASSUME TypeInv, NEW a \in Actors, Enqueue(a)
  PROVE  TypeInv'
<1>1. /\ UNCHANGED <<current, history, clock, lastSent, marked, used, accepted, unmarked, seen, today>>
      /\ queued' = queued \cup actor[a].signals /\ actor[a].pc = "enqueue"
      /\ Goto(a, "limit") \/ actor' = [actor EXCEPT ![a] = Idle]
  BY DEF Enqueue
<1>2. actor' \in [Actors -> ActorType] /\ ActorInv'
  BY <1>1, EndType, GotoType
<1>3. queued' \subseteq Alerts
  BY <1>1 DEF TypeInv, TypeOK
<1>4. TypeOK'
  BY <1>1, <1>2, <1>3 DEF TypeInv, TypeOK, ActorType, TodayType
<1> QED BY <1>1, <1>2, <1>4 DEF TypeInv

LEMMA CheckLimitType ==
  ASSUME TypeInv, NEW a \in Actors, CheckLimit(a)
  PROVE  TypeInv'
<1>1. /\ UNCHANGED <<current, history, queued, clock, lastSent, used, accepted, unmarked, seen, marked>>
      /\ actor[a].pc = "limit"
      /\ GoOn(a) \/ (Goto(a, "send") /\ UNCHANGED today)
  BY DEF CheckLimit, HeldBack
<1>2. actor' \in [Actors -> ActorType] /\ ActorInv' /\ today' \in TodayType
  BY <1>1, GoOnType, GotoType DEF TypeInv, TypeOK, TodayType
<1>3. TypeOK'
  BY <1>1, <1>2 DEF TypeInv, TypeOK, ActorType, TodayType
<1> QED BY <1>2, <1>3 DEF TypeInv

\* The summary that the scheduler works on is one whose messages are counted.
LEMMA CurrentSummary ==
  ASSUME TypeInv, actor["scheduler"].pc # "idle"
  PROVE  LET me == actor["scheduler"] IN
         me.task \in Periods /\ Index(me.task, me.start) \in Indices
         /\ Index(me.task, me.start) \in 0..Day(MaxClock)
<1>1. actor["scheduler"].task \in Periods /\ actor["scheduler"].start \in 0..MaxClock
  BY DEF TypeInv, TypeOK, ActorInv, Actors
<1> QED BY <1>1, IndexInRange

\* The counts of messages keep their type when one more is counted.
LEMMA CountedType ==
  ASSUME NEW f \in [Periods -> [Indices -> Nat]], NEW p \in Periods, NEW i \in Indices
  PROVE  [f EXCEPT ![p][i] = @ + 1] \in [Periods -> [Indices -> Nat]]
<1>1. [f[p] EXCEPT ![i] = @ + 1] \in [Indices -> Nat]
  OBVIOUS
<1> QED BY <1>1

LEMMA OneMoreType ==
  ASSUME TypeInv, actor["scheduler"].pc # "idle", NEW f \in [Periods -> [Indices -> Nat]]
  PROVE  OneMore(f) \in [Periods -> [Indices -> Nat]]
BY CurrentSummary, CountedType DEF OneMore

LEMMA AcceptType ==
  ASSUME TypeInv, NEW a \in Actors, Accept(a)
  PROVE  TypeInv'
<1>1. /\ UNCHANGED <<current, history, queued, clock, lastSent, marked, used, unmarked, seen, today>>
      /\ actor[a].pc = "send" /\ Goto(a, "stamp")
  BY DEF Accept
<1>2. actor' \in [Actors -> ActorType] /\ ActorInv'
  BY <1>1, GotoType
<1>3. accepted' \in [Periods -> [Indices -> Nat]]
  BY <1>1, OneMoreType DEF Accept, TypeInv, TypeOK
<1>4. TypeOK'
  BY <1>1, <1>2, <1>3 DEF TypeInv, TypeOK, ActorType, TodayType
<1> QED BY <1>1, <1>2, <1>4 DEF TypeInv

LEMMA RefuseType ==
  ASSUME TypeInv, NEW a \in Actors, Refuse(a)
  PROVE  TypeInv'
<1>1. /\ UNCHANGED <<current, history, queued, clock, lastSent, marked, accepted, unmarked, seen>>
      /\ actor[a].pc = "send" /\ Spend("faults", MaxFaults) /\ NextTask(a) /\ Disturbed
  BY DEF Refuse
<1>2. actor' \in [Actors -> ActorType] /\ ActorInv'
  BY <1>1, NextTaskType
<1>3. used' \in [calls : 0..MaxCalls, faults : 0..MaxFaults]
  BY <1>1, SpentType DEF TypeInv
<1>4. today' \in TodayType
  BY <1>1, DisturbedType DEF TypeInv
<1>5. TypeOK'
  BY <1>1, <1>2, <1>3, <1>4 DEF TypeInv, TypeOK, ActorType, TodayType
<1> QED BY <1>1, <1>2, <1>4, <1>5 DEF TypeInv

LEMMA StampType ==
  ASSUME TypeInv, NEW a \in Actors, Stamp(a)
  PROVE  TypeInv'
<1>1. /\ UNCHANGED <<current, history, queued, clock, marked, used, accepted, unmarked, seen>>
      /\ actor[a].pc = "stamp" /\ lastSent' = clock
      /\ \/ a = "scheduler" /\ Goto(a, "mark") /\ UNCHANGED today
         \/ NextTask(a) /\ Disturbed
  BY DEF Stamp, Stamped
<1>2. actor' \in [Actors -> ActorType] /\ ActorInv'
  BY <1>1, GotoType, NextTaskType
<1>3. today' \in TodayType
  BY <1>1, DisturbedType DEF TypeInv, TypeOK, TodayType
<1>4. lastSent' \in Never..clock'
  BY <1>1, ScheduleAssumption DEF TypeInv, TypeOK, Never
<1>5. TypeOK'
  BY <1>1, <1>2, <1>3, <1>4 DEF TypeInv, TypeOK, ActorType, TodayType
<1> QED BY <1>1, <1>2, <1>3, <1>5 DEF TypeInv

LEMMA MarkType ==
  ASSUME TypeInv, Mark
  PROVE  TypeInv'
<1>1. /\ UNCHANGED <<current, history, queued, clock, lastSent, used, accepted, unmarked, seen>>
      /\ actor["scheduler"].pc = "mark" /\ GoOn("scheduler")
  BY DEF Mark
<1>2. actor' \in [Actors -> ActorType] /\ ActorInv' /\ today' \in TodayType
  BY <1>1, GoOnType DEF Actors
<1>3. marked' \in [Periods -> Never..Day(MaxClock)]
  BY <1>1, CurrentSummary DEF Mark, Marked, TypeInv, TypeOK, Never
<1>4. TypeOK'
  BY <1>1, <1>2, <1>3 DEF TypeInv, TypeOK, ActorType, TodayType
<1> QED BY <1>2, <1>4 DEF TypeInv

LEMMA RecordOfMessageFailsType ==
  ASSUME TypeInv, NEW a \in Actors, RecordOfMessageFails(a)
  PROVE  TypeInv'
<1>1. /\ UNCHANGED <<current, history, queued, clock, lastSent, marked, accepted, seen>>
      /\ actor' = [actor EXCEPT ![a] = Idle] /\ Disturbed /\ actor[a].pc \in {"stamp", "mark"}
      /\ Spend("faults", MaxFaults)
      /\ unmarked' = IF a = "scheduler" THEN OneMore(unmarked) ELSE unmarked
  BY DEF RecordOfMessageFails
<1>2. actor' \in [Actors -> ActorType] /\ ActorInv'
  BY <1>1, EndType
<1>3. used' \in [calls : 0..MaxCalls, faults : 0..MaxFaults]
  BY <1>1, SpentType DEF TypeInv
<1>4. today' \in TodayType
  BY <1>1, DisturbedType DEF TypeInv
<1>5. unmarked' \in [Periods -> [Indices -> Nat]]
  BY <1>1, OneMoreType DEF TypeInv, TypeOK
<1>6. TypeOK'
  BY <1>1, <1>2, <1>3, <1>4, <1>5 DEF TypeInv, TypeOK, ActorType, TodayType
<1> QED BY <1>2, <1>6 DEF TypeInv

LEMMA TickType ==
  ASSUME TypeInv, Tick
  PROVE  TypeInv'
<1>1. /\ UNCHANGED <<current, history, queued, lastSent, marked, actor, used, accepted, unmarked, seen>>
      /\ clock' = clock + 1 /\ clock < MaxClock /\ clock \in Nat /\ MaxClock \in Nat
      /\ clock' \in 0..MaxClock
      /\ today' = today \/ today' = [good |-> 0, chance |-> FALSE]
  BY ScheduleAssumption DEF Tick, TypeInv, TypeOK
<1>2. lastSent' \in Never..clock'
  BY <1>1 DEF TypeInv, TypeOK, Never
<1>3. today' \in TodayType
  <2>1. CASE today' = today
    BY <2>1 DEF TypeInv, TypeOK, TodayType
  <2>2. CASE today' = [good |-> 0, chance |-> FALSE]
    BY <2>2 DEF TodayType
  <2> QED BY <1>1, <2>1, <2>2
<1>4. TypeOK'
  BY <1>1, <1>2, <1>3 DEF TypeInv, TypeOK, TodayType
<1>5. ActorInv'
  BY <1>1 DEF TypeInv, TypeOK, ActorInv, Actors
<1> QED BY <1>4, <1>5 DEF TypeInv

LEMMA EnvironmentType ==
  ASSUME TypeInv, NewData \/ Crash
  PROVE  TypeInv'
<1>1. CASE NewData
  <2>1. used' \in [calls : 0..MaxCalls, faults : 0..MaxFaults]
    BY <1>1, SpentType DEF NewData, TypeInv
  <2>2. current' \subseteq Alerts
    BY <1>1 DEF NewData, TypeInv, TypeOK
  <2>3. UNCHANGED <<history, queued, clock, lastSent, marked, actor, accepted, unmarked, seen, today>>
    BY <1>1 DEF NewData
  <2>4. TypeOK'
    BY <2>1, <2>2, <2>3 DEF TypeInv, TypeOK
  <2> QED BY <2>3, <2>4 DEF TypeInv, ActorInv
<1>2. CASE Crash
  <2>1. /\ UNCHANGED <<current, history, queued, clock, lastSent, marked, accepted, seen>>
        /\ actor' = [a \in Actors |-> Idle] /\ Disturbed
    BY <1>2 DEF Crash
  <2>2. used' \in [calls : 0..MaxCalls, faults : 0..MaxFaults]
    BY <1>2, SpentType DEF Crash, TypeInv
  <2>3. unmarked' \in [Periods -> [Indices -> Nat]]
    BY <1>2, OneMoreType DEF Crash, TypeInv, TypeOK
  <2>4. actor' \in [Actors -> ActorType] /\ ActorInv'
    <3>1. Idle.pc = "idle" /\ Idle.left = {}
      BY DEF Idle
    <3> QED BY <2>1, <3>1, IdleType DEF ActorInv, Actors
  <2>5. today' \in TodayType
    BY <2>1, DisturbedType DEF TypeInv
  <2>6. TypeOK'
    BY <2>1, <2>2, <2>3, <2>4, <2>5 DEF TypeInv, TypeOK, ActorType, TodayType
  <2> QED BY <2>1, <2>4, <2>5, <2>6 DEF TypeInv
<1> QED BY <1>1, <1>2

LEMMA NextType == TypeInv /\ [Next]_vars => TypeInv'
<1> SUFFICES ASSUME TypeInv, [Next]_vars
             PROVE  TypeInv'
  OBVIOUS
<1>1. CASE UNCHANGED vars
  BY <1>1 DEF vars, TypeInv, TypeOK, ActorInv
<1>2. ASSUME NEW a \in Actors, Step(a)
      PROVE  TypeInv'
  BY <1>2, ReadType, RecordType, RecordFailsType, EnqueueType, CheckLimitType, AcceptType,
     RefuseType, StampType, RecordOfMessageFailsType DEF Step
<1> QED BY <1>1, <1>2, BeginType, MarkType, TickType, EnvironmentType DEF Next

\* Every variable keeps its type, for any alerts, schedule and interval: the
\* time stamp of the last message never lies ahead, and what is recorded as sent
\* is a day or week that has begun (_set_notification_setting, _set_setting).
THEOREM TypeCorrect == Spec => []TypeOK
<1>1. TypeInv => TypeOK
  BY DEF TypeInv
<1> QED BY <1>1, InitType, NextType, PTL DEF Spec

-----------------------------------------------------------------------------
(***************************************************************************)
(* Scheduled summaries                                                     *)
(***************************************************************************)
\* The scheduler has had summary p accepted for day or week i and is about to
\* record it.
Carrying(p, i) ==
  LET me == actor["scheduler"] IN
  me.pc \in {"stamp", "mark"} /\ me.task = p /\ Index(p, me.start) = i

\* What the scheduler is working on, and will work on, is not recorded yet.
PendingInv ==
  /\ \A p \in Periods : marked[p] <= Index(p, clock)
  /\ LET me == actor["scheduler"] IN
     me.pc # "idle" =>
       /\ marked[me.task] < Index(me.task, me.start)
       /\ me.left # {} => marked["weekly"] < Index("weekly", me.start)

\* What was accepted is recorded, about to be, or lost in a crash.
CarriedInv ==
  /\ \A p \in Periods, i \in Indices :
       /\ accepted[p][i] <= unmarked[p][i] + 1
       /\ marked[p] < i /\ ~Carrying(p, i) => accepted[p][i] <= unmarked[p][i]
       /\ Carrying(p, i) => accepted[p][i] > 0
  /\ \A p \in Periods : marked[p] # Never => accepted[p][marked[p]] > 0

SummaryInv == PendingInv /\ CarriedInv

\* Facts about numbers that every step needs.
LEMMA Numbers ==
  ASSUME TypeInv
  PROVE  /\ clock \in Nat /\ clock \in 0..MaxClock
         /\ \A p \in Periods : marked[p] \in Int /\ Index(p, clock) \in Nat
         /\ \A p \in Periods, i \in Indices :
              accepted[p][i] \in Nat /\ unmarked[p][i] \in Nat /\ i \in Nat
         /\ actor["scheduler"].pc # "idle" =>
              LET me == actor["scheduler"] IN
              /\ me.task \in Periods /\ me.start \in Nat /\ me.start \in 0..MaxClock
              /\ me.start <= clock
<1>1. clock \in Nat /\ clock \in 0..MaxClock
  BY ScheduleAssumption DEF TypeInv, TypeOK
<1>2. \A p \in Periods : marked[p] \in Int /\ Index(p, clock) \in Nat
  BY <1>1, IndexGrows DEF TypeInv, TypeOK, Never
<1>3. ASSUME NEW p \in Periods, NEW i \in Indices
      PROVE  accepted[p][i] \in Nat /\ unmarked[p][i] \in Nat /\ i \in Nat
  <2>1. Day(MaxClock) \in Nat
    BY Quotients, ScheduleAssumption DEF Day
  <2>2. accepted[p] \in [Indices -> Nat] /\ unmarked[p] \in [Indices -> Nat]
    BY DEF TypeInv, TypeOK
  <2> QED BY <2>1, <2>2 DEF Indices
<1>4. actor["scheduler"].start \in 0..MaxClock
  BY DEF TypeInv, TypeOK, Actors
<1> QED BY <1>1, <1>2, <1>3, <1>4, ScheduleAssumption DEF TypeInv, ActorInv

\* A step that records and accepts nothing, and leaves the scheduler at the
\* same summary, or takes it to the next one or to none.
LEMMA QuietSummary ==
  ASSUME TypeInv, SummaryInv, UNCHANGED <<clock, marked, accepted, unmarked>>,
         LET me == actor["scheduler"]  next == actor'["scheduler"] IN
         \/ /\ me.pc # "idle" /\ next.task = me.task /\ next.left = me.left /\ next.start = me.start
            /\ (me.pc \in {"stamp", "mark"}) <=> (next.pc \in {"stamp", "mark"})
         \/ /\ me.pc \notin {"stamp", "mark"}
            /\ \/ next.pc = "idle"
               \/ /\ me.pc # "idle" /\ me.left # {} /\ next.pc = "evaluate" /\ next.left = {}
                  /\ next.task = "weekly" /\ next.start = me.start
         \/ next = me
  PROVE  SummaryInv'
<1>1. \A p \in Periods, i \in Indices : Carrying(p, i)' <=> Carrying(p, i)
  BY DEF Carrying
<1>2. CarriedInv'
  BY <1>1 DEF SummaryInv, CarriedInv
<1>3. PendingInv'
  BY DEF SummaryInv, PendingInv
<1> QED BY <1>2, <1>3 DEF SummaryInv

\* Steps of the API call leave the scheduler where it is.
LEMMA NextTaskLeaves ==
  ASSUME TypeInv, NEW a \in Actors, NextTask(a), actor[a].pc # "idle"
  PROVE  LET me == actor["scheduler"]  next == actor'["scheduler"] IN
         \/ a = "api" /\ next = me
         \/ a = "scheduler" /\ next.pc = "idle"
         \/ /\ a = "scheduler" /\ me.left # {} /\ next.pc = "evaluate" /\ next.left = {}
            /\ next.task = "weekly" /\ next.start = me.start
<1>1. actor \in [Actors -> ActorType] /\ "scheduler" \in Actors
  BY DEF TypeInv, TypeOK, ActorType, Actors
<1>2. Idle.pc = "idle" /\ Idle.left = {}
  BY DEF Idle
<1>3. CASE a = "api"
  BY <1>1, <1>3 DEF NextTask, Actors
<1>4. CASE a = "scheduler" /\ actor[a].left = {}
  BY <1>1, <1>2, <1>4 DEF NextTask
<1>5. CASE a = "scheduler" /\ actor[a].left # {}
  <2> DEFINE r == [Idle EXCEPT !.pc = "evaluate", !.task = "weekly", !.start = actor[a].start]
  <2>1. actor' = [actor EXCEPT ![a] = r]
    BY <1>5 DEF NextTask
  <2>2. r.pc = "evaluate" /\ r.task = "weekly" /\ r.left = {} /\ r.start = actor[a].start
    BY DEF Idle
  <2> HIDE DEF r
  <2>3. actor'["scheduler"] = r
    BY <1>1, <1>5, <2>1
  <2> QED BY <1>5, <2>2, <2>3
<1> QED BY <1>3, <1>4, <1>5 DEF Actors

LEMMA StepSummary ==
  ASSUME TypeInv, SummaryInv, NEW a \in Actors, Step(a), ~RecordOfMessageFails(a)
  PROVE  SummaryInv'
<1>1. /\ actor \in [Actors -> ActorType] /\ "scheduler" \in Actors /\ clock' = clock
      /\ marked' = marked /\ unmarked' = unmarked /\ actor[a].pc # "idle"
  BY DEF TypeInv, TypeOK, ActorType, Actors, Step, Evaluate, Look, List, Record, RecordFails, Enqueue,
         CheckLimit, HeldBack, Accept, Refuse, Stamp, RecordOfMessageFails
<1>2. CASE Evaluate(a) \/ Look(a) \/ List(a)
  <2>1. accepted' = accepted /\ actor[a].pc \in {"evaluate", "look", "list"}
    BY <1>2 DEF Evaluate, Look, List
  <2>2. PICK r \in ActorType :
          /\ actor' = [actor EXCEPT ![a] = r]
          /\ r.pc \in {"look", "list", "record"} /\ r.task = actor[a].task
          /\ r.left = actor[a].left /\ r.start = actor[a].start
    BY <1>2, ReadMoves
  <2> QED BY <1>1, <2>1, <2>2, QuietSummary DEF Actors
<1>3. CASE Record(a)
  <2>1. AfterRecord(a) \in {"enqueue", "limit"} /\ Goto(a, AfterRecord(a)) /\ accepted' = accepted
        /\ actor[a].pc = "record"
    BY <1>3 DEF AfterRecord, Record
  <2> QED BY <1>1, <2>1, QuietSummary DEF Goto, ActorType
<1>4. CASE RecordFails(a) \/ Enqueue(a)
  <2>1. /\ accepted' = accepted /\ actor[a].pc \in {"record", "enqueue"}
        /\ actor' = [actor EXCEPT ![a] = Idle] \/ Goto(a, "limit")
    BY <1>4 DEF RecordFails, Enqueue
  <2>2. Idle.pc = "idle"
    BY DEF Idle
  <2>3. CASE actor' = [actor EXCEPT ![a] = Idle]
    <3>1. \/ actor'["scheduler"] = actor["scheduler"]
          \/ a = "scheduler" /\ actor'["scheduler"].pc = "idle"
      BY <1>1, <2>2, <2>3 DEF Actors
    <3> QED BY <1>1, <2>1, <3>1, QuietSummary
  <2>4. CASE Goto(a, "limit")
    BY <1>1, <2>1, <2>4, QuietSummary DEF Goto, ActorType
  <2> QED BY <2>1, <2>3, <2>4
<1>5. CASE CheckLimit(a) \/ Refuse(a)
  <2>1. /\ accepted' = accepted /\ actor[a].pc \in {"limit", "send"}
        /\ NextTask(a) \/ (Goto(a, "send") /\ actor[a].pc = "limit")
    BY <1>5 DEF CheckLimit, HeldBack, GoOn, Refuse
  <2>2. CASE NextTask(a)
    BY <1>1, <2>1, <2>2, NextTaskLeaves, QuietSummary
  <2>3. CASE Goto(a, "send") /\ actor[a].pc = "limit"
    BY <1>1, <2>1, <2>3, QuietSummary DEF Goto, ActorType
  <2> QED BY <2>1, <2>2, <2>3
<1>6. CASE Stamp(a)
  <2>1. /\ accepted' = accepted /\ actor[a].pc = "stamp"
        /\ (a = "scheduler" /\ Goto(a, "mark")) \/ (a # "scheduler" /\ NextTask(a))
    <3>1. CASE a = "scheduler"
      BY <1>6, <3>1 DEF Stamp, Stamped
    <3>2. CASE a # "scheduler"
      BY <1>6, <3>2 DEF Stamp, Stamped
    <3> QED BY <3>1, <3>2
  <2>2. CASE a = "scheduler" /\ Goto(a, "mark")
    BY <1>1, <2>1, <2>2, QuietSummary DEF Goto, ActorType
  <2>3. CASE a # "scheduler" /\ NextTask(a)
    BY <1>1, <2>1, <2>3, NextTaskLeaves, QuietSummary
  <2> QED BY <2>1, <2>2, <2>3
<1>7. CASE Accept(a)
  <2>1. CASE a = "api"
    BY <1>1, <1>7, <2>1, QuietSummary DEF Accept, Goto, ActorType
  <2>2. CASE a = "scheduler"
    <3> DEFINE p == actor[a].task
               i == Index(p, actor[a].start)
    <3>1. /\ p \in Periods /\ i \in Indices /\ marked[p] < i /\ actor[a].pc = "send"
      BY <1>1, <1>7, <2>2, CurrentSummary DEF SummaryInv, PendingInv, Accept
    <3>2. accepted' = [accepted EXCEPT ![p][i] = @ + 1]
      BY <1>7, <2>2 DEF Accept, OneMore
    <3>3. /\ actor'["scheduler"].pc = "stamp" /\ actor'["scheduler"].task = p
          /\ actor'["scheduler"].start = actor[a].start /\ actor'["scheduler"].left = actor[a].left
      BY <1>1, <1>7, <2>2 DEF Accept, Goto, ActorType
    <3>4. \A q \in Periods, j \in Indices :
            /\ Carrying(q, j)' <=> (q = p /\ j = i)
            /\ ~Carrying(q, j)
      BY <1>1, <2>2, <3>1, <3>3 DEF Carrying
    <3>5. \A q \in Periods, j \in Indices :
            accepted'[q][j] = IF q = p /\ j = i THEN accepted[q][j] + 1 ELSE accepted[q][j]
      BY <3>1, <3>2 DEF TypeInv, TypeOK
    <3>6. PendingInv'
      BY <1>1, <2>2, <3>1, <3>3 DEF SummaryInv, PendingInv
    <3>7. ASSUME NEW q \in Periods, NEW j \in Indices
          PROVE  /\ accepted'[q][j] <= unmarked'[q][j] + 1
                 /\ marked'[q] < j /\ ~Carrying(q, j)' => accepted'[q][j] <= unmarked'[q][j]
                 /\ Carrying(q, j)' => accepted'[q][j] > 0
      BY <1>1, <3>1, <3>4, <3>5, <3>7, Numbers DEF SummaryInv, CarriedInv
    <3>8. ASSUME NEW q \in Periods, marked'[q] # Never
          PROVE  accepted'[q][marked'[q]] > 0
      <4>1. marked[q] \in Indices
        BY <1>1, <3>8 DEF TypeInv, TypeOK, Indices, Never
      <4> QED BY <1>1, <3>5, <3>8, <4>1, Numbers DEF SummaryInv, CarriedInv
    <3> QED BY <3>6, <3>7, <3>8 DEF SummaryInv, CarriedInv
  <2> QED BY <2>1, <2>2 DEF Actors
<1> QED BY <1>2, <1>3, <1>4, <1>5, <1>6, <1>7 DEF Step

\* A cycle begins with a summary that is due, and so not recorded.
LEMMA BeginSummary ==
  ASSUME TypeInv, SummaryInv,
         \/ BeginCycle \/ \E call \in Calls : BeginCall(call)
         \/ \E a \in Actors : UnlimitedMessage(a)
  PROVE  SummaryInv'
<1>1. /\ UNCHANGED <<clock, marked, accepted, unmarked>>
      /\ actor \in [Actors -> ActorType] /\ "scheduler" \in Actors
  BY DEF BeginCycle, BeginCall, UnlimitedMessage, TypeInv, TypeOK, ActorType, Actors
<1>2. CASE actor'["scheduler"] = actor["scheduler"]
  BY <1>1, <1>2, QuietSummary
<1>3. CASE BeginCycle
  <2> DEFINE due == {p \in Periods : Due(p)}
             first == IF "daily" \in due THEN "daily" ELSE "weekly"
             begun == [Idle EXCEPT !.pc = "evaluate", !.task = first,
                                   !.left = due \ {first}, !.start = clock]
  <2>1. actor' = [actor EXCEPT !["scheduler"] = begun] /\ actor["scheduler"].pc = "idle"
    BY <1>3 DEF BeginCycle
  <2>2. /\ begun.pc = "evaluate" /\ begun.task = first /\ begun.left = due \ {first}
        /\ begun.start = clock
    BY DEF Idle
  <2>3. first \in due /\ (due \ {first} # {} => "weekly" \in due)
    BY <1>3 DEF BeginCycle, Periods
  <2>4. \A p \in due : p \in Periods /\ marked[p] < Index(p, clock)
    BY Numbers DEF SummaryInv, PendingInv, Due
  <2> HIDE DEF begun, first, due
  <2>5. actor'["scheduler"] = begun
    BY <1>1, <2>1
  <2>6. \A p \in Periods, i \in Indices : ~Carrying(p, i) /\ ~Carrying(p, i)'
    BY <2>1, <2>2, <2>5 DEF Carrying
  <2>7. CarriedInv'
    BY <1>1, <2>6 DEF SummaryInv, CarriedInv
  <2>8. PendingInv'
    BY <1>1, <2>2, <2>3, <2>4, <2>5 DEF SummaryInv, PendingInv
  <2> QED BY <2>7, <2>8 DEF SummaryInv
<1>5. ASSUME NEW call \in Calls, BeginCall(call)
      PROVE  SummaryInv'
  <2>1. actor'["scheduler"] = actor["scheduler"]
    BY <1>1, <1>5 DEF BeginCall
  <2> QED BY <1>2, <2>1
<1>6. ASSUME NEW a \in Actors, UnlimitedMessage(a)
      PROVE  SummaryInv'
  <2>1. actor' = actor
    BY <1>6 DEF UnlimitedMessage
  <2> QED BY <1>2, <2>1
<1> QED BY <1>3, <1>5, <1>6

LEMMA MarkSummary ==
  ASSUME TypeInv, SummaryInv, Mark
  PROVE  SummaryInv'
<1> DEFINE me == actor["scheduler"]
           p == me.task
           i == Index(p, me.start)
<1>1. /\ UNCHANGED <<clock, accepted, unmarked>> /\ me.pc = "mark" /\ NextTask("scheduler")
      /\ marked' = [marked EXCEPT ![p] = i]
  BY DEF Mark, Marked, GoOn
<1>2. p \in Periods /\ i \in Indices /\ i \in Nat /\ marked[p] < i /\ me.start \in Nat /\ me.start <= clock
  BY <1>1, CurrentSummary, Numbers DEF SummaryInv, PendingInv
<1>3. \A q \in Periods : marked'[q] = IF q = p THEN i ELSE marked[q]
  BY <1>1, <1>2 DEF TypeInv, TypeOK
<1>4. \A q \in Periods, j \in Indices : (Carrying(q, j) <=> q = p /\ j = i) /\ ~Carrying(q, j)'
  <2>1. actor'["scheduler"].pc \in {"idle", "evaluate"}
    BY <1>1, NextTaskLeaves DEF Actors
  <2> QED BY <1>1, <1>2, <2>1 DEF Carrying
<1>5. ASSUME NEW q \in Periods, NEW j \in Indices
      PROVE  /\ accepted'[q][j] <= unmarked'[q][j] + 1
             /\ marked'[q] < j /\ ~Carrying(q, j)' => accepted'[q][j] <= unmarked'[q][j]
             /\ Carrying(q, j)' => accepted'[q][j] > 0
  <2>1. marked'[q] < j => marked[q] < j /\ ~Carrying(q, j)
    BY <1>2, <1>3, <1>4, <1>5, Numbers
  <2> QED BY <1>1, <1>4, <2>1 DEF SummaryInv, CarriedInv
<1>6. ASSUME NEW q \in Periods, marked'[q] # Never
      PROVE  accepted'[q][marked'[q]] > 0
  <2>1. CASE q = p
    BY <1>1, <1>2, <1>3, <1>4, <2>1 DEF SummaryInv, CarriedInv
  <2>2. CASE q # p
    BY <1>1, <1>3, <1>6, <2>2 DEF SummaryInv, CarriedInv
  <2> QED BY <2>1, <2>2
<1>7. i <= Index(p, clock)
  BY <1>2, IndexGrows, Numbers
<1>8. PendingInv'
  <2>1. \A q \in Periods : marked'[q] <= Index(q, clock)
    BY <1>3, <1>7 DEF SummaryInv, PendingInv
  <2>2. \/ actor'["scheduler"].pc = "idle"
        \/ /\ me.left # {} /\ actor'["scheduler"].left = {} /\ actor'["scheduler"].task = "weekly"
           /\ actor'["scheduler"].start = me.start
    BY <1>1, NextTaskLeaves DEF Actors
  <2>3. CASE actor'["scheduler"].pc = "idle"
    BY <1>1, <2>1, <2>3 DEF PendingInv
  <2>4. CASE /\ me.left # {} /\ actor'["scheduler"].left = {} /\ actor'["scheduler"].task = "weekly"
             /\ actor'["scheduler"].start = me.start
    <3>1. p = "daily" /\ marked["weekly"] < Index("weekly", me.start)
      BY <1>1, <2>4 DEF TypeInv, ActorInv, SummaryInv, PendingInv
    <3>2. marked'["weekly"] = marked["weekly"]
      BY <1>3, <3>1 DEF Periods
    <3> QED BY <1>1, <2>1, <2>4, <3>1, <3>2 DEF PendingInv
  <2> QED BY <2>2, <2>3, <2>4
<1> QED BY <1>5, <1>6, <1>8 DEF SummaryInv, CarriedInv

LEMMA TickSummary ==
  ASSUME TypeInv, SummaryInv, Tick
  PROVE  SummaryInv'
<1>1. UNCHANGED <<marked, actor, accepted, unmarked>> /\ clock' = clock + 1 /\ clock \in Nat
  BY Numbers DEF Tick
<1>2. \A p \in Periods : marked[p] <= Index(p, clock')
  BY <1>1, IndexGrows, Numbers DEF SummaryInv, PendingInv
<1>3. \A p \in Periods, i \in Indices : Carrying(p, i)' <=> Carrying(p, i)
  BY <1>1 DEF Carrying
<1> QED BY <1>1, <1>2, <1>3 DEF SummaryInv, PendingInv, CarriedInv

\* A message that nobody records: the process dies, or a commit fails.
LEMMA LostSummary ==
  ASSUME TypeInv, SummaryInv, Crash \/ RecordOfMessageFails("scheduler")
  PROVE  SummaryInv'
<1> DEFINE me == actor["scheduler"]
           p == me.task
           i == Index(p, me.start)
<1>1. /\ UNCHANGED <<clock, marked, accepted>> /\ actor'["scheduler"].pc = "idle"
      /\ unmarked' = IF me.pc \in {"stamp", "mark"} THEN OneMore(unmarked) ELSE unmarked
  <2>1. CASE Crash
    BY <2>1 DEF Crash, Idle, Actors
  <2>2. CASE RecordOfMessageFails("scheduler")
    BY <2>2 DEF RecordOfMessageFails, Idle, Actors, TypeInv, TypeOK
  <2> QED BY <2>1, <2>2
<1>2. \A q \in Periods, j \in Indices : ~Carrying(q, j)'
  BY <1>1 DEF Carrying
<1>3. ASSUME NEW q \in Periods, NEW j \in Indices
      PROVE  /\ unmarked'[q][j] >= unmarked[q][j]
             /\ Carrying(q, j) => unmarked'[q][j] >= unmarked[q][j] + 1
  <2>1. CASE me.pc \in {"stamp", "mark"}
    <3>1. unmarked' = [unmarked EXCEPT ![p][i] = @ + 1]
      BY <1>1, <2>1 DEF OneMore
    <3>2. p \in Periods /\ i \in Indices
      BY <2>1, CurrentSummary
    <3>3. unmarked'[q][j] = IF q = p /\ j = i THEN unmarked[q][j] + 1 ELSE unmarked[q][j]
      BY <3>1, <3>2 DEF TypeInv, TypeOK
    <3>4. Carrying(q, j) => q = p /\ j = i
      BY DEF Carrying
    <3> QED BY <1>3, <3>3, <3>4, Numbers
  <2>2. CASE me.pc \notin {"stamp", "mark"}
    BY <1>1, <1>3, <2>2, Numbers DEF Carrying
  <2> QED BY <2>1, <2>2
<1>4. unmarked' \in [Periods -> [Indices -> Nat]]
  BY EnvironmentType, RecordOfMessageFailsType DEF TypeInv, TypeOK, Actors
<1>5. ASSUME NEW q \in Periods, NEW j \in Indices
      PROVE  /\ accepted'[q][j] <= unmarked'[q][j] + 1
             /\ marked'[q] < j /\ ~Carrying(q, j)' => accepted'[q][j] <= unmarked'[q][j]
  <2>1. unmarked'[q][j] \in Nat /\ unmarked[q][j] \in Nat /\ accepted[q][j] \in Nat
    BY <1>4, <1>5, Numbers
  <2> QED BY <1>1, <1>3, <1>5, <2>1 DEF SummaryInv, CarriedInv
<1>6. PendingInv'
  BY <1>1 DEF SummaryInv, PendingInv
<1>7. \A q \in Periods : marked'[q] # Never => accepted'[q][marked'[q]] > 0
  BY <1>1 DEF SummaryInv, CarriedInv
<1> QED BY <1>2, <1>5, <1>6, <1>7 DEF SummaryInv, CarriedInv

\* The next-state relation, for both theorems about summaries.
LEMMA NextSummary == TypeInv /\ SummaryInv /\ [Next]_vars => SummaryInv'
<1> SUFFICES ASSUME TypeInv, SummaryInv, [Next]_vars
             PROVE  SummaryInv'
  OBVIOUS
<1>1. CASE UNCHANGED vars \/ NewData
  BY <1>1, QuietSummary DEF vars, NewData
<1>2. CASE RecordOfMessageFails("api")
  <2>1. UNCHANGED <<clock, marked, accepted, unmarked>> /\ actor'["scheduler"] = actor["scheduler"]
    BY <1>2 DEF RecordOfMessageFails, TypeInv, TypeOK, Actors
  <2> QED BY <2>1, QuietSummary
<1>3. ASSUME NEW a \in Actors, Step(a)
      PROVE  SummaryInv'
  BY <1>2, <1>3, StepSummary, LostSummary DEF Actors
<1> QED BY <1>1, <1>3, BeginSummary, MarkSummary, TickSummary, LostSummary DEF Next

LEMMA InitSummary == Init => SummaryInv
<1> SUFFICES ASSUME Init PROVE SummaryInv
  OBVIOUS
<1>1. clock = 0 /\ \A p \in Periods : Index(p, 0) \in Nat /\ marked[p] = -1
  BY IndexGrows DEF Init, Never
<1>2. actor["scheduler"].pc = "idle"
  BY DEF Init, Idle, Actors
<1>3. \A p \in Periods, i \in Indices : accepted[p][i] = 0 /\ unmarked[p][i] = 0
  BY DEF Init
<1> QED BY <1>1, <1>2, <1>3 DEF SummaryInv, PendingInv, CarriedInv, Carrying, Never

\* A scheduled summary is accepted once for its day or week, and once more for
\* every crash or failing commit between its acceptance and its record; nothing
\* is recorded that was not accepted (send_due_scheduled_summaries, _set_setting).
THEOREM SummariesOnce == Spec => []SummaryOnce
<1>1. TypeInv /\ SummaryInv => SummaryOnce
  BY Numbers DEF SummaryInv, CarriedInv, SummaryOnce
<1> QED BY <1>1, InitSummary, NextSummary, InitType, NextType, PTL DEF Spec

-----------------------------------------------------------------------------
(***************************************************************************)
(* The history of alerts                                                   *)
(***************************************************************************)
Known == {s \in Alerts : history[s] # "absent"}

\* What an evaluation has read may be out of date, but no row disappears; as
\* long as nothing was recorded since the last quiet moment it is as it was.
ReadingsInv ==
  \A a \in Actors :
    LET me == actor[a] IN
    /\ me.pc = "enqueue" => me.signals \subseteq Known
    /\ me.pc \in {"list", "record"} =>
         /\ me.found \subseteq Known /\ me.dormant \subseteq me.signals
         /\ seen.fresh => /\ me.found = me.signals \cap Known
                          /\ me.dormant = {s \in me.signals : history[s] = "resolved"}
    /\ me.pc = "record" /\ seen.fresh => me.listed = Active

HistoryInv ==
  /\ seen.all \subseteq Active /\ Active \subseteq seen.some
  /\ queued \subseteq Known
  /\ ReadingsInv

\* A step that writes no history, and takes actors to where nothing is read.
LEMMA QuietHistory ==
  ASSUME TypeInv, HistoryInv, UNCHANGED <<history, queued, seen>>,
         \A a \in Actors : \/ actor'[a] = actor[a]
                           \/ actor'[a].pc \notin {"list", "record", "enqueue"}
  PROVE  HistoryInv'
<1>1. Known' = Known /\ Active' = Active
  BY DEF Known, Active
<1> QED BY <1>1 DEF HistoryInv, ReadingsInv

LEMMA EvaluateHistory ==
  ASSUME TypeInv, HistoryInv, NEW a \in Actors, Evaluate(a)
  PROVE  HistoryInv'
<1>1. /\ UNCHANGED <<history, queued>> /\ actor \in [Actors -> ActorType]
      /\ actor' = [actor EXCEPT ![a].signals = current, ![a].pc = "look"]
      /\ seen' = IF \E b \in Others(a) : Evaluating(b) THEN seen ELSE [seen EXCEPT !.fresh = TRUE]
      /\ seen \in [some : SUBSET Alerts, all : SUBSET Alerts, fresh : BOOLEAN]
  BY DEF Evaluate, TypeInv, TypeOK, ActorType, TodayType
<1>2. Known' = Known /\ Active' = Active /\ seen'.some = seen.some /\ seen'.all = seen.all
  BY <1>1 DEF Known, Active
<1>3. actor'[a].pc = "look" /\ \A b \in Actors \ {a} : actor'[b] = actor[b]
  BY <1>1 DEF ActorType
<1>4. CASE \E b \in Others(a) : Evaluating(b)
  BY <1>1, <1>2, <1>3, <1>4 DEF HistoryInv, ReadingsInv
<1>5. CASE ~\E b \in Others(a) : Evaluating(b)
  <2>1. \A b \in Actors : actor'[b].pc \notin {"list", "record"}
    BY <1>3, <1>5 DEF Others, Evaluating
  <2>2. \A b \in Actors : actor'[b].pc = "enqueue" => actor'[b].signals \subseteq Known'
    BY <1>2, <1>3 DEF HistoryInv, ReadingsInv
  <2> QED BY <1>1, <1>2, <2>1, <2>2 DEF HistoryInv, ReadingsInv
<1> QED BY <1>4, <1>5

LEMMA LookHistory ==
  ASSUME TypeInv, HistoryInv, NEW a \in Actors, Look(a)
  PROVE  HistoryInv'
<1> DEFINE found == {s \in actor[a].signals : history[s] # "absent"}
           dormant == {s \in actor[a].signals : history[s] = "resolved"}
<1>1. /\ UNCHANGED <<history, queued, seen>> /\ actor \in [Actors -> ActorType]
      /\ actor' = [actor EXCEPT ![a].found = found, ![a].dormant = dormant, ![a].pc = "list"]
      /\ actor[a].signals \subseteq Alerts
  BY DEF Look, TypeInv, TypeOK, ActorType, TodayType
<1>2. Known' = Known /\ Active' = Active
  BY <1>1 DEF Known, Active
<1>3. /\ actor'[a].pc = "list" /\ actor'[a].found = found /\ actor'[a].dormant = dormant
      /\ actor'[a].signals = actor[a].signals
      /\ \A b \in Actors \ {a} : actor'[b] = actor[b]
  BY <1>1 DEF ActorType
<1>4. found = actor[a].signals \cap Known
  BY <1>1 DEF Known
<1> HIDE DEF found
<1> QED BY <1>1, <1>2, <1>3, <1>4 DEF HistoryInv, ReadingsInv

LEMMA ListHistory ==
  ASSUME TypeInv, HistoryInv, NEW a \in Actors, List(a)
  PROVE  HistoryInv'
<1>1. /\ UNCHANGED <<history, queued, seen>> /\ actor \in [Actors -> ActorType]
      /\ actor' = [actor EXCEPT ![a].listed = Active, ![a].pc = "record"] /\ actor[a].pc = "list"
  BY DEF List, TypeInv, TypeOK, ActorType, TodayType
<1>2. Known' = Known /\ Active' = Active
  BY <1>1 DEF Known, Active
<1>3. /\ actor'[a].pc = "record" /\ actor'[a].listed = Active /\ actor'[a].found = actor[a].found
      /\ actor'[a].dormant = actor[a].dormant /\ actor'[a].signals = actor[a].signals
      /\ \A b \in Actors \ {a} : actor'[b] = actor[b]
  BY <1>1 DEF ActorType
<1> QED BY <1>1, <1>2, <1>3 DEF HistoryInv, ReadingsInv

LEMMA RecordHistory ==
  ASSUME TypeInv, HistoryInv, NEW a \in Actors, Record(a)
  PROVE  HistoryInv'
<1> DEFINE me == actor[a]
<1>1. /\ queued' = queued /\ actor \in [Actors -> ActorType] /\ history' = Recorded(a)
      /\ me.pc = "record" /\ me.signals \subseteq Alerts
      /\ seen' = IF seen.fresh THEN [some |-> me.signals, all |-> me.signals, fresh |-> FALSE]
                 ELSE [seen EXCEPT !.some = @ \cup me.signals, !.all = @ \cap me.signals]
      /\ seen \in [some : SUBSET Alerts, all : SUBSET Alerts, fresh : BOOLEAN]
      /\ history \in [Alerts -> States]
  BY DEF Record, TypeInv, TypeOK, ActorType, TodayType
<1>2. me.found \subseteq Known /\ me.dormant \subseteq me.signals
  BY <1>1 DEF HistoryInv, ReadingsInv
<1>3. \A s \in Alerts :
        history'[s] = IF s \in (me.signals \ me.found) \cup me.dormant THEN "active"
                      ELSE IF s \in me.listed \ me.signals THEN "resolved" ELSE history[s]
  BY <1>1 DEF Recorded, Inserts, Reopened, Resolved
<1>4. Known \subseteq Known' /\ me.signals \subseteq Known'
  BY <1>1, <1>2, <1>3 DEF Known
<1>5. seen'.fresh = FALSE
  BY <1>1
<1>6. seen'.all \subseteq Active' /\ Active' \subseteq seen'.some
  <2>1. CASE seen.fresh
    <3>1. /\ me.found = me.signals \cap Known /\ me.listed = Active
          /\ me.dormant = {s \in me.signals : history[s] = "resolved"}
      BY <1>1, <2>1 DEF HistoryInv, ReadingsInv
    <3>2. Active' = me.signals
      BY <1>1, <1>3, <3>1 DEF Active, Known, States
    <3> QED BY <1>1, <2>1, <3>2
  <2>2. CASE ~seen.fresh
    <3>1. seen'.some = seen.some \cup me.signals /\ seen'.all = seen.all \cap me.signals
      BY <1>1, <2>2
    <3>2. seen.all \cap me.signals \subseteq Active'
      BY <1>1, <1>3 DEF HistoryInv, Active
    <3>3. Active' \subseteq seen.some \cup me.signals
      BY <1>1, <1>2, <1>3 DEF HistoryInv, Active
    <3> QED BY <3>1, <3>2, <3>3
  <2> QED BY <2>1, <2>2
<1>7. ReadingsInv'
  <2>1. AfterRecord(a) \in {"enqueue", "limit"} /\ Goto(a, AfterRecord(a))
    BY DEF AfterRecord, Record
  <2>2. /\ actor'[a].pc \in {"enqueue", "limit"} /\ actor'[a].signals = me.signals
        /\ \A b \in Actors \ {a} : actor'[b] = actor[b]
    BY <1>1, <2>1 DEF Goto, ActorType
  <2> QED BY <1>4, <1>5, <2>2 DEF HistoryInv, ReadingsInv
<1> QED BY <1>1, <1>4, <1>6, <1>7 DEF HistoryInv

LEMMA EnqueueHistory ==
  ASSUME TypeInv, HistoryInv, NEW a \in Actors, Enqueue(a)
  PROVE  HistoryInv'
<1>1. /\ UNCHANGED <<history, seen>> /\ actor \in [Actors -> ActorType]
      /\ queued' = queued \cup actor[a].signals /\ actor[a].pc = "enqueue"
      /\ Goto(a, "limit") \/ actor' = [actor EXCEPT ![a] = Idle]
  BY DEF Enqueue, TypeInv, TypeOK, ActorType, TodayType
<1>2. Known' = Known /\ Active' = Active
  BY <1>1 DEF Known, Active
<1>3. actor'[a].pc \in {"limit", "idle"} /\ \A b \in Actors \ {a} : actor'[b] = actor[b]
  BY <1>1 DEF Goto, ActorType, Idle
<1>4. queued' \subseteq Known
  BY <1>1 DEF HistoryInv, ReadingsInv
<1> QED BY <1>1, <1>2, <1>3, <1>4 DEF HistoryInv, ReadingsInv

\* The other steps read and write no history.
LEMMA OtherHistory ==
  ASSUME TypeInv, HistoryInv, NEW a \in Actors,
         \/ RecordFails(a) \/ CheckLimit(a) \/ Accept(a) \/ Refuse(a) \/ Stamp(a)
         \/ RecordOfMessageFails(a)
  PROVE  HistoryInv'
<1>1. /\ UNCHANGED <<history, queued, seen>> /\ actor \in [Actors -> ActorType] /\ actor[a].pc # "idle"
      /\ \/ actor' = [actor EXCEPT ![a] = Idle]
         \/ NextTask(a)
         \/ \E pc \in {"send", "stamp", "mark"} : Goto(a, pc)
  BY DEF RecordFails, CheckLimit, HeldBack, GoOn, Accept, Refuse, Stamp, Stamped, RecordOfMessageFails,
         TypeInv, TypeOK, ActorType
<1>2. /\ \A b \in Actors \ {a} : actor'[b] = actor[b]
      /\ actor'[a].pc \in {"idle", "evaluate", "send", "stamp", "mark"}
  <2>1. CASE actor' = [actor EXCEPT ![a] = Idle]
    BY <1>1, <2>1 DEF Idle
  <2>2. CASE NextTask(a)
    <3>1. actor' = [actor EXCEPT ![a] = IF actor[a].left = {} THEN Idle
                      ELSE [Idle EXCEPT !.pc = "evaluate", !.task = "weekly", !.start = actor[a].start]]
      BY <2>2 DEF NextTask
    <3>2. CASE actor[a].left = {}
      BY <1>1, <3>1, <3>2 DEF Idle
    <3>3. CASE actor[a].left # {}
      BY <1>1, <3>1, <3>3 DEF Idle
    <3> QED BY <3>2, <3>3
  <2>3. ASSUME NEW pc \in {"send", "stamp", "mark"}, Goto(a, pc)
        PROVE  /\ \A b \in Actors \ {a} : actor'[b] = actor[b]
               /\ actor'[a].pc \in {"send", "stamp", "mark"}
    BY <1>1, <2>3 DEF Goto, ActorType
  <2> QED BY <1>1, <2>1, <2>2, <2>3
<1> QED BY <1>1, <1>2, QuietHistory

LEMMA RestHistory ==
  ASSUME TypeInv, HistoryInv,
         \/ UNCHANGED vars \/ BeginCycle \/ \E call \in Calls : BeginCall(call)
         \/ \E a \in Actors : UnlimitedMessage(a)
         \/ Mark \/ Tick \/ NewData \/ Crash
  PROVE  HistoryInv'
<1>1. UNCHANGED <<history, queued, seen>> /\ actor \in [Actors -> ActorType]
  BY DEF vars, BeginCycle, BeginCall, UnlimitedMessage, Mark, Tick, NewData, Crash, TypeInv, TypeOK, ActorType, TodayType
<1>2. Idle.pc = "idle"
  BY DEF Idle
<1>3. \A a \in Actors : actor'[a] = actor[a] \/ actor'[a].pc \in {"idle", "evaluate"}
  <2>1. CASE BeginCycle
    <3>1. \E first, left :
            actor' = [actor EXCEPT !["scheduler"] =
              [Idle EXCEPT !.pc = "evaluate", !.task = first, !.left = left, !.start = clock]]
      BY <2>1 DEF BeginCycle
    <3> QED BY <1>1, <3>1 DEF Idle, Actors
  <2>2. ASSUME NEW call \in Calls, BeginCall(call)
        PROVE  \A a \in Actors : actor'[a] = actor[a] \/ actor'[a].pc \in {"idle", "evaluate"}
    <3>1. actor' = [actor EXCEPT !["api"] = [Idle EXCEPT !.pc = "evaluate", !.task = call]]
      BY <2>2 DEF BeginCall
    <3> QED BY <1>1, <3>1 DEF Idle, Actors
  <2>3. CASE Mark
    <3>1. NextTask("scheduler") /\ actor["scheduler"].pc # "idle"
      BY <2>3 DEF Mark, GoOn
    <3>2. \A a \in Actors \ {"scheduler"} : actor'[a] = actor[a]
      BY <1>1, <3>1 DEF NextTask
    <3>3. actor'["scheduler"].pc \in {"idle", "evaluate"}
      BY <3>1, NextTaskLeaves DEF Actors
    <3> QED BY <3>2, <3>3
  <2>4. CASE \/ UNCHANGED vars \/ \E a \in Actors : UnlimitedMessage(a)
             \/ Tick \/ NewData
    BY <2>4 DEF vars, UnlimitedMessage, Tick, NewData
  <2>5. CASE Crash
    BY <1>2, <2>5 DEF Crash
  <2> QED BY <2>1, <2>2, <2>3, <2>4, <2>5
<1> QED BY <1>1, <1>3, QuietHistory

\* However evaluations overlap, conflict and fail, the active alerts are those
\* the last ones found: all of them at least, some of them at most
\* (record_alert_evaluation).
THEOREM HistoryIsWhatWasFound == Spec => []HistoryFollows
<1>1. Init => HistoryInv
  BY DEF Init, HistoryInv, ReadingsInv, Known, Active, Idle
<1>2. TypeInv /\ HistoryInv /\ [Next]_vars => HistoryInv'
  BY EvaluateHistory, LookHistory, ListHistory, RecordHistory, EnqueueHistory, OtherHistory,
     RestHistory DEF Next, Step
<1>3. HistoryInv => HistoryFollows
  BY DEF HistoryInv, HistoryFollows, Known
<1> QED BY <1>1, <1>2, <1>3, InitType, NextType, PTL DEF Spec

-----------------------------------------------------------------------------
(***************************************************************************)
(* Summaries keep up                                                       *)
(***************************************************************************)
\* There is nothing left to do for summary p today, or this week.
Done(p) ==
  \/ p \notin Enabled
  \/ p = "weekly" /\ ~OnWeekday(clock)
  \/ marked[p] = Index(p, clock)

\* The summary that the next cycle with a chance gets done.
First == IF "daily" \in Enabled /\ today.good = 0 THEN "daily" ELSE "weekly"

\* What the cycles of the day that had a chance have got done, ...
GoodInv ==
  /\ today.good >= 1 => Done("daily")
  /\ today.good >= 1 /\ "daily" \notin Enabled => Done("weekly")
  /\ today.good >= 2 => Done("weekly")

\* ... and what the one under way has, as long as it keeps its chance: it works
\* on the first summary under a limit that stays free, or that one is done.
ChanceInv ==
  LET me == actor["scheduler"] IN
  today.chance =>
    /\ me.pc # "idle" /\ Day(me.start) = Day(clock)
    /\ Done(First) \/ (me.task = First /\ (me.pc # "mark" => ~Limited))

KeepUpInv == GoodInv /\ ChanceInv

LEMMA SameDay ==
  ASSUME UNCHANGED marked, Day(clock') = Day(clock), today'.good = today.good
  PROVE  /\ First' = First /\ First \in {"daily", "weekly"}
         /\ Done("daily")' <=> Done("daily")
         /\ Done("weekly")' <=> Done("weekly")
         /\ Done(First)' <=> Done(First)
         /\ GoodInv' <=> GoodInv
<1>1. First' = First /\ First \in {"daily", "weekly"}
  BY DEF First
<1>2. /\ Index("daily", clock') = Index("daily", clock) /\ Index("weekly", clock') = Index("weekly", clock)
      /\ OnWeekday(clock') <=> OnWeekday(clock)
  BY DEF Index, Week, OnWeekday
<1>3. (Done("daily")' <=> Done("daily")) /\ (Done("weekly")' <=> Done("weekly"))
  BY <1>2 DEF Done
<1>4. Done(First)' <=> Done(First)
  <2>1. CASE First = "daily"
    BY <1>1, <1>3, <2>1
  <2>2. CASE First = "weekly"
    BY <1>1, <1>3, <2>2
  <2> QED BY <1>1, <2>1, <2>2
<1>5. GoodInv' <=> GoodInv
  BY <1>3 DEF GoodInv
<1> QED BY <1>1, <1>3, <1>4, <1>5

\* A step that takes the chance from the cycle under way, or finds it gone.
LEMMA DisturbedKeepUp ==
  ASSUME KeepUpInv, UNCHANGED <<clock, marked>>, ~today'.chance, today'.good = today.good
  PROVE  KeepUpInv'
<1>1. GoodInv'
  BY SameDay DEF KeepUpInv
<1> QED BY <1>1 DEF KeepUpInv, ChanceInv

\* A step that marks nothing and leaves the scheduler with its summary, or
\* takes it from one that is done to the next.
LEMMA QuietKeepUp ==
  ASSUME KeepUpInv, UNCHANGED <<clock, marked, lastSent, today>>,
         LET me == actor["scheduler"]  next == actor'["scheduler"] IN
         \/ next = me
         \/ /\ next.pc \notin {"idle", "mark"} /\ me.pc # "mark"
            /\ next.task = me.task /\ next.start = me.start
         \/ next.pc # "idle" /\ next.start = me.start /\ Done(First)
  PROVE  KeepUpInv'
<1>1. First' = First /\ (Done(First)' <=> Done(First)) /\ GoodInv'
  BY SameDay DEF KeepUpInv
<1>2. Limited' <=> Limited
  BY DEF Limited
<1> QED BY <1>1, <1>2 DEF KeepUpInv, ChanceInv

\* A cycle that goes on, with its first summary done by now if it has a chance.
LEMMA GoOnKeepUp ==
  ASSUME TypeInv, KeepUpInv, UNCHANGED clock, GoOn("scheduler"), actor["scheduler"].pc # "idle",
         Done("daily") => Done("daily")', Done("weekly") => Done("weekly")',
         today.chance => (First = "daily" /\ Done("daily")') \/ (First = "weekly" /\ Done("weekly")')
  PROVE  KeepUpInv'
<1> DEFINE me == actor["scheduler"]
           next == actor'["scheduler"]
<1>1. today.good \in Nat
  BY DEF TypeInv, TypeOK
<1>2. NextTask("scheduler")
  BY DEF GoOn
<1>3. \/ next.pc = "idle"
      \/ me.left # {} /\ next.pc = "evaluate" /\ next.start = me.start
  BY <1>2, NextTaskLeaves DEF Actors
<1>4. CASE me.left = {} /\ today.chance
  <2>1. today' = [good |-> today.good + 1, chance |-> FALSE]
    BY <1>4 DEF GoOn
  <2>2. Done("daily")'
    <3>1. CASE "daily" \notin Enabled
      BY <3>1 DEF Done
    <3>2. CASE "daily" \in Enabled /\ today.good = 0
      BY <1>4, <3>2 DEF First
    <3>3. CASE today.good # 0
      BY <1>1, <3>3 DEF KeepUpInv, GoodInv
    <3> QED BY <3>1, <3>2, <3>3
  <2>3. "daily" \notin Enabled \/ today.good # 0 => Done("weekly")'
    BY <1>4 DEF First
  <2> QED BY <1>1, <2>1, <2>2, <2>3 DEF KeepUpInv, GoodInv, ChanceInv
<1>5. CASE ~(me.left = {} /\ today.chance)
  <2>1. today' = today
    BY <1>5 DEF GoOn
  <2>2. GoodInv'
    BY <2>1 DEF KeepUpInv, GoodInv
  <2>3. ASSUME today.chance
        PROVE  ChanceInv'
    <3>1. me.left # {} /\ next.pc = "evaluate" /\ next.start = me.start
      <4>1. actor \in [Actors -> ActorType] /\ "scheduler" \in Actors
        BY DEF TypeInv, TypeOK, ActorType, Actors
      <4>2. CASE next.pc = "idle"
        <5> DEFINE r == [Idle EXCEPT !.pc = "evaluate", !.task = "weekly", !.start = me.start]
        <5>1. actor' = [actor EXCEPT !["scheduler"] = r]
          BY <1>2, <1>5, <2>3 DEF NextTask
        <5>2. r.pc = "evaluate"
          BY DEF Idle
        <5> QED BY <4>1, <4>2, <5>1, <5>2
      <4> QED BY <1>3, <4>2
    <3>2. First' = First /\ Done(First)'
      <4>1. First' = First /\ First \in {"daily", "weekly"}
        BY <2>1 DEF First
      <4>2. CASE First = "daily"
        BY <2>3, <4>1, <4>2
      <4>3. CASE First = "weekly"
        BY <2>3, <4>1, <4>3
      <4> QED BY <4>1, <4>2, <4>3
    <3> QED BY <2>1, <3>1, <3>2 DEF KeepUpInv, ChanceInv
  <2> QED BY <2>1, <2>2, <2>3 DEF KeepUpInv, ChanceInv
<1> QED BY <1>4, <1>5

\* A summary is recorded.
LEMMA MarkKeepUp ==
  ASSUME TypeInv, SummaryInv, KeepUpInv, Mark
  PROVE  KeepUpInv'
<1> DEFINE me == actor["scheduler"]
           p == me.task
           i == Index(p, me.start)
<1>1. /\ UNCHANGED <<clock, lastSent>> /\ me.pc = "mark" /\ GoOn("scheduler")
      /\ marked' = [marked EXCEPT ![p] = i]
  BY DEF Mark, Marked
<1>2. p \in Periods /\ me.start \in Nat /\ me.start <= clock /\ marked[p] < i /\ i \in Nat
      /\ i <= Index(p, clock) /\ marked[p] \in Int /\ Index(p, clock) \in Nat
  BY <1>1, Numbers, IndexGrows DEF SummaryInv, PendingInv
<1>3. \A q \in Periods : marked'[q] = IF q = p THEN i ELSE marked[q]
  BY <1>1, <1>2 DEF TypeInv, TypeOK
<1>4. \A q \in Periods : Done(q) => Done(q)'
  BY <1>1, <1>2, <1>3 DEF Done
<1>5. (Done("daily") => Done("daily")') /\ (Done("weekly") => Done("weekly")')
  BY <1>4 DEF Periods
<1>6. Day(me.start) = Day(clock) => i = Index(p, clock)
  BY DEF Index, Week
<1>7. Day(me.start) = Day(clock) =>
        (p = "daily" => Done("daily")') /\ (p = "weekly" => Done("weekly")')
  BY <1>1, <1>2, <1>3, <1>6 DEF Done
<1>8. today.chance => (First = "daily" /\ Done("daily")') \/ (First = "weekly" /\ Done("weekly")')
  <2>1. CASE First = "daily"
    BY <1>1, <1>5, <1>7, <2>1 DEF KeepUpInv, ChanceInv
  <2>2. CASE First = "weekly"
    BY <1>1, <1>5, <1>7, <2>2 DEF KeepUpInv, ChanceInv
  <2> QED BY <2>1, <2>2 DEF First
<1> QED BY <1>1, <1>5, <1>8, GoOnKeepUp

\* A cycle begins with the first summary unless that is done.
LEMMA BeginKeepUp ==
  ASSUME TypeInv, KeepUpInv, BeginCycle
  PROVE  KeepUpInv'
<1> DEFINE due == {p \in Periods : Due(p)}
           first == IF "daily" \in due THEN "daily" ELSE "weekly"
           begun == [Idle EXCEPT !.pc = "evaluate", !.task = first,
                                 !.left = due \ {first}, !.start = clock]
<1>1. /\ UNCHANGED <<clock, marked, lastSent>> /\ due # {}
      /\ actor' = [actor EXCEPT !["scheduler"] = begun]
      /\ actor \in [Actors -> ActorType] /\ "scheduler" \in Actors
  BY DEF BeginCycle, TypeInv, TypeOK, ActorType, Actors
<1>2. today' = [today EXCEPT !.chance = lastSent = Never \/ lastSent + Interval <= clock]
  BY DEF BeginCycle
<1>3. today'.good = today.good /\ (today'.chance => lastSent = Never \/ lastSent + Interval <= clock)
  BY <1>2 DEF TypeInv, TypeOK
<1>4. GoodInv' /\ First' = First /\ (Done(First)' <=> Done(First)) /\ First \in {"daily", "weekly"}
  BY <1>1, <1>3, SameDay DEF KeepUpInv
<1>5. PastSendHour(clock) /\ first \in due
  BY <1>1 DEF Periods, Due
<1>6. \A p \in Periods \ due : Done(p)
  BY <1>5 DEF Due, Done
<1>7. first = First \/ Done(First)
  <2>1. CASE First = "daily"
    <3>1. CASE "daily" \in due
      BY <2>1, <3>1
    <3>2. CASE "daily" \notin due
      BY <1>6, <2>1, <3>2 DEF Periods
    <3> QED BY <3>1, <3>2
  <2>2. CASE First = "weekly" /\ "daily" \in Enabled
    <3>1. today.good >= 1
      BY <2>2 DEF First, TypeInv, TypeOK
    <3>2. "daily" \notin due
      BY <3>1 DEF KeepUpInv, GoodInv, Done, Due
    <3> QED BY <2>2, <3>2
  <2>3. CASE First = "weekly" /\ "daily" \notin Enabled
    BY <2>3 DEF Due
  <2> QED BY <1>4, <2>1, <2>2, <2>3
<1>8. begun.pc = "evaluate" /\ begun.task = first /\ begun.start = clock
  BY DEF Idle
<1> HIDE DEF begun, first, due
<1>9. actor'["scheduler"] = begun
  BY <1>1
<1>10. today'.chance => ~Limited'
  <2>1. lastSent \in Int /\ clock \in Nat /\ Interval \in Nat
    BY ScheduleAssumption DEF TypeInv, TypeOK, Never
  <2> QED BY <1>1, <1>3, <2>1 DEF Limited
<1>11. ChanceInv'
  BY <1>1, <1>4, <1>7, <1>8, <1>9, <1>10 DEF ChanceInv
<1> QED BY <1>4, <1>11 DEF KeepUpInv

\* The calls of administrators, and messages that are not limited.
LEMMA CallKeepUp ==
  ASSUME TypeInv, KeepUpInv,
         \/ \E call \in Calls : BeginCall(call)
         \/ \E a \in Actors : UnlimitedMessage(a)
         \/ Step("api")
  PROVE  KeepUpInv'
<1>1. /\ UNCHANGED <<clock, marked>>
      /\ actor \in [Actors -> ActorType] /\ "scheduler" \in Actors /\ "api" \in Actors
  BY DEF BeginCall, UnlimitedMessage, TypeInv, TypeOK, ActorType, Actors, Step, Evaluate, Look, List,
         Record, RecordFails, Enqueue, CheckLimit, HeldBack, Accept, Refuse, Stamp, RecordOfMessageFails
<1>2. actor'["scheduler"] = actor["scheduler"]
  <2>1. CASE \E call \in Calls : BeginCall(call)
    BY <1>1, <2>1 DEF BeginCall
  <2>2. CASE \E a \in Actors : UnlimitedMessage(a)
    BY <2>2 DEF UnlimitedMessage
  <2>3. CASE Evaluate("api") \/ Look("api") \/ List("api") \/ Record("api") \/ RecordFails("api")
             \/ Enqueue("api") \/ Accept("api") \/ RecordOfMessageFails("api")
    BY <1>1, <2>3 DEF Evaluate, Look, List, Record, RecordFails, Enqueue, Accept, Goto, RecordOfMessageFails
  <2>4. CASE CheckLimit("api") \/ Refuse("api") \/ Stamp("api")
    <3>1. NextTask("api") \/ Goto("api", "send")
      BY <2>4 DEF CheckLimit, HeldBack, GoOn, Refuse, Stamp, Stamped
    <3> QED BY <1>1, <3>1 DEF NextTask, Goto
  <2> QED BY <2>1, <2>2, <2>3, <2>4 DEF Step
<1>3. \/ ~today'.chance /\ today'.good = today.good
      \/ UNCHANGED <<lastSent, today>>
  <2>1. CASE \/ \E a \in Actors : UnlimitedMessage(a)
             \/ RecordFails("api") \/ Stamp("api") \/ Refuse("api") \/ RecordOfMessageFails("api")
    <3>1. Disturbed
      BY <2>1 DEF UnlimitedMessage, RecordFails, Stamp, Stamped, Refuse, RecordOfMessageFails
    <3> QED BY <3>1, DisturbedType DEF TypeInv
  <2>2. CASE \/ \E call \in Calls : BeginCall(call)
             \/ Evaluate("api") \/ Look("api") \/ List("api") \/ Record("api") \/ Enqueue("api")
             \/ Accept("api") \/ CheckLimit("api")
    BY <2>2 DEF BeginCall, Evaluate, Look, List, Record, Enqueue, Accept, CheckLimit, HeldBack, GoOn
  <2> QED BY <2>1, <2>2 DEF Step
<1> QED BY <1>1, <1>2, <1>3, QuietKeepUp, DisturbedKeepUp

LEMMA SchedulerKeepUp ==
  ASSUME TypeInv, KeepUpInv, Step("scheduler")
  PROVE  KeepUpInv'
<1>1. actor \in [Actors -> ActorType] /\ "scheduler" \in Actors
  BY DEF TypeInv, TypeOK, ActorType, Actors
<1> DEFINE me == actor["scheduler"]
           next == actor'["scheduler"]
<1>2. CASE Evaluate("scheduler") \/ Look("scheduler") \/ List("scheduler")
  <2>1. UNCHANGED <<clock, marked, today, lastSent>> /\ me.pc \notin {"idle", "mark"}
    BY <1>2 DEF Evaluate, Look, List
  <2>2. next.task = me.task /\ next.start = me.start /\ next.pc \notin {"idle", "mark"}
    BY <1>1, <1>2, ReadMoves
  <2> QED BY <2>1, <2>2, QuietKeepUp
<1>3. ASSUME NEW pc \in {"enqueue", "limit", "send", "stamp"}, Goto("scheduler", pc),
             UNCHANGED <<clock, marked, today, lastSent>>, me.pc # "mark"
      PROVE  KeepUpInv'
  <2>1. next.task = me.task /\ next.start = me.start /\ next.pc = pc
    BY <1>1, <1>3 DEF Goto, ActorType
  <2> QED BY <1>3, <2>1, QuietKeepUp
<1>4. CASE Record("scheduler") \/ Accept("scheduler")
  <2>1. /\ UNCHANGED <<clock, marked, today, lastSent>> /\ me.pc # "mark"
        /\ \E pc \in {"enqueue", "limit", "stamp"} : Goto("scheduler", pc)
    BY <1>4 DEF Record, AfterRecord, Accept
  <2> QED BY <1>3, <2>1
<1>5. CASE CheckLimit("scheduler") /\ ~Limited
  BY <1>3, <1>5 DEF CheckLimit
<1>6. CASE CheckLimit("scheduler") /\ Limited
  <2>1. UNCHANGED <<clock, marked>> /\ GoOn("scheduler") /\ me.pc = "limit"
    BY <1>6 DEF CheckLimit, HeldBack
  <2>2. today.chance => Done(First) /\ First \in {"daily", "weekly"}
    BY <1>6, <2>1 DEF KeepUpInv, ChanceInv, First
  <2>3. (Done("daily") => Done("daily")') /\ (Done("weekly") => Done("weekly")')
    BY <2>1 DEF Done
  <2>4. today.chance => (First = "daily" /\ Done("daily")') \/ (First = "weekly" /\ Done("weekly")')
    <3>1. CASE First = "daily"
      BY <2>2, <2>3, <3>1
    <3>2. CASE First = "weekly"
      BY <2>2, <2>3, <3>2
    <3> QED BY <2>2, <3>1, <3>2
  <2> QED BY <2>1, <2>3, <2>4, GoOnKeepUp
<1>7. CASE RecordFails("scheduler") \/ Refuse("scheduler") \/ RecordOfMessageFails("scheduler")
  <2>1. UNCHANGED <<clock, marked>> /\ Disturbed
    BY <1>7 DEF RecordFails, Refuse, RecordOfMessageFails
  <2> QED BY <2>1, DisturbedType, DisturbedKeepUp DEF TypeInv
<1>8. CASE Stamp("scheduler")
  <2>1. UNCHANGED <<clock, marked, today>> /\ me.pc = "stamp" /\ Goto("scheduler", "mark")
    BY <1>8 DEF Stamp, Stamped
  <2>2. next.task = me.task /\ next.start = me.start /\ next.pc = "mark"
    BY <1>1, <2>1 DEF Goto, ActorType
  <2>3. First' = First /\ (Done(First)' <=> Done(First)) /\ GoodInv'
    BY <2>1, SameDay DEF KeepUpInv
  <2> QED BY <2>1, <2>2, <2>3 DEF KeepUpInv, ChanceInv
<1>9. ~Enqueue("scheduler")
  BY DEF Enqueue, TypeInv, ActorInv
<1> QED BY <1>2, <1>4, <1>5, <1>6, <1>7, <1>8, <1>9 DEF Step

\* Time only frees the limit, until midnight.
LEMMA TickKeepUp ==
  ASSUME TypeInv, KeepUpInv, Tick
  PROVE  KeepUpInv'
<1>1. /\ clock' = clock + 1 /\ clock \in Nat /\ UNCHANGED <<marked, actor, lastSent>>
      /\ today' = IF Day(clock + 1) = Day(clock) THEN today ELSE [good |-> 0, chance |-> FALSE]
  BY Numbers DEF Tick
<1>2. CASE Day(clock + 1) = Day(clock)
  <2>1. First' = First /\ (Done(First)' <=> Done(First)) /\ GoodInv'
    BY <1>1, <1>2, SameDay DEF KeepUpInv
  <2>2. ~Limited => ~Limited'
    <3>1. lastSent \in Int /\ Interval \in Nat
      BY ScheduleAssumption DEF TypeInv, TypeOK, Never
    <3> QED BY <1>1, <3>1 DEF Limited
  <2> QED BY <1>1, <1>2, <2>1, <2>2 DEF KeepUpInv, ChanceInv
<1>3. CASE Day(clock + 1) # Day(clock)
  BY <1>1, <1>3 DEF KeepUpInv, GoodInv, ChanceInv
<1> QED BY <1>2, <1>3

\* A cycle that finds the limit free and is not disturbed sends the daily
\* summary, and as many such cycles of a day as there are summaries send the
\* weekly one, for any schedule and any interval (send_due_scheduled_summaries
\* under the limit of send_notification).
THEOREM SummariesAreSent == Spec => []SummariesKeepUp
<1>1. Init => KeepUpInv
  BY DEF Init, KeepUpInv, GoodInv, ChanceInv
<1>2. TypeInv /\ SummaryInv /\ KeepUpInv /\ [Next]_vars => KeepUpInv'
  <2> SUFFICES ASSUME TypeInv, SummaryInv, KeepUpInv, [Next]_vars
               PROVE  KeepUpInv'
    OBVIOUS
  <2>1. CASE UNCHANGED vars \/ NewData
    BY <2>1, QuietKeepUp DEF vars, NewData
  <2>2. CASE Crash
    <3>1. UNCHANGED <<clock, marked>> /\ Disturbed
      BY <2>2 DEF Crash
    <3> QED BY <3>1, DisturbedType, DisturbedKeepUp DEF TypeInv
  <2>3. CASE \E a \in Actors : Step(a)
    BY <2>3, CallKeepUp, SchedulerKeepUp DEF Actors
  <2> QED BY <2>1, <2>2, <2>3, BeginKeepUp, CallKeepUp, MarkKeepUp, TickKeepUp DEF Next
<1>3. TypeInv /\ KeepUpInv => SummariesKeepUp
  <2> SUFFICES ASSUME TypeInv, KeepUpInv PROVE SummariesKeepUp
    OBVIOUS
  <2>1. today.good \in Nat
    BY DEF TypeInv, TypeOK
  <2>2. Done("daily") /\ "daily" \in Enabled => marked["daily"] = Day(clock)
    BY DEF Done, Index
  <2>3. Done("weekly") /\ "weekly" \in Enabled /\ OnWeekday(clock) => marked["weekly"] = Week(clock)
    BY DEF Done, Index
  <2>4. "weekly" \in Enabled /\ "daily" \in Enabled => Cardinality(Enabled) = 2
    <3>1. "weekly" \in Enabled /\ "daily" \in Enabled => Enabled = {"daily"} \cup {"weekly"}
      BY ScheduleAssumption DEF Periods
    <3>2. IsFiniteSet({"daily"}) /\ Cardinality({"daily"}) = 1
      BY FS_Singleton
    <3>3. Cardinality({"daily"} \cup {"weekly"}) = 2
      BY <3>2, FS_AddElement
    <3> QED BY <3>1, <3>3
  <2>5. "weekly" \in Enabled /\ "daily" \notin Enabled => Cardinality(Enabled) = 1
    <3>1. "weekly" \in Enabled /\ "daily" \notin Enabled => Enabled = {"weekly"}
      BY ScheduleAssumption DEF Periods
    <3> QED BY <3>1, FS_Singleton
  <2> QED BY <2>1, <2>2, <2>3, <2>4, <2>5 DEF KeepUpInv, GoodInv, SummariesKeepUp
<1> QED BY <1>1, <1>2, <1>3, InitSummary, NextSummary, InitType, NextType, PTL DEF Spec
=============================================================================

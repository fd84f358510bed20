--------------------------- MODULE TenancyProofs ----------------------------
(***************************************************************************)
(* Proofs about Tenancy, for any organizations, users, subscriptions and   *)
(* plans, and any number of operations.                                    *)
(***************************************************************************)
EXTENDS Tenancy, FiniteSetTheorems, SequenceTheorems, TLAPS

-----------------------------------------------------------------------------
(***************************************************************************)
(* Types                                                                   *)
(***************************************************************************)
Subscription == [status : {"none"} \cup StripeStatuses \cup ProviderStatuses, limit : Plans]
Grant == {NoGrant} \cup [from : Subs, limit : Limits]
StripeEvent == [sub : StripeSubs, kind : {"subscription", "invoice"},
                status : StripeStatuses, limit : Plans]
Accounts == [Users -> {"absent", "inactive", "active"}]
Memberships == [Scopes -> [Orgs -> [Users -> {"none", "inactive", "active"}]]]

BillingType ==
  /\ sub \in [Subs -> Subscription] /\ grant \in [Orgs -> Grant]
  /\ customer \subseteq Orgs /\ late \subseteq StripeSubs
  /\ log \in Seq(StripeEvent) /\ event \in Seq({"none", "applied", "unmatched"})
  /\ Len(event) = Len(log)

PeopleType == account \in Accounts /\ member \in Memberships

TypeInv == BillingType /\ PeopleType /\ operations \in 0..MaxOperations

LEMMA Values ==
  /\ NoSub \in Subscription /\ NoSub.status = "none"
  /\ NoGrant \in Grant /\ NoGrant.from \notin Subs
  /\ NoGrant \notin [from : Subs, limit : Limits]
  /\ Unlimited \in Plans
<1>1. "none" \notin Subs
  BY TenancyAssumption
<1> QED BY <1>1 DEF NoSub, Subscription, Plans, NoGrant, Grant

\* What a plan grants is a grant (ensure_entitlements).
LEMMA EnsuredType ==
  ASSUME BillingType, NEW o \in Orgs, NEW s \in Subs, NEW limit \in Plans
  PROVE  /\ Ensured(o, s, limit) \in [Orgs -> Grant]
         /\ \A p \in Orgs \ {o} : Ensured(o, s, limit)[p] = grant[p]
         /\ Ensured(o, s, limit)[o] =
              IF limit = Unlimited THEN NoGrant ELSE [from |-> s, limit |-> limit]
<1>1. limit # Unlimited => [from |-> s, limit |-> limit] \in Grant
  BY DEF Plans, Grant
<1> QED BY <1>1, Values DEF Ensured, BillingType

LEMMA WithdrawnType ==
  ASSUME BillingType, NEW o \in Orgs, NEW s \in Subs, NEW status
  PROVE  /\ Withdrawn(o, s, status) \in [Orgs -> Grant]
         /\ \A p \in Orgs \ {o} : Withdrawn(o, s, status)[p] = grant[p]
         /\ Withdrawn(o, s, status)[o] =
              IF status \in TerminalStripeStatuses /\ grant[o].from = s THEN NoGrant ELSE grant[o]
BY Values DEF Withdrawn, BillingType

LEMMA OperationType ==
  ASSUME operations \in 0..MaxOperations, Operation
  PROVE  operations' \in 0..MaxOperations
BY TenancyAssumption DEF Operation

\* An entry of the log is an event of a Stripe subscription.
LEMMA EventType ==
  ASSUME BillingType, NEW i \in DOMAIN log
  PROVE  /\ i \in DOMAIN event /\ i \in Nat
         /\ log[i] \in StripeEvent /\ log[i].sub \in StripeSubs /\ log[i].sub \in Subs
         /\ OrgOf[log[i].sub] \in Orgs /\ event[i] \in {"none", "applied", "unmatched"}
<1>1. log[i] \in StripeEvent /\ i \in DOMAIN event /\ i \in Nat
      /\ event[i] \in {"none", "applied", "unmatched"}
  BY DEF BillingType
<1>2. log[i].sub \in StripeSubs
  BY <1>1 DEF StripeEvent
<1> QED BY <1>1, <1>2, TenancyAssumption DEF Subs

\* Stripe's next event is one more entry, and nothing has become of it.
LEMMA Emitted ==
  ASSUME BillingType, NEW e \in StripeEvent, log' = Append(log, e), event' = Append(event, "none")
  PROVE  /\ log' \in Seq(StripeEvent) /\ event' \in Seq({"none", "applied", "unmatched"})
         /\ Len(event') = Len(log')
         /\ DOMAIN log' = DOMAIN log \cup {Len(log) + 1}
         /\ \A j \in DOMAIN log : log'[j] = log[j] /\ event'[j] = event[j]
         /\ event'[Len(log) + 1] = "none"
BY DEF BillingType

LEMMA Marked ==
  ASSUME BillingType, NEW i \in DOMAIN log, NEW mark \in {"applied", "unmatched"},
         event' = [event EXCEPT ![i] = mark]
  PROVE  /\ event' \in Seq({"none", "applied", "unmatched"}) /\ Len(event') = Len(log)
         /\ event'[i] = mark /\ \A j \in DOMAIN log \ {i} : event'[j] = event[j]
BY EventType DEF BillingType

LEMMA BillingStepType ==
  ASSUME TypeInv, BillingStep
  PROVE  TypeInv'
<1>1. ASSUME NEW s \in StripeSubs, NEW kind \in {"subscription", "invoice"},
             NEW status \in StripeStatuses, NEW limit \in Plans, Emit(s, kind, status, limit)
      PROVE  TypeInv'
  <2>1. [sub |-> s, kind |-> kind, status |-> status, limit |-> limit] \in StripeEvent
    BY DEF StripeEvent
  <2>2. /\ log' \in Seq(StripeEvent) /\ event' \in Seq({"none", "applied", "unmatched"})
        /\ Len(event') = Len(log')
    BY <1>1, <2>1, Emitted DEF Emit, TypeInv
  <2>3. operations' \in 0..MaxOperations
    BY <1>1, OperationType DEF Emit, TypeInv
  <2> QED BY <1>1, <2>2, <2>3 DEF Emit, TypeInv, BillingType, PeopleType, people
<1>2. ASSUME NEW i \in DOMAIN log, IgnoreUnmatched(i)
      PROVE  TypeInv'
  <2>1. event' \in Seq({"none", "applied", "unmatched"}) /\ Len(event') = Len(log)
    BY <1>2, Marked DEF IgnoreUnmatched, TypeInv
  <2> QED BY <1>2, <2>1 DEF IgnoreUnmatched, TypeInv, BillingType, PeopleType, people
<1>3. ASSUME NEW i \in DOMAIN log, Apply(i)
      PROVE  TypeInv'
  <2> DEFINE e == log[i]
             s == e.sub
             o == OrgOf[s]
             limit == IF e.kind = "invoice" THEN sub[s].limit ELSE e.limit
  <2>1. /\ e \in StripeEvent /\ s \in StripeSubs /\ s \in Subs /\ o \in Orgs
        /\ e.status \in StripeStatuses /\ e.limit \in Plans
    BY EventType DEF TypeInv, StripeEvent
  <2>2. sub[s].limit \in Plans
    BY <2>1 DEF TypeInv, BillingType, Subscription
  <2>3. limit \in Plans
    BY <2>1, <2>2
  <2>4. /\ sub' = [sub EXCEPT ![s] = [status |-> e.status, limit |-> limit]]
        /\ grant' = IF e.status \in ActiveStatuses THEN Ensured(o, s, limit)
                    ELSE Withdrawn(o, s, e.status)
        /\ customer' = customer \cup {o}
        /\ event' = [event EXCEPT ![i] = "applied"]
        /\ late' = late \/ late' = late \cup {s}
        /\ UNCHANGED <<log, people, operations>>
    BY <1>3 DEF Apply, NewStatus
  <2> HIDE DEF e, s, o, limit
  <2>5. sub' \in [Subs -> Subscription]
    BY <2>1, <2>3, <2>4 DEF TypeInv, BillingType, Subscription
  <2>6. grant' \in [Orgs -> Grant]
    BY <2>1, <2>3, <2>4, EnsuredType, WithdrawnType DEF TypeInv
  <2>7. event' \in Seq({"none", "applied", "unmatched"}) /\ Len(event') = Len(log)
    BY <2>4, Marked DEF TypeInv
  <2> QED BY <2>1, <2>4, <2>5, <2>6, <2>7 DEF TypeInv, BillingType, PeopleType, people
<1>4. ASSUME NEW s \in ProviderSubs, NEW limit \in Plans, Provision(s, limit)
      PROVE  TypeInv'
  <2>1. s \in Subs /\ OrgOf[s] \in Orgs
    BY TenancyAssumption DEF Subs
  <2>2. sub' \in [Subs -> Subscription]
    BY <1>4, <2>1 DEF Provision, TypeInv, BillingType, Subscription, StripeStatuses
  <2>3. grant' \in [Orgs -> Grant]
    BY <1>4, <2>1, EnsuredType DEF Provision, TypeInv
  <2>4. operations' \in 0..MaxOperations
    BY <1>4, OperationType DEF Provision, TypeInv
  <2> QED BY <1>4, <2>2, <2>3, <2>4 DEF Provision, TypeInv, BillingType, PeopleType, people
<1>5. ASSUME NEW s \in ProviderSubs, NEW status \in ProviderStatuses, ReportState(s, status)
      PROVE  TypeInv'
  <2>1. s \in Subs /\ sub[s] \in Subscription
    BY DEF Subs, TypeInv, BillingType
  <2>2. [sub[s] EXCEPT !.status = status] \in Subscription
    BY <2>1 DEF Subscription
  <2>3. sub' \in [Subs -> Subscription]
    BY <1>5, <2>1, <2>2 DEF ReportState, TypeInv, BillingType
  <2>4. operations' \in 0..MaxOperations
    BY <1>5, OperationType DEF ReportState, TypeInv
  <2> QED BY <1>5, <2>3, <2>4 DEF ReportState, TypeInv, BillingType, PeopleType, people
<1> QED BY <1>1, <1>2, <1>3, <1>4, <1>5 DEF BillingStep

\* A step of the people changes neither subscriptions nor grants.
LEMMA PeopleStepType ==
  ASSUME TypeInv, ExternalStep \/ \E o \in Orgs : MemberStep(o)
  PROVE  TypeInv' /\ UNCHANGED billing
<1> USE DEF Scopes, Memberships, Accounts
<1>1. ASSUME NEW o \in Orgs, NEW u \in Users, NEW state \in States, ScimSetActive(o, u, state)
      PROVE  PeopleType' /\ UNCHANGED billing /\ Operation
  BY <1>1 DEF ScimSetActive, TypeInv, PeopleType, States
<1>2. ASSUME NEW o \in Orgs, NEW u \in Users, NEW state \in States, NEW scopes \in SUBSET Scopes,
             ScimWrite(o, u, state, scopes)
      PROVE  PeopleType' /\ UNCHANGED billing /\ Operation
  BY <1>2 DEF ScimWrite, TypeInv, PeopleType, States
<1>3. ASSUME NEW u \in Users, NEW authoritative \in BOOLEAN, NEW named \in SUBSET (Scopes \X Orgs),
             SignIn(u, named, authoritative)
      PROVE  PeopleType' /\ UNCHANGED billing /\ Operation
  BY <1>3 DEF SignIn, TypeInv, PeopleType
<1>4. ASSUME NEW o \in Orgs, NEW c \in Scopes, NEW u \in Users, NEW state \in States, Put(c, o, u, state)
      PROVE  PeopleType' /\ UNCHANGED billing /\ Operation
  BY <1>4 DEF Put, TypeInv, PeopleType, States
<1>5. ASSUME NEW o \in Orgs, NEW c \in Scopes, NEW u \in Users, Invite(c, o, u)
      PROVE  PeopleType' /\ UNCHANGED billing /\ Operation
  BY <1>5 DEF Invite, TypeInv, PeopleType
<1>6. ASSUME NEW o \in Orgs, NEW c \in Scopes, NEW u \in Users, Remove(c, o, u)
      PROVE  PeopleType' /\ UNCHANGED billing /\ Operation
  BY <1>6 DEF Remove, TypeInv, PeopleType
<1>7. PeopleType' /\ UNCHANGED billing /\ Operation
  BY <1>1, <1>2, <1>3, <1>4, <1>5, <1>6 DEF ExternalStep, MemberStep
<1> QED BY <1>7, OperationType DEF TypeInv, BillingType, billing

LEMMA InitType == Init => TypeInv
BY Values, TenancyAssumption DEF Init, TypeInv, BillingType, PeopleType, Accounts, Memberships

LEMMA NextType == TypeInv /\ [Next]_vars => TypeInv'
<1>1. CASE UNCHANGED vars
  BY <1>1 DEF vars, TypeInv, BillingType, PeopleType
<1> QED BY <1>1, BillingStepType, PeopleStepType DEF Next

LEMMA TypeInvMeansTypeOK == TypeInv => TypeOK
BY DEF TypeInv, BillingType, PeopleType, TypeOK, Subscription, Grant, Accounts, Memberships

\* Every variable holds a value of its type, for any number of events and calls.
THEOREM TypeCorrect == Spec => []TypeOK
<1>1. Spec => []TypeInv
  BY InitType, NextType, PTL DEF Spec
<1> QED BY <1>1, TypeInvMeansTypeOK, PTL

-----------------------------------------------------------------------------
(***************************************************************************)
(* What subscriptions grant                                                *)
(***************************************************************************)
\* A grant comes from a subscription of its organization.
GrantsStayAtHome ==
  \A o \in Orgs : grant[o] # NoGrant => OrgOf[grant[o].from] = o

\* A provider's only subscription grants its plan whatever its status is.
OnlyGrantInv ==
  \A o \in Orgs, s \in Subs :
    SubsOf(o) = {s} /\ (s \in ProviderSubs \/ sub[s].status = "active") =>
      grant[o] = IF sub[s].limit = Unlimited THEN NoGrant ELSE [from |-> s, limit |-> sub[s].limit]

GrantInv == GrantsStayAtHome /\ EndedGrantsNothing /\ OnlyGrantInv

\* An update of subscription s that leaves it with a status leaves the sets of
\* subscriptions as they are, but for s.
LEMMA SubsAfter ==
  ASSUME TypeInv, NEW s \in Subs, NEW row \in Subscription, row # NoSub,
         sub' = [sub EXCEPT ![s] = row]
  PROVE  /\ s \in SubsOf(OrgOf[s])' /\ sub'[s] = row
         /\ \A p \in Orgs : p # OrgOf[s] => SubsOf(p)' = SubsOf(p)
         /\ \A q \in Subs \ {s} : sub'[q] = sub[q]
BY DEF SubsOf, TypeInv, BillingType

\* A grant that follows the new state of s keeps the invariant
\* (_set_subscription_entitlements).
LEMMA GrantFollows ==
  ASSUME TypeInv, GrantInv, NEW s \in Subs, NEW row \in Subscription,
         row.status # "none",
         sub' = [sub EXCEPT ![s] = row],
         grant' = IF row.status \in ActiveStatuses THEN Ensured(OrgOf[s], s, row.limit)
                  ELSE Withdrawn(OrgOf[s], s, row.status),
         s \in StripeSubs \/ row.status = "active"
  PROVE  GrantInv'
<1> DEFINE o == OrgOf[s]
<1>1. o \in Orgs /\ row.limit \in Plans /\ row # NoSub
  BY TenancyAssumption, Values DEF Subscription
<1>2. /\ s \in SubsOf(o)' /\ sub'[s] = row
      /\ \A p \in Orgs : p # o => SubsOf(p)' = SubsOf(p)
      /\ \A q \in Subs \ {s} : sub'[q] = sub[q]
  BY <1>1, SubsAfter
<1>3. /\ \A p \in Orgs \ {o} : grant'[p] = grant[p]
      /\ row.status \in ActiveStatuses =>
           grant'[o] = IF row.limit = Unlimited THEN NoGrant ELSE [from |-> s, limit |-> row.limit]
      /\ row.status \notin ActiveStatuses =>
           grant'[o] = IF row.status \in TerminalStripeStatuses /\ grant[o].from = s
                       THEN NoGrant ELSE grant[o]
  BY <1>1, EnsuredType, WithdrawnType DEF TypeInv
<1>4. grant \in [Orgs -> Grant]
  BY DEF TypeInv, BillingType
<1>5. GrantsStayAtHome'
  BY <1>1, <1>3, <1>4 DEF GrantInv, GrantsStayAtHome
<1>6. EndedGrantsNothing'
  <2> SUFFICES ASSUME NEW p \in Orgs, grant'[p].from \in StripeSubs
               PROVE  sub'[grant'[p].from].status \notin TerminalStripeStatuses
    BY DEF EndedGrantsNothing
  <2>1. NoGrant.from \notin StripeSubs
    BY Values DEF Subs
  <2>2. CASE p # o
    <3>1. grant'[p] = grant[p] /\ grant[p] # NoGrant /\ OrgOf[grant[p].from] = p
      BY <1>3, <2>1, <2>2 DEF GrantInv, GrantsStayAtHome
    <3> QED BY <1>2, <2>2, <3>1 DEF GrantInv, EndedGrantsNothing, Subs
  <2>3. CASE p = o
    <3>1. CASE row.status \in ActiveStatuses
      BY <1>2, <1>3, <2>1, <2>3, <3>1 DEF ActiveStatuses, TerminalStripeStatuses
    <3>2. CASE row.status \notin ActiveStatuses
      BY <1>2, <1>3, <2>1, <2>3, <3>2 DEF GrantInv, EndedGrantsNothing, Subs
    <3> QED BY <3>1, <3>2
  <2> QED BY <2>2, <2>3
<1>7. OnlyGrantInv'
  <2> SUFFICES ASSUME NEW p \in Orgs, NEW q \in Subs, SubsOf(p)' = {q},
                      q \in ProviderSubs \/ sub'[q].status = "active"
               PROVE  grant'[p] = IF sub'[q].limit = Unlimited THEN NoGrant
                                  ELSE [from |-> q, limit |-> sub'[q].limit]
    BY DEF OnlyGrantInv
  <2>1. CASE p # o
    <3>1. q \in SubsOf(p)
      BY <1>2, <2>1
    <3>2. q # s
      BY <2>1, <3>1 DEF SubsOf
    <3> QED BY <1>2, <1>3, <2>1, <3>2 DEF GrantInv, OnlyGrantInv
  <2>2. CASE p = o
    <3>1. q = s
      BY <1>2, <2>2
    <3>2. row.status = "active"
      BY <1>2, <3>1, TenancyAssumption
    <3> QED BY <1>2, <1>3, <2>2, <3>1, <3>2 DEF ActiveStatuses
  <2> QED BY <2>1, <2>2
<1> QED BY <1>5, <1>6, <1>7 DEF GrantInv

LEMMA GrantStep ==
  ASSUME TypeInv, GrantInv, BillingStep
  PROVE  GrantInv'
<1> USE DEF GrantInv, GrantsStayAtHome, EndedGrantsNothing, OnlyGrantInv, SubsOf
<1>1. CASE UNCHANGED <<sub, grant>>
  BY <1>1
<1>2. ASSUME NEW i \in DOMAIN log, Apply(i)
      PROVE  GrantInv'
  <2> DEFINE e == log[i]
             s == e.sub
             limit == IF e.kind = "invoice" THEN sub[s].limit ELSE e.limit
             row == [status |-> e.status, limit |-> limit]
  <2>1. /\ e \in StripeEvent /\ s \in StripeSubs /\ s \in Subs
        /\ e.status \in StripeStatuses /\ e.limit \in Plans
    BY EventType DEF TypeInv, StripeEvent
  <2>2. sub[s].limit \in Plans
    BY <2>1 DEF TypeInv, BillingType, Subscription
  <2>3. row \in Subscription /\ row.status = e.status /\ row.limit = limit /\ row.status # "none"
    BY <2>1, <2>2 DEF Subscription, StripeStatuses
  <2>4. /\ sub' = [sub EXCEPT ![s] = row]
        /\ grant' = IF row.status \in ActiveStatuses THEN Ensured(OrgOf[s], s, row.limit)
                    ELSE Withdrawn(OrgOf[s], s, row.status)
    BY <1>2, <2>3 DEF Apply, NewStatus
  <2> HIDE DEF row, s
  <2> QED BY <2>1, <2>3, <2>4, GrantFollows
<1>3. ASSUME NEW s \in ProviderSubs, NEW limit \in Plans, Provision(s, limit)
      PROVE  GrantInv'
  <2> DEFINE row == [status |-> "active", limit |-> limit]
  <2>1. row \in Subscription /\ row.status = "active" /\ row.limit = limit /\ s \in Subs
    BY DEF Subscription, StripeStatuses, Subs
  <2>2. /\ sub' = [sub EXCEPT ![s] = row] /\ row.status \in ActiveStatuses
        /\ grant' = Ensured(OrgOf[s], s, row.limit)
    BY <1>3, <2>1 DEF Provision, ActiveStatuses
  <2> HIDE DEF row
  <2> QED BY <2>1, <2>2, GrantFollows
<1>4. ASSUME NEW s \in ProviderSubs, NEW status \in ProviderStatuses, ReportState(s, status)
      PROVE  GrantInv'
  <2> DEFINE row == [sub[s] EXCEPT !.status = status]
  <2>1. s \in Subs /\ s \notin StripeSubs /\ sub[s] \in Subscription /\ sub[s] # NoSub
    BY <1>4, TenancyAssumption DEF ReportState, Subs, TypeInv, BillingType
  <2>2. row \in Subscription /\ row.status = status /\ row.limit = sub[s].limit /\ row # NoSub
    BY <2>1 DEF Subscription, NoSub, ProviderStatuses
  <2>3. sub' = [sub EXCEPT ![s] = row] /\ grant' = grant
    BY <1>4 DEF ReportState
  <2> HIDE DEF row
  <2>4. /\ s \in SubsOf(OrgOf[s])' /\ sub'[s] = row
        /\ \A p \in Orgs : p # OrgOf[s] => SubsOf(p)' = SubsOf(p)
        /\ \A q \in Subs \ {s} : sub'[q] = sub[q]
    BY <2>1, <2>2, <2>3, SubsAfter
  <2>5. \A p \in Orgs : SubsOf(p)' = SubsOf(p)
    BY <2>1, <2>2, <2>3 DEF TypeInv, BillingType
  <2>6. EndedGrantsNothing'
    BY <2>1, <2>3, <2>4 DEF Subs
  <2>7. OnlyGrantInv'
    <3> SUFFICES ASSUME NEW p \in Orgs, NEW q \in Subs, SubsOf(p)' = {q},
                        q \in ProviderSubs \/ sub'[q].status = "active"
                 PROVE  grant'[p] = IF sub'[q].limit = Unlimited THEN NoGrant
                                    ELSE [from |-> q, limit |-> sub'[q].limit]
      OBVIOUS
    <3>1. sub'[q].limit = sub[q].limit /\ (q # s => sub'[q] = sub[q])
      BY <2>2, <2>4
    <3>2. q \in ProviderSubs \/ sub[q].status = "active"
      BY <3>1
    <3>3. SubsOf(p) = {q}
      BY <2>5
    <3> HIDE DEF SubsOf
    <3> QED BY <2>3, <3>1, <3>2, <3>3
  <2> QED BY <2>3, <2>6, <2>7
<1> QED BY <1>1, <1>2, <1>3, <1>4 DEF BillingStep, Emit, IgnoreUnmatched

LEMMA GrantsStep == TypeInv /\ GrantInv /\ [Next]_vars => GrantInv'
<1> SUFFICES ASSUME TypeInv, GrantInv, [Next]_vars
             PROVE  GrantInv'
  OBVIOUS
<1>1. CASE BillingStep
  BY <1>1, GrantStep
<1>2. CASE UNCHANGED <<sub, grant>>
  BY <1>2 DEF GrantInv, GrantsStayAtHome, EndedGrantsNothing, OnlyGrantInv, SubsOf
<1> QED BY <1>1, <1>2, PeopleStepType DEF Next, vars, billing

LEMMA GrantsHold == Spec => []GrantInv
<1>1. Init => GrantInv
  BY Values DEF Init, GrantInv, GrantsStayAtHome, EndedGrantsNothing, OnlyGrantInv, SubsOf, Subs
<1> QED BY <1>1, InitType, NextType, GrantsStep, PTL DEF Spec

\* What limits an organization was not granted by a Stripe subscription that
\* has ended, in whatever order events arrive (_set_subscription_entitlements).
THEOREM EndedSubscriptions == Spec => []EndedGrantsNothing
BY GrantsHold, PTL DEF GrantInv

\* The only subscription of an organization, if active, grants what its plan
\* says (ensure_entitlements).
THEOREM OnlySubscriptions == Spec => []OnlySubscriptionGrants
<1>1. OnlyGrantInv => OnlySubscriptionGrants
  BY DEF OnlyGrantInv, OnlySubscriptionGrants
<1> QED BY <1>1, GrantsHold, PTL DEF GrantInv

-----------------------------------------------------------------------------
(***************************************************************************)
(* Events that arrive again or late                                        *)
(***************************************************************************)
AppliedOf(s) == { i \in DOMAIN log : log[i].sub = s /\ event[i] = "applied" }

\* The last event of each subscription that was applied exists, and gives its
\* status unless an event was applied after a later one.
RepeatsInv ==
  \A s \in StripeSubs :
    \/ AppliedOf(s) = {} /\ sub[s] = NoSub
    \/ \E n \in AppliedOf(s) :
         /\ \A m \in AppliedOf(s) : m <= n
         /\ s \notin late => sub[s].status = log[n].status

\* The greatest of a set is the one that is not less than any other.
LEMMA MaxIs ==
  ASSUME NEW S, S \subseteq Nat, NEW n \in S, \A m \in S : m <= n
  PROVE  Max(S) = n
<1>1. n \in S /\ \A m \in S : n >= m
  OBVIOUS
<1>2. Max(S) \in S /\ \A m \in S : Max(S) >= m
  BY <1>1 DEF Max
<1>3. Max(S) >= n /\ Max(S) <= n /\ Max(S) \in Nat /\ n \in Nat
  BY <1>2
<1> HIDE DEF Max
<1> QED BY <1>3

LEMMA RepeatsInvMeansHarmless == TypeInv /\ RepeatsInv => RepeatsAreHarmless
<1> SUFFICES ASSUME TypeInv, RepeatsInv, NEW s \in StripeSubs \ late
             PROVE  IF AppliedOf(s) = {} THEN sub[s] = NoSub
                    ELSE sub[s].status = log[Max(AppliedOf(s))].status
  BY DEF RepeatsAreHarmless, AppliedOf
<1>1. AppliedOf(s) \subseteq Nat
  BY EventType DEF TypeInv, AppliedOf
<1>2. CASE AppliedOf(s) = {}
  BY <1>2 DEF RepeatsInv
<1>3. CASE AppliedOf(s) # {}
  <2>1. PICK n \in AppliedOf(s) : (\A m \in AppliedOf(s) : m <= n) /\ sub[s].status = log[n].status
    BY <1>3 DEF RepeatsInv
  <2>2. Max(AppliedOf(s)) = n
    BY <1>1, <2>1, MaxIs
  <2> QED BY <1>3, <2>1, <2>2
<1> QED BY <1>2, <1>3

\* A subscription whose events and state stay as they are keeps its part.
LEMMA RepeatsStay ==
  ASSUME RepeatsInv, NEW s \in StripeSubs, AppliedOf(s)' = AppliedOf(s), sub'[s] = sub[s],
         s \in late => s \in late', \A i \in AppliedOf(s) : log'[i] = log[i]
  PROVE  \/ AppliedOf(s)' = {} /\ sub'[s] = NoSub
         \/ \E n \in AppliedOf(s)' :
              /\ \A m \in AppliedOf(s)' : m <= n
              /\ s \notin late' => sub'[s].status = log'[n].status
BY DEF RepeatsInv

LEMMA RepeatsApply ==
  ASSUME TypeInv, RepeatsInv, NEW i \in DOMAIN log, Apply(i)
  PROVE  RepeatsInv'
<1> DEFINE e == log[i]
           s == e.sub
<1>1. /\ e \in StripeEvent /\ s \in StripeSubs /\ s \in Subs /\ i \in Nat
  BY EventType DEF TypeInv
<1>2. /\ event[i] = "none" /\ log' = log
      /\ event' = [event EXCEPT ![i] = "applied"]
      /\ sub'[s].status = e.status /\ \A q \in Subs \ {s} : sub'[q] = sub[q]
      /\ late \subseteq late'
      /\ s \notin late' => ~\E j \in DOMAIN log : j > i /\ log[j].sub = s /\ event[j] = "applied"
  BY <1>1 DEF Apply, IsNew, NewStatus, TypeInv, BillingType
<1>3. event'[i] = "applied" /\ \A j \in DOMAIN log \ {i} : event'[j] = event[j]
  BY <1>2, Marked DEF TypeInv
<1>4. AppliedOf(s)' = AppliedOf(s) \cup {i}
  BY <1>2, <1>3 DEF AppliedOf
<1>5. \A j \in AppliedOf(s) : j \in Nat
  BY EventType DEF TypeInv, AppliedOf
<1> SUFFICES ASSUME NEW q \in StripeSubs
             PROVE  \/ AppliedOf(q)' = {} /\ sub'[q] = NoSub
                    \/ \E n \in AppliedOf(q)' :
                         /\ \A m \in AppliedOf(q)' : m <= n
                         /\ q \notin late' => sub'[q].status = log'[n].status
  BY DEF RepeatsInv
<1>6. CASE q # s
  <2>1. AppliedOf(q)' = AppliedOf(q)
    BY <1>2, <1>3, <1>6 DEF AppliedOf
  <2>2. sub'[q] = sub[q]
    BY <1>2, <1>6 DEF Subs
  <2> QED BY <1>2, <2>1, <2>2, RepeatsStay
<1>7. CASE q = s /\ \A m \in AppliedOf(s) : m <= i
  BY <1>1, <1>2, <1>4, <1>7
<1>8. CASE q = s /\ \E m \in AppliedOf(s) : ~(m <= i)
  <2>1. PICK n \in AppliedOf(s) : \A m \in AppliedOf(s) : m <= n
    BY <1>8 DEF RepeatsInv
  <2>2. i <= n
    BY <1>1, <1>5, <1>8, <2>1
  <2>3. s \in late'
    BY <1>1, <1>2, <1>5, <1>8 DEF AppliedOf
  <2>4. AppliedOf(q)' = AppliedOf(q) \cup {i}
    BY <1>2, <1>3, <1>8 DEF AppliedOf
  <2>5. n \in AppliedOf(q)' /\ \A m \in AppliedOf(q)' : m <= n
    BY <1>8, <2>1, <2>2, <2>4
  <2>6. q \in late'
    BY <1>8, <2>3
  <2> QED BY <2>5, <2>6
<1> QED BY <1>6, <1>7, <1>8

LEMMA RepeatsStep == TypeInv /\ RepeatsInv /\ [Next]_vars => RepeatsInv'
<1> SUFFICES ASSUME TypeInv, RepeatsInv, [Next]_vars
             PROVE  RepeatsInv'
  OBVIOUS
<1>1. ASSUME late' = late, \A s \in StripeSubs : sub'[s] = sub[s] /\ AppliedOf(s)' = AppliedOf(s),
             \A j \in DOMAIN log : log'[j] = log[j]
      PROVE  RepeatsInv'
  BY <1>1, RepeatsStay DEF RepeatsInv, AppliedOf
<1>2. CASE UNCHANGED <<sub, log, event, late>>
  BY <1>1, <1>2 DEF AppliedOf
<1>3. ASSUME NEW s \in StripeSubs, NEW kind \in {"subscription", "invoice"},
             NEW status \in StripeStatuses, NEW limit \in Plans, Emit(s, kind, status, limit)
      PROVE  RepeatsInv'
  <2>1. [sub |-> s, kind |-> kind, status |-> status, limit |-> limit] \in StripeEvent
    BY DEF StripeEvent
  <2>2. /\ DOMAIN log' = DOMAIN log \cup {Len(log) + 1} /\ Len(log) + 1 \notin DOMAIN log
        /\ \A j \in DOMAIN log : log'[j] = log[j] /\ event'[j] = event[j]
        /\ event'[Len(log) + 1] = "none"
    BY <1>3, <2>1, Emitted DEF Emit, TypeInv, BillingType
  <2>3. \A q \in StripeSubs : AppliedOf(q)' = AppliedOf(q)
    BY <2>2 DEF AppliedOf
  <2> QED BY <1>1, <1>3, <2>2, <2>3 DEF Emit
<1>4. ASSUME NEW i \in DOMAIN log, IgnoreUnmatched(i)
      PROVE  RepeatsInv'
  <2>1. /\ event[i] = "none" /\ log' = log /\ UNCHANGED <<sub, late>>
        /\ event'[i] = "unmatched" /\ \A j \in DOMAIN log \ {i} : event'[j] = event[j]
    BY <1>4, Marked DEF IgnoreUnmatched, IsNew, TypeInv
  <2>2. \A q \in StripeSubs : AppliedOf(q)' = AppliedOf(q)
    BY <2>1 DEF AppliedOf
  <2> QED BY <1>1, <2>1, <2>2
<1>5. ASSUME NEW s \in ProviderSubs,
             \/ \E limit \in Plans : Provision(s, limit)
             \/ \E status \in ProviderStatuses : ReportState(s, status)
      PROVE  RepeatsInv'
  <2>1. UNCHANGED <<log, event, late>> /\ \A q \in Subs \ {s} : sub'[q] = sub[q]
    BY <1>5 DEF Provision, ReportState, TypeInv, BillingType
  <2>2. s \notin StripeSubs
    BY TenancyAssumption
  <2> QED BY <1>1, <2>1, <2>2 DEF AppliedOf, Subs
<1> QED BY <1>2, <1>3, <1>4, <1>5, RepeatsApply, PeopleStepType DEF Next, BillingStep, vars, billing

\* However often events are repeated, a subscription has the status of the last
\* of its events that was applied, unless they overtook each other
\* (apply_stripe_event).
THEOREM Repeats == Spec => []RepeatsAreHarmless
<1>1. Init => RepeatsInv
  BY DEF Init, RepeatsInv, AppliedOf, Subs
<1> QED BY <1>1, InitType, NextType, RepeatsStep, RepeatsInvMeansHarmless, PTL DEF Spec

-----------------------------------------------------------------------------
(***************************************************************************)
(* Seats                                                                   *)
(***************************************************************************)
\* Who has a seat or takes one is at most one more than who has a seat.
LEMMA OneMoreSeat ==
  ASSUME NEW o \in Orgs, NEW u \in Users, Seats(o)' \subseteq Seats(o) \cup {u},
         NEW limit \in Nat, Cardinality(Seats(o)) + 1 <= limit
  PROVE  Cardinality(Seats(o)') <= limit
<1>1. IsFiniteSet(Seats(o))
  BY TenancyAssumption, FS_Subset DEF Seats
<1>2. /\ IsFiniteSet(Seats(o) \cup {u}) /\ Cardinality(Seats(o)) \in Nat
      /\ Cardinality(Seats(o) \cup {u}) <= Cardinality(Seats(o)) + 1
      /\ Cardinality(Seats(o) \cup {u}) \in Nat
  BY <1>1, FS_AddElement, FS_CardinalityType
<1>3. Cardinality(Seats(o)') <= Cardinality(Seats(o) \cup {u}) /\ Cardinality(Seats(o)') \in Nat
  BY <1>2, FS_Subset, FS_CardinalityType
<1> QED BY <1>2, <1>3

\* Between one state and the next, the seats of an organization grow only
\* within its limit (_require_user_seat_capacity).
SeatsKeptBy(o) ==
  Seats(o)' \subseteq Seats(o) \/ grant'[o] = NoGrant \/ Cardinality(Seats(o)') <= grant'[o].limit

LEMMA MemberStepSeats ==
  ASSUME TypeInv, NEW o \in Orgs, MemberStep(o)
  PROVE  SeatsKeptBy(o)
<1> USE DEF Scopes, Memberships, Accounts
<1>1. grant[o] # NoGrant => grant[o].limit \in Nat
  BY TenancyAssumption DEF TypeInv, BillingType, Grant
<1>2. ASSUME NEW u \in Users, Seats(o)' \subseteq Seats(o) \cup {u}, grant' = grant,
             \/ u \in Seats(o) \/ u \notin Seats(o)'
             \/ grant[o] = NoGrant \/ Cardinality(Seats(o)) + 1 <= grant[o].limit
      PROVE  SeatsKeptBy(o)
  BY <1>1, <1>2, OneMoreSeat DEF SeatsKeptBy
<1>3. ASSUME NEW c \in Scopes, NEW u \in Users, NEW state \in States, Put(c, o, u, state)
      PROVE  SeatsKeptBy(o)
  <2>1. Seats(o)' \subseteq Seats(o) \cup {u} /\ grant' = grant
    BY <1>3 DEF Put, Seats, billing, TypeInv, PeopleType
  <2>2. \/ u \in Seats(o) \/ u \notin Seats(o)'
        \/ grant[o] = NoGrant \/ Cardinality(Seats(o)) + 1 <= grant[o].limit
    BY <1>3 DEF Put, Seats, HasCapacity, States, TypeInv, PeopleType
  <2> QED BY <1>2, <2>1, <2>2
<1>4. ASSUME NEW c \in Scopes, NEW u \in Users, Invite(c, o, u)
      PROVE  SeatsKeptBy(o)
  <2>1. Seats(o)' \subseteq Seats(o) \cup {u} /\ grant' = grant
    BY <1>4 DEF Invite, Seats, billing, TypeInv, PeopleType
  <2> QED BY <1>2, <1>4, <2>1 DEF Invite, HasCapacity
<1>5. ASSUME NEW c \in Scopes, NEW u \in Users, Remove(c, o, u)
      PROVE  SeatsKeptBy(o)
  BY <1>5 DEF Remove, Seats, SeatsKeptBy, TypeInv, PeopleType
<1> QED BY <1>3, <1>4, <1>5 DEF MemberStep

\* The seats of an organization grow past its limit only by SCIM, by external
\* sign-in or by what another organization does.
THEOREM SeatsWithinLimit == Spec => SeatsGrowWithinLimit
<1>1. ASSUME TypeInv, [Next]_vars, NEW o \in Orgs
      PROVE  \/ SeatsKeptBy(o) \/ ExternalStep
             \/ \E p \in Orgs \ {o} : MemberStep(p)
  <2>1. CASE BillingStep \/ UNCHANGED vars
    <3>1. UNCHANGED people
      BY <2>1 DEF BillingStep, Emit, IgnoreUnmatched, Apply, Provision, ReportState, vars, people
    <3> QED BY <3>1 DEF people, Seats, SeatsKeptBy
  <2> QED BY <1>1, <2>1, MemberStepSeats DEF Next
<1>2. TypeInv /\ [Next]_vars =>
        [\A o \in Orgs :
           Seats(o)' \subseteq Seats(o) \/ grant'[o] = NoGrant \/ Cardinality(Seats(o)') <= grant'[o].limit
           \/ ExternalStep \/ \E p \in Orgs \ {o} : MemberStep(p)]_vars
  BY <1>1 DEF SeatsKeptBy
<1> QED BY <1>2, InitType, NextType, PTL DEF Spec, SeatsGrowWithinLimit
=============================================================================

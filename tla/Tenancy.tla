------------------------------ MODULE Tenancy ------------------------------
(***************************************************************************)
(* Billing and seats of the organizations on one DMARQ installation.       *)
(* Stripe and hosting providers report what becomes of subscriptions;      *)
(* Stripe's events arrive late, in another order, or again.  Subscriptions *)
(* grant entitlements, of which the model keeps the number of users.  The  *)
(* membership endpoints, SCIM clients and external sign-ins give and take  *)
(* seats under that number, or past it.                                    *)
(*                                                                         *)
(* Every handler runs on one event loop without awaiting anything between  *)
(* its first read and its commit, so it is one step.                       *)
(***************************************************************************)
EXTENDS Naturals, FiniteSets, FiniteSetsExt, Sequences

CONSTANTS
  Orgs,          \* organizations, with one workspace each
  Users,         \* people
  StripeSubs,    \* subscriptions billed by Stripe
  ProviderSubs,  \* subscriptions billed by a hosting provider
  OrgOf,         \* [StripeSubs \cup ProviderSubs -> Orgs]
  Limits,        \* the numbers of users that plans include
  MaxOperations  \* bound on events, provider calls and membership calls

Subs == StripeSubs \cup ProviderSubs

ASSUME TenancyAssumption ==
  /\ IsFiniteSet(Users) /\ StripeSubs \cap ProviderSubs = {} /\ "none" \notin Subs
  /\ OrgOf \in [Subs -> Orgs]
  /\ Limits \subseteq Nat /\ MaxOperations \in Nat

VARIABLES
  sub,         \* [Subs -> the row of subscriptions, or NoSub]
  grant,       \* [Orgs -> the active entitlement "users", or NoGrant]
  customer,    \* the organizations with a stripe_customer_id
  log,         \* the events Stripe has sent, oldest first
  event,       \* [index in log -> status of its row in billing_events, or "none"]
  account,     \* [Users -> the user's row: "absent", "inactive", "active"]
  member,      \* [Scopes -> [Orgs -> [Users -> "none", "inactive" or "active"]]]
  operations,  \* counts what MaxOperations bounds
  late         \* history: Stripe subscriptions of which an event was applied
               \* after a later one

vars == <<sub, grant, customer, log, event, account, member, operations, late>>

billing == <<sub, grant, customer, log, event, late>>
people == <<account, member>>

\* "trialing" is treated as "active", "incomplete_expired" as "unpaid".
StripeStatuses == {"active", "past_due", "unpaid", "canceled"}
ProviderStatuses == {"active", "past_due_provider_reported", "suspended", "canceled", "terminated"}

ActiveStatuses == {"active"}
TerminalStripeStatuses == {"canceled", "unpaid"}
WritableStatuses == {"active", "past_due_provider_reported"}
ReadOnlyStatuses == {"suspended", "canceled", "terminated"}

\* A plan that does not say how many users it includes.
Unlimited == 0
Plans == Limits \cup {Unlimited}

NoSub == [status |-> "none", limit |-> Unlimited]
NoGrant == [from |-> "none", limit |-> Unlimited]

\* workspace_memberships and organization_memberships
Scopes == {"workspace", "organization"}

SubsOf(o) == { s \in Subs : OrgOf[s] = o /\ sub[s] # NoSub }

Init ==
  /\ sub = [s \in Subs |-> NoSub]
  /\ grant = [o \in Orgs |-> NoGrant]
  /\ customer = {} /\ log = <<>> /\ event = <<>> /\ late = {}
  /\ account \in [Users -> {"absent", "inactive", "active"}]
  /\ member = [c \in Scopes |-> [o \in Orgs |-> [u \in Users |-> "none"]]]
  /\ operations = 0

Operation == operations < MaxOperations /\ operations' = operations + 1

-----------------------------------------------------------------------------
\* ensure_entitlements: the organization's entitlement is the subscription's
\* now, whoever granted it before; one the plan does not have is deactivated.
Ensured(o, s, limit) ==
  [grant EXCEPT ![o] = IF limit = Unlimited THEN NoGrant ELSE [from |-> s, limit |-> limit]]

\* MUTANT: only a cancellation withdraws what a subscription granted.
WithdrawnBug(o, s, status) ==
  IF status = "canceled" /\ grant[o].from = s THEN [grant EXCEPT ![o] = NoGrant] ELSE grant

\* A terminal status deactivates what the subscription granted last.
Withdrawn(o, s, status) ==
  IF status \in TerminalStripeStatuses /\ grant[o].from = s
  THEN [grant EXCEPT ![o] = NoGrant] ELSE grant

\* Stripe sends an event.  Those of a subscription carry its organization and
\* plan (as checkout.session.completed does), those of an invoice neither.
\* A canceled subscription has no further ones.
Emit(s, kind, status, limit) ==
  LET before == { i \in DOMAIN log : log[i].sub = s } IN
  /\ Operation
  /\ \A i \in before : log[i].status # "canceled"
  /\ kind = "invoice" => before # {} /\ status \in {"active", "past_due"} /\ limit = Unlimited
  /\ log' = Append(log, [sub |-> s, kind |-> kind, status |-> status, limit |-> limit])
  /\ event' = Append(event, "none")
  /\ UNCHANGED <<sub, grant, customer, late, people>>

\* MUTANT: an event that was recorded is applied again.
IsNewBug(i) == i \in DOMAIN log

\* apply_stripe_event ignores an event whose id it has recorded.
IsNew(i) == i \in DOMAIN log /\ event[i] = "none"

\* MUTANT: an invoice stores what happened to it.
NewStatusBug(e) == IF e.kind = "invoice" /\ e.status = "active" THEN "paid" ELSE e.status

\* The status an event gives its subscription: that of the object, or the
\* override for an invoice.
NewStatus(e) == e.status

\* apply_stripe_event for an invoice of a customer nobody knows yet
IgnoreUnmatched(i) ==
  /\ IsNew(i) /\ log[i].kind = "invoice" /\ OrgOf[log[i].sub] \notin customer
  /\ event' = [event EXCEPT ![i] = "unmatched"]
  /\ UNCHANGED <<sub, grant, customer, log, late, people, operations>>

\* apply_stripe_event and _upsert_stripe_subscription.  An invoice of a
\* subscription that is not known raises an error, and nothing is recorded.
Apply(i) ==
  LET e == log[i]  s == e.sub  o == OrgOf[s]
      limit == IF e.kind = "invoice" THEN sub[s].limit ELSE e.limit IN
  /\ IsNew(i)
  /\ e.kind = "invoice" => o \in customer /\ sub[s] # NoSub
  /\ sub' = [sub EXCEPT ![s] = [status |-> NewStatus(e), limit |-> limit]]
  /\ grant' = IF e.status \in ActiveStatuses THEN Ensured(o, s, limit) ELSE Withdrawn(o, s, e.status)
  /\ customer' = customer \cup {o}
  /\ event' = [event EXCEPT ![i] = "applied"]
  /\ late' = IF event[i] = "none" /\ \E j \in DOMAIN log : j > i /\ log[j].sub = s /\ event[j] = "applied"
             THEN late \cup {s} ELSE late
  /\ UNCHANGED <<log, people, operations>>

\* provision_provider_customer, called with a new event id; a repeated call
\* with the same id changes nothing.
Provision(s, limit) ==
  /\ Operation
  /\ sub' = [sub EXCEPT ![s] = [status |-> "active", limit |-> limit]]
  /\ grant' = Ensured(OrgOf[s], s, limit)
  /\ UNCHANGED <<customer, log, event, late, people>>

\* update_external_subscription_state: entitlements stay as they are.
ReportState(s, status) ==
  /\ Operation /\ sub[s] # NoSub
  /\ sub' = [sub EXCEPT ![s].status = status]
  /\ UNCHANGED <<grant, customer, log, event, late, people>>

-----------------------------------------------------------------------------
\* _active_user_ids_for_organization
Seats(o) == { u \in Users : account[u] = "active" /\ \E c \in Scopes : member[c][o][u] = "active" }

\* require_workspace_account_mutation_allowed looks at the best subscription.
ReadOnly(o) ==
  LET statuses == { sub[s].status : s \in SubsOf(o) } IN
  statuses \cap WritableStatuses = {} /\ statuses \cap ReadOnlyStatuses # {}

\* MUTANT: a user who is not active needs no seat, also when activated.
HasCapacityBug(o, u, activate) ==
  \/ account[u] # "active"
  \/ u \in Seats(o)
  \/ grant[o] = NoGrant \/ Cardinality(Seats(o)) + 1 <= grant[o].limit

\* _require_user_seat_capacity for a membership that is to be active
HasCapacity(o, u, activate) ==
  \/ ~activate /\ account[u] # "active"
  \/ u \in Seats(o)
  \/ grant[o] = NoGrant \/ Cardinality(Seats(o)) + 1 <= grant[o].limit

\* Only the endpoints of workspaces look at the state of the account.
Allowed(c, o) == c = "workspace" => ~ReadOnly(o)

\* upsert_workspace_membership, upsert_organization_membership
Put(c, o, u, state) ==
  /\ Operation /\ Allowed(c, o) /\ account[u] # "absent"
  /\ state = "active" => HasCapacity(o, u, FALSE)
  /\ member' = [member EXCEPT ![c][o][u] = state]
  /\ UNCHANGED <<billing, account>>

\* invite_workspace_member, invite_organization_member: the user is active
\* from now on, wherever else there is a membership for them.
Invite(c, o, u) ==
  /\ Operation /\ Allowed(c, o)
  /\ HasCapacity(o, u, TRUE)
  /\ account' = [account EXCEPT ![u] = "active"]
  /\ member' = [member EXCEPT ![c][o][u] = "active"]
  /\ UNCHANGED billing

\* deactivate_workspace_membership, deactivate_organization_membership
Remove(c, o, u) ==
  /\ Operation /\ Allowed(c, o) /\ member[c][o][u] # "none"
  /\ member' = [member EXCEPT ![c][o][u] = "inactive"]
  /\ UNCHANGED <<billing, account>>

\* create_scim_user and replace_scim_user: users of other workspaces are not
\* found, and their address is taken.  The groups may name an organization role.
ScimWrite(o, u, state, scopes) ==
  /\ Operation /\ "workspace" \in scopes
  /\ account[u] = "absent" \/ member["workspace"][o][u] # "none"
  /\ account' = [account EXCEPT ![u] = IF @ = "absent" THEN "active" ELSE @]
  /\ member' = [c \in Scopes |-> IF c \in scopes THEN [member[c] EXCEPT ![o][u] = state] ELSE member[c]]
  /\ UNCHANGED billing

\* patch_scim_user and deactivate_scim_user
ScimSetActive(o, u, state) ==
  /\ Operation /\ member["workspace"][o][u] # "none"
  /\ member' = [c \in Scopes |-> IF member[c][o][u] = "none" THEN member[c]
                                 ELSE [member[c] EXCEPT ![o][u] = state]]
  /\ UNCHANGED <<billing, account>>

\* sync_external_user: the identity provider names the memberships; one that
\* is authoritative takes away all others.
SignIn(u, named, authoritative) ==
  /\ Operation
  /\ account' = [account EXCEPT ![u] = IF @ = "absent" THEN "active" ELSE @]
  /\ member' = [c \in Scopes |-> [o \in Orgs |-> [member[c][o] EXCEPT ![u] =
                  IF <<c, o>> \in named THEN "active"
                  ELSE IF authoritative /\ @ # "none" THEN "inactive" ELSE @]]]
  /\ UNCHANGED billing

BillingStep ==
  \/ \E s \in StripeSubs, kind \in {"subscription", "invoice"}, status \in StripeStatuses, limit \in Plans :
       Emit(s, kind, status, limit)
  \/ \E i \in DOMAIN log : IgnoreUnmatched(i) \/ Apply(i)
  \/ \E s \in ProviderSubs : \/ \E limit \in Plans : Provision(s, limit)
                             \/ \E status \in ProviderStatuses : ReportState(s, status)

States == {"active", "inactive"}

\* SCIM clients and identity providers give seats without asking for capacity.
ExternalStep ==
  \/ \E o \in Orgs, u \in Users, state \in States : ScimSetActive(o, u, state)
  \/ \E o \in Orgs, u \in Users, state \in States, scopes \in SUBSET Scopes : ScimWrite(o, u, state, scopes)
  \/ \E u \in Users, authoritative \in BOOLEAN, named \in SUBSET (Scopes \X Orgs) :
       SignIn(u, named, authoritative)

MemberStep(o) ==
  \E c \in Scopes, u \in Users :
    \/ \E state \in States : Put(c, o, u, state)
    \/ Invite(c, o, u) \/ Remove(c, o, u)

Next == BillingStep \/ ExternalStep \/ \E o \in Orgs : MemberStep(o)

Spec == Init /\ [][Next]_vars

-----------------------------------------------------------------------------
\* Every variable holds a value of its type.
TypeOK ==
  /\ sub \in [Subs -> [status : {"none"} \cup StripeStatuses \cup ProviderStatuses, limit : Plans]]
  /\ \A o \in Orgs : grant[o] = NoGrant \/ grant[o] \in [from : Subs, limit : Limits]
  /\ customer \subseteq Orgs /\ late \subseteq StripeSubs
  /\ DOMAIN event = DOMAIN log
  /\ account \in [Users -> {"absent", "inactive", "active"}]
  /\ member \in [Scopes -> [Orgs -> [Users -> {"none", "inactive", "active"}]]]
  /\ operations \in 0..MaxOperations

\* However often Stripe repeats its events, the status of a subscription is
\* that of its last event applied, unless events overtook each other
\* (apply_stripe_event; nothing but the id tells an old event from a new one).
RepeatsAreHarmless ==
  \A s \in StripeSubs \ late :
    LET applied == { i \in DOMAIN log : log[i].sub = s /\ event[i] = "applied" } IN
    IF applied = {} THEN sub[s] = NoSub ELSE sub[s].status = log[Max(applied)].status

\* What limits an organization was not granted by a Stripe subscription whose
\* row says that it has ended, also after plans changed and subscriptions
\* followed each other (_set_subscription_entitlements).  A late event makes
\* the row of a canceled subscription active again, and it grants again.
EndedGrantsNothing ==
  \A o \in Orgs :
    grant[o].from \in StripeSubs => sub[grant[o].from].status \notin TerminalStripeStatuses

\* An organization with a single subscription that is active has what the plan
\* of that subscription grants, also after an end, a new plan, a payment that
\* failed or a suspension by the provider (ensure_entitlements).
OnlySubscriptionGrants ==
  \A o \in Orgs, s \in Subs :
    SubsOf(o) = {s} /\ sub[s].status = "active" =>
      grant[o] = IF sub[s].limit = Unlimited THEN NoGrant ELSE [from |-> s, limit |-> sub[s].limit]

\* The seats of an organization grow past its limit only by SCIM and external
\* sign-in, or when another organization activates a user who is a member here
\* already: its own membership calls never exceed it, in whichever of the two
\* ways users are members and however they became it
\* (_require_user_seat_capacity, _active_user_ids_for_organization).
SeatsGrowWithinLimit ==
  [][\A o \in Orgs :
       Seats(o)' \subseteq Seats(o) \/ grant'[o] = NoGrant \/ Cardinality(Seats(o)') <= grant'[o].limit
       \/ ExternalStep \/ \E p \in Orgs \ {o} : MemberStep(p)]_vars
=============================================================================

----------------------------- MODULE DnsChange ------------------------------
(***************************************************************************)
(* How a reviewed DNS change gets into a zone.  DMARQ derives a change     *)
(* plan for a record (here the DMARC record of one domain) from the DNS    *)
(* evidence it holds; an operator previews the plan against the provider,  *)
(* confirms it with what the preview showed, and the handler lists the     *)
(* records once more, compares, writes, reads back, and records the change *)
(* in the audit log.  The zone belongs to the provider: its other users    *)
(* change it as they like, between any two calls of a handler, and several *)
(* requests run at the same time.  A change of type (an alias replaced by  *)
(* a local record) is also looked up at public resolvers, which lag.       *)
(***************************************************************************)
EXTENDS Naturals, FiniteSets

CONSTANTS
  Connectors,   \* the kinds of provider connection to consider
  TxtValues,    \* the contents a TXT record may have
  Enrol,        \* [TxtValues -> TxtValues], the report mailbox added to a content
  Starter,      \* the content proposed where there is no record ...
  Inherited,    \* ... and the content found behind the alias
  Target,       \* the content of the alias
  Requests,     \* the requests clients make, each once
  Resolvers,    \* the public resolvers asked about a change of type
  MaxIds,       \* bound on the record ids the provider gives out
  MaxEdits, MaxFaults   \* bounds on foreign edits, and on errors and crashes

AllConnectors == {"cloudflare", "route53", "hetzner", "lexicon"}

ASSUME ChangeAssumption ==
  /\ Connectors \subseteq AllConnectors /\ Connectors # {}
  /\ Enrol \in [TxtValues -> TxtValues] /\ {Starter, Inherited} \subseteq TxtValues
  /\ \A v \in TxtValues : Enrol[Enrol[v]] = Enrol[v]
  /\ Target \notin TxtValues
  /\ IsFiniteSet(Requests) /\ IsFiniteSet(Resolvers) /\ "none" \notin Requests
  /\ MaxIds \in Nat \ {0} /\ {MaxEdits, MaxFaults} \subseteq Nat

VARIABLES
  connector, \* the connector in use
  zone,      \* the provider's records at the name
  nextId,    \* the next record id the provider gives out
  evidence,  \* what DMARQ last resolved for the name
  owned,     \* the ownership of the domain is proved
  public,    \* [Resolvers -> the records each resolver answers with]
  snaps,     \* the records the change history has as present, and as removed;
             \* history: a listing was out of order, or torn
  req,       \* [Requests -> the state of each request]
  edits, faults  \* history: how many there were

vars == <<connector, zone, nextId, evidence, owned, public, snaps, req, edits, faults>>

None == "none"
Contents == TxtValues \cup {Target}
Record == [id : 1..MaxIds, type : {"TXT", "CNAME"}, value : Contents]
Answer == [type : {"TXT", "CNAME"}, value : Contents]

Txt(z) == { r \in z : r.type = "TXT" }
ValuesOf(z) == { r.value : r \in z }
Published(z) == { [type |-> r.type, value |-> r.value] : r \in z }

\* What a provider accepts: an alias stands alone, and no record comes twice.
Acceptable(z) ==
  /\ \A r, s \in z : r # s => r.type = "TXT" /\ s.type = "TXT" /\ r.value # s.value

NoPlan == [from |-> None, current |-> {}, value |-> None]
NoMutation == [plan |-> NoPlan, op |-> None, from |-> None, current |-> {}, value |-> None, id |-> 0]

\* kind, expect: what the client asked for.  plan, m: the plan and the change
\* prepared.  readback: the records read after the write.  checks: the answers
\* of the resolvers so far.  verified, outcome: what the client is told.
\* first: the records when the listing under way began.  stale: the zone has
\* changed while it was read, or one taken later has been processed.  twice:
\* the keys that came on two pages.
\* History: lost, the contents the write removed; raced, others wrote after
\* the request began to list the records; earlier, the requests that had listed
\* the zone before and were still to process it; shown, the resolvers that have
\* answered with the new record since it was written; wrote, the write took effect.
NewRequest ==
  [at |-> "new", kind |-> None, expect |-> NoMutation, plan |-> NoPlan, m |-> NoMutation,
   first |-> {}, stale |-> FALSE, readback |-> {}, twice |-> {},
   checks |-> [x \in Resolvers |-> "asked"], verified |-> FALSE,
   outcome |-> None, earlier |-> {}, lost |-> {}, raced |-> FALSE, shown |-> {}, wrote |-> FALSE]

-----------------------------------------------------------------------------
\* _dmarc_findings: the change of the DMARC record the evidence calls for, if
\* any; build_dns_change_plans makes it a plan.
PlansFor(e) ==
  CASE e = {} -> {[from |-> "TXT", current |-> {}, value |-> Starter]}
    [] Cardinality(e) = 1 /\ \E a \in e : a.type = "CNAME" ->
         {[from |-> "CNAME", current |-> ValuesOf(e), value |-> Enrol[Inherited]]}
    [] Cardinality(e) = 1 /\ \E a \in e : a.type = "TXT" /\ Enrol[a.value] # a.value ->
         { [from |-> "TXT", current |-> {a.value}, value |-> Enrol[a.value]] : a \in e }
    [] OTHER -> {}

Replaces(plan) == plan.from # "TXT"

\* The records prepare_mutation looks at: the generic connector lists one type,
\* the others all of the name, and only a replacement considers every type.
Matches(plan, z) ==
  IF connector = "lexicon" THEN { r \in z : r.type = plan.from }
  ELSE IF Replaces(plan) THEN z ELSE Txt(z)

\* _baseline_block_reason
BaselineDiffers(plan, matches) ==
  Replaces(plan) /\ ~(Cardinality(matches) = 1 /\ \A r \in matches : r.type = plan.from
                                             /\ ValuesOf(matches) = plan.current)

\* MUTANT: records are known by their content.
KeyOfBug(r) == <<r.type, r.value>>

\* The history keeps one row per record id.
KeyOf(r) == r.id
Keys(records) == { KeyOf(r) : r \in records }

\* MUTANT: several matching records do not block the change.
BlockedBug(plan, l) ==
  \/ BaselineDiffers(plan, Matches(plan, l.records))
  \/ Replaces(plan) /\ connector # "cloudflare"
  \/ ~Replaces(plan) /\ connector # "lexicon" /\ l.records # Matches(plan, l.records)

\* Why prepare_mutation marks a change as not applicable, given a listing.
Blocked(plan, l) ==
  LET matches == Matches(plan, l.records) IN
  \/ BaselineDiffers(plan, matches)
  \/ Replaces(plan) /\ connector # "cloudflare"
  \/ ~Replaces(plan) /\ connector # "lexicon" /\ l.records # matches
  \/ Cardinality(matches) > 1 \/ \E r \in matches : KeyOf(r) \in l.twice

\* The operation is chosen from what the provider lists, not from the plan.
Operation(plan, current) ==
  IF current = {} THEN "create"
  ELSE IF ~Replaces(plan) /\ current = {plan.value} THEN "noop" ELSE "update"

\* prepare_mutation.  Record ids tell records apart only where the connector
\* writes by id.
Prepared(plan, z) ==
  LET matches == Matches(plan, z) IN
  [plan |-> plan, op |-> Operation(plan, ValuesOf(matches)),
   from |-> IF matches = {} THEN plan.from ELSE (CHOOSE r \in matches : TRUE).type,
   current |-> ValuesOf(matches), value |-> plan.value,
   id |-> IF matches # {} /\ connector \in {"cloudflare", "lexicon"}
          THEN (CHOOSE r \in matches : TRUE).id ELSE 0]

\* MUTANT: the values of the preview are not compared.
AsReviewedBug(m, expect) ==
  expect # NoMutation => m.from = expect.from /\ m.value = expect.value

\* apply_dns_write: what is prepared now is what the preview showed.
AsReviewed(m, expect) ==
  expect # NoMutation =>
    /\ m.from = expect.from
    /\ m.current = expect.current
    /\ m.value = expect.value
    /\ expect.id # 0 => m.id = expect.id

\* Route 53 is told to UPSERT the record set ...
Upserts == connector = "route53"

\* ... Hetzner to set the records of one that exists, and else to add to it ...
SetsRecords(m) == connector = "hetzner" /\ m.op = "update"

\* ... and the others to create a record or to update one by its id.
AfterWrite(m, z) ==
  LET new == [id |-> nextId, type |-> "TXT", value |-> m.value] IN
  CASE Upserts \/ SetsRecords(m) ->
         (z \ Txt(z)) \cup {IF Txt(z) = {} THEN new
                            ELSE [new EXCEPT !.id = (CHOOSE r \in Txt(z) : TRUE).id]}
    [] m.op = "create" -> z \cup {new}
    [] OTHER -> { IF r.id = m.id THEN [new EXCEPT !.id = m.id] ELSE r : r \in z }

\* A record id is given out once.
NextIdAfter(z) == IF \E r \in z : r.id = nextId THEN nextId + 1 ELSE nextId

CanWrite(m, z) ==
  /\ connector \in {"cloudflare", "lexicon"} /\ m.op = "update" => \E r \in z : r.id = m.id
  /\ Acceptable(AfterWrite(m, z))

\* _verification_from_records
Verified(m, records) ==
  /\ m.value \in ValuesOf(Txt(records))
  /\ m.from # "TXT" => \A r \in records : r.type # m.from

\* MUTANT: nothing keeps a record from having two rows.
ReturnsBug(keys) == FALSE

\* The history never revives the row of a removed one: a second row is refused.
Returns(keys) == keys \cap snaps.removed # {}

Serves(x, value) == [type |-> "TXT", value |-> value] \in public[x]

\* The zone is changed by request r, or by others (r = None): the pages still
\* to be read shift, and what was listed before a write is not there any more.
ZoneChanged(reqs, r) ==
  [q \in Requests |-> IF q = r THEN reqs[q]
                      ELSE IF reqs[q].at = "paging" THEN [reqs[q] EXCEPT !.stale = TRUE]
                      ELSE IF reqs[q].at = "write" THEN [reqs[q] EXCEPT !.raced = TRUE]
                      ELSE reqs[q]]

\* What a request has read of the zone.  Cloudflare is read page by page: of
\* a zone that changes meanwhile some records are missed, and some come twice.
\* The records of the name are on two pages at most.
Listings(r) ==
  IF ~req[r].stale THEN {[records |-> zone, twice |-> {}]}
  ELSE { [records |-> p[1] \cup p[2], twice |-> Keys(p[1]) \cap Keys(p[2])] :
           p \in (SUBSET req[r].first) \X SUBSET zone }

-----------------------------------------------------------------------------
Init ==
  /\ connector \in Connectors
  /\ zone \in {{}} \cup { {[id |-> 1, type |-> "TXT", value |-> v]} : v \in TxtValues }
              \cup {{[id |-> 1, type |-> "CNAME", value |-> Target]}}
  /\ nextId = 1 + Cardinality(zone)
  /\ evidence = Published(zone)
  /\ owned \in BOOLEAN
  /\ public = [x \in Resolvers |-> Published(zone)]
  /\ snaps = [active |-> {}, removed |-> {}, disorder |-> FALSE]
  /\ req = [r \in Requests |-> NewRequest]
  /\ edits = 0 /\ faults = 0

\* What operators have seen a preview of, and may confirm.
Previews == { req[p].m : p \in { q \in Requests : req[q].outcome = "previewed" } }

\* A request that has ended keeps what a client or the audit log has of it;
\* one that came to nothing leaves neither evidence nor change.
Finish(r, outcome) ==
  [req EXCEPT ![r] =
     IF outcome \in {"previewed", "recorded"}
     THEN [@ EXCEPT !.at = "done", !.outcome = outcome, !.kind = None, !.expect = NoMutation,
                    !.plan = NoPlan, !.first = {}, !.stale = FALSE, !.readback = {},
                    !.twice = {}, !.earlier = {}, !.checks = NewRequest.checks]
     ELSE [NewRequest EXCEPT !.at = "done", !.outcome = outcome]]

\* The first half of apply_domain_dns_change_plan: the plan is derived from
\* the evidence held, which the request may have had refreshed.  A request for
\* a plan that is gone or has changed since its preview, or that may not be
\* applied, ends here and leaves nothing.
Plan(r, kind, expect) ==
  /\ req[r].at = "new"
  /\ \E plan \in PlansFor(evidence) :
       /\ kind = "preview" => expect = NoMutation
       /\ kind = "apply" =>
            /\ owned
            /\ expect # NoMutation => expect.plan = plan
            /\ Replaces(plan) => expect # NoMutation
       /\ req' = [req EXCEPT ![r] = [@ EXCEPT !.at = "list", !.kind = kind,
                                              !.expect = expect, !.plan = plan]]
  /\ UNCHANGED <<connector, zone, nextId, evidence, owned, public, snaps, edits, faults>>

\* Cloudflare: the first of the requests a listing takes; GET
\* .../dns/cloudflare lists the zone without a plan.
BeginListing(r) ==
  /\ connector = "cloudflare" /\ req[r].at \in {"new", "list", "readback"}
  /\ req' = [req EXCEPT ![r].at = "paging", ![r].first = zone,
                        ![r].kind = IF req[r].at = "new" THEN "analyse" ELSE @]
  /\ UNCHANGED <<connector, zone, nextId, evidence, owned, public, snaps, edits, faults>>

\* The records have been listed for prepare_mutation.
Listed(r, kind) ==
  /\ req[r].at = IF connector = "cloudflare" THEN "paging" ELSE "list"
  /\ req[r].kind = kind /\ ~req[r].wrote

\* preview_dns_write: the provider is read, nothing is written.
Preview(r) ==
  /\ Listed(r, "preview")
  /\ \E l \in Listings(r) :
       req' = IF Blocked(req[r].plan, l) THEN Finish(r, "refused")
              ELSE [Finish(r, "previewed") EXCEPT ![r].m = Prepared(req[r].plan, l.records)]
  /\ UNCHANGED <<connector, zone, nextId, evidence, owned, public, snaps, edits, faults>>

\* apply_dns_write lists the records again and compares.
PrepareWrite(r) ==
  /\ Listed(r, "apply")
  /\ \E l \in Listings(r) :
       LET m == Prepared(req[r].plan, l.records) IN
       req' = IF Blocked(req[r].plan, l) \/ ~AsReviewed(m, req[r].expect)
              THEN Finish(r, "refused")
              ELSE IF m.op = "noop"
              THEN [Finish(r, "recorded") EXCEPT ![r].m = m, ![r].verified = TRUE]
              ELSE [req EXCEPT ![r] = [@ EXCEPT !.at = "write", !.m = m, !.first = {},
                                                !.stale = FALSE, !.raced = req[r].stale]]
  /\ UNCHANGED <<connector, zone, nextId, evidence, owned, public, snaps, edits, faults>>

\* The provider carries out the write of apply_mutation.
Write(r) ==
  LET after == AfterWrite(req[r].m, zone) IN
  /\ req[r].at = "write" /\ \A a \in after : a.id <= MaxIds
  /\ IF CanWrite(req[r].m, zone)
     THEN /\ zone' = after
          /\ nextId' = NextIdAfter(after)
          /\ req' = [ZoneChanged(req, r) EXCEPT ![r] =
                       [@ EXCEPT !.at = "readback", !.wrote = TRUE,
                                 !.lost = ValuesOf(zone) \ ValuesOf(after),
                                 !.shown = { x \in Resolvers : Serves(x, req[r].m.value) }]]
     ELSE req' = Finish(r, "failed") /\ UNCHANGED <<zone, nextId>>
  /\ UNCHANGED <<connector, evidence, owned, public, snaps, edits, faults>>

\* _verify_public_record_type_replacement leaves everything but a change of
\* type to the readback; the change is recorded in the audit log, together
\* with its rollback evidence, without giving way to another request.
Concluded(r, records) ==
  IF Verified(req[r].m, records) /\ Replaces(req[r].plan)
  THEN [req EXCEPT ![r] = [@ EXCEPT !.at = "resolve", !.readback = records,
                                    !.stale = FALSE, !.twice = {}, !.earlier = {}]]
  ELSE [Finish(r, "recorded") EXCEPT ![r].verified = Verified(req[r].m, records)]

\* Route 53, Hetzner and the generic connector: the readback ends the request.
ReadBack(r) ==
  /\ req[r].at = "readback" /\ connector # "cloudflare"
  /\ req' = Concluded(r, Txt(zone))
  /\ UNCHANGED <<connector, zone, nextId, evidence, owned, public, snaps, edits, faults>>

\* Cloudflare: the last page has come, after a write or for an analysis.
List(r) ==
  /\ req[r].at = "paging" /\ (req[r].wrote \/ req[r].kind = "analyse")
  /\ \E l \in Listings(r) :
       req' = [req EXCEPT ![r] = [@ EXCEPT !.at = "sync", !.first = {},
                                           !.earlier = { q \in Requests : req[q].at = "sync" },
                                           !.readback = l.records, !.twice = l.twice]]
  /\ UNCHANGED <<connector, zone, nextId, evidence, owned, public, snaps, edits, faults>>

\* History: the listings taken before that of r will be processed after it.
Overtaken(reqs, r) ==
  [q \in Requests |-> IF q \in req[r].earlier /\ reqs[q].at = "sync"
                      THEN [reqs[q] EXCEPT !.stale = TRUE] ELSE reqs[q]]

\* sync_dns_record_changes: one transaction.  Only the active rows are looked
\* up, so a record that is back meets its removed row and the commit fails;
\* so it does when a new record is listed twice.
Sync(r) ==
  LET keys == Keys(req[r].readback) IN
  /\ req[r].at = "sync"
  /\ IF Returns(keys) \/ ~(req[r].twice \subseteq snaps.active)
     THEN /\ req' = Overtaken(Finish(r, "conflict"), r)
          /\ snaps' = [snaps EXCEPT !.disorder = @ \/ req[r].stale]
     ELSE /\ snaps' = [active |-> keys, removed |-> snaps.removed \cup (snaps.active \ keys),
                       disorder |-> snaps.disorder \/ req[r].stale]
          /\ req' = Overtaken(IF req[r].kind = "analyse" THEN Finish(r, "analysed")
                              ELSE Concluded(r, req[r].readback), r)
  /\ UNCHANGED <<connector, zone, nextId, evidence, owned, public, edits, faults>>

\* _public_resolver_record_check: the record, and then the alias.  A resolver
\* that does not answer counts as one that does not agree.
AskResolver(r, x) ==
  /\ req[r].at = "resolve"
  /\ \E answer \in {"failed"} \cup
        (IF req[r].checks[x] = "asked" THEN {"value"} ELSE {"agrees"}) :
       /\ req[r].checks[x] \in {"asked", "value"}
       /\ answer = "value" => Serves(x, req[r].m.value)
       /\ answer = "agrees" => \A a \in public[x] : a.type # req[r].m.from
       /\ req' = [req EXCEPT ![r].checks[x] = answer]
  /\ UNCHANGED <<connector, zone, nextId, evidence, owned, public, snaps, edits, faults>>

\* MUTANT: one resolver that agrees is enough.
AgreementBug(checks) == \E x \in Resolvers : checks[x] = "agrees"

\* Every resolver has to agree; then the change is recorded.
Agreement(checks) == \A x \in Resolvers : checks[x] = "agrees"

ResolversAnswered(r) ==
  /\ req[r].at = "resolve"
  /\ \A x \in Resolvers : req[r].checks[x] \in {"failed", "agrees"}
  /\ req' = [Finish(r, "recorded") EXCEPT ![r].verified = Agreement(req[r].checks)]
  /\ UNCHANGED <<connector, zone, nextId, evidence, owned, public, snaps, edits, faults>>

\* A call to the provider fails; a write may have taken effect all the same.
ProviderFails(r) ==
  /\ req[r].at \in {"list", "paging", "write", "readback"} /\ faults < MaxFaults
  /\ faults' = faults + 1
  /\ \/ req' = Finish(r, "failed") /\ UNCHANGED <<zone, nextId>>
     \/ /\ req[r].at = "write" /\ CanWrite(req[r].m, zone)
        /\ zone' = AfterWrite(req[r].m, zone) /\ \A a \in zone' : a.id <= MaxIds
        /\ nextId' = NextIdAfter(zone')
        /\ req' = [ZoneChanged(Finish(r, "failed"), r) EXCEPT ![r].wrote = TRUE]
  /\ UNCHANGED <<connector, evidence, owned, public, snaps, edits>>

\* The process restarts: the requests under way are gone.
Crash ==
  /\ faults < MaxFaults /\ \E r \in Requests : req[r].at \notin {"new", "done"}
  /\ faults' = faults + 1
  /\ req' = [r \in Requests |-> IF req[r].at \in {"new", "done"} THEN req[r]
                                ELSE Finish(r, "failed")[r]]
  /\ UNCHANGED <<connector, zone, nextId, evidence, owned, public, snaps, edits>>

-----------------------------------------------------------------------------
\* Somebody else adds, removes or changes a record at the provider.
ForeignEdit ==
  /\ edits < MaxEdits /\ edits' = edits + 1
  /\ \E r \in zone \cup {[id |-> nextId, type |-> "TXT", value |-> Starter]},
        new \in {{}} \cup { {[type |-> "TXT", value |-> v]} : v \in TxtValues }
                     \cup {{[type |-> "CNAME", value |-> Target]}} :
       /\ r.id <= MaxIds
       /\ zone' = (zone \ {r}) \cup { [id |-> r.id, type |-> a.type, value |-> a.value] : a \in new }
       /\ zone' # zone /\ Acceptable(zone')
       /\ nextId' = NextIdAfter(zone')
  /\ req' = ZoneChanged(req, None)
  /\ UNCHANGED <<connector, evidence, owned, public, snaps, faults>>

\* Somebody else adds or removes a record at another name of the zone.
EditElsewhere ==
  /\ edits < MaxEdits /\ edits' = edits + 1
  /\ \E r \in Requests : req[r].at = "paging"
  /\ req' = [r \in Requests |-> IF req[r].at = "paging" THEN [req[r] EXCEPT !.stale = TRUE]
                                ELSE req[r]]
  /\ UNCHANGED <<connector, zone, nextId, evidence, owned, public, snaps, faults>>

\* A resolver forgets its cached answer and asks the zone.  What it does while
\* no change of type is under way is of no account.
Propagate(x) ==
  /\ \E r \in Requests : req[r].wrote /\ req[r].at # "done" /\ Replaces(req[r].plan)
  /\ public[x] # Published(zone)
  /\ public' = [public EXCEPT ![x] = Published(zone)]
  /\ req' = [r \in Requests |->
               IF req[r].at # "done" /\ req[r].wrote /\ [type |-> "TXT", value |-> req[r].m.value] \in public'[x]
               THEN [req[r] EXCEPT !.shown = @ \cup {x}] ELSE req[r]]
  /\ UNCHANGED <<connector, zone, nextId, evidence, owned, snaps, edits, faults>>

\* The evidence is refreshed, for a request or otherwise; it matters to the
\* requests still to come.
RefreshEvidence ==
  /\ \E r \in Requests : req[r].at = "new"
  /\ evidence # Published(zone) /\ evidence' = Published(zone)
  /\ UNCHANGED <<connector, zone, nextId, owned, public, snaps, req, edits, faults>>

\* Ownership of the domain is proved.
ProveOwnership ==
  /\ \E r \in Requests : req[r].at = "new"
  /\ ~owned /\ owned' = TRUE
  /\ UNCHANGED <<connector, zone, nextId, evidence, public, snaps, req, edits, faults>>

Next ==
  \/ \E r \in Requests :
       \/ Plan(r, "preview", NoMutation)
       \/ \E expect \in Previews \cup {NoMutation} : Plan(r, "apply", expect)
       \/ BeginListing(r) \/ Preview(r) \/ PrepareWrite(r) \/ Write(r)
       \/ ReadBack(r) \/ List(r) \/ Sync(r)
       \/ \E x \in Resolvers : AskResolver(r, x)
       \/ ResolversAnswered(r) \/ ProviderFails(r)
  \/ Crash \/ ForeignEdit \/ EditElsewhere \/ RefreshEvidence \/ ProveOwnership
  \/ \E x \in Resolvers : Propagate(x)

Spec == Init /\ [][Next]_vars

-----------------------------------------------------------------------------
Mutation == [plan : [from : {"TXT", "CNAME", None}, current : SUBSET Contents,
                     value : TxtValues \cup {None}],
             op : {"create", "update", "noop", None}, from : {"TXT", "CNAME", None},
             current : SUBSET Contents, value : TxtValues \cup {None}, id : 0..MaxIds]

\* Every variable holds a value of its type, and the zone is one a provider
\* accepts.
TypeOK ==
  /\ connector \in Connectors /\ owned \in BOOLEAN
  /\ zone \subseteq Record /\ Acceptable(zone) /\ \A r \in zone : r.id < nextId
  /\ nextId \in 1..MaxIds + 1
  /\ evidence \subseteq Answer /\ public \in [Resolvers -> SUBSET Answer]
  /\ snaps.active \cap snaps.removed = {}
  /\ \A r \in Requests :
       /\ req[r].at \in {"new", "list", "paging", "write", "readback", "sync", "resolve", "done"}
       /\ req[r].outcome \in {None, "previewed", "refused", "recorded", "failed",
                              "conflict", "analysed"}
       /\ req[r].m \in Mutation /\ req[r].expect \in Mutation
       /\ req[r].readback \subseteq Record /\ req[r].first \subseteq Record
  /\ edits \in 0..MaxEdits /\ faults \in 0..MaxFaults

\* The rollback evidence of a recorded change names the contents that the
\* write removed, unless somebody wrote after the request began to list what
\* the evidence was taken from (rollback.previous_values).
RollbackRestores ==
  \A r \in Requests :
    req[r].outcome = "recorded" /\ req[r].wrote /\ ~req[r].raced
      => req[r].lost = req[r].m.current \ {req[r].m.value}

\* A change of type is reported as verified only when each public resolver
\* has, since the write, answered with the new record.
MigrationIsPublic ==
  \A r \in Requests :
    req[r].outcome = "recorded" /\ req[r].wrote /\ req[r].verified /\ Replaces(req[r].m.plan)
      => req[r].shown = Resolvers

\* The change history fails a request only after a listing was processed that
\* was older than one processed before it, or that was read page by page while
\* the zone changed (uq_dns_record_snapshot_lookup).
ConflictIsDisorder ==
  \A r \in Requests : req[r].outcome = "conflict" => snaps.disorder

Written(r) == req'[r].wrote /\ ~req[r].wrote

\* A confirmed write removes nothing its operator has not seen in the preview,
\* however long ago that was, and no write gives the name a second TXT record,
\* except for what was written after the request began to list the records.
OnlyReviewedIsLost ==
  [][\A r \in Requests :
       Written(r) /\ ~req[r].raced =>
         /\ Cardinality(zone') <= 1
         /\ req[r].expect # NoMutation =>
              ValuesOf(zone) \ ValuesOf(zone') \subseteq req[r].expect.current]_vars
=============================================================================

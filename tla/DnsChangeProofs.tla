-------------------------- MODULE DnsChangeProofs --------------------------
(***************************************************************************)
(* Proofs about DnsChange, for any connectors, contents, requests and      *)
(* resolvers, and any number of records, foreign edits, errors and crashes. *)
(* Types come first; then what each request knows of the zone and of the   *)
(* resolvers; then the order of the listings and the change history.       *)
(***************************************************************************)
EXTENDS DnsChange, FiniteSetTheorems, TLAPS

-----------------------------------------------------------------------------
(***************************************************************************)
(* Types                                                                   *)
(***************************************************************************)
Stages == {"new", "list", "paging", "write", "readback", "sync", "resolve", "done"}
Outcomes == {None, "previewed", "refused", "recorded", "failed", "conflict", "analysed"}
Plans == [from : {"TXT", "CNAME", None}, current : SUBSET Contents, value : TxtValues \cup {None}]

RequestType ==
  [at : Stages, kind : {None, "preview", "apply", "analyse"},
   expect : Mutation, plan : Plans, m : Mutation, first : SUBSET Record, stale : BOOLEAN,
   readback : SUBSET Record, twice : SUBSET (1..MaxIds),
   checks : [Resolvers -> {"asked", "value", "failed", "agrees"}], verified : BOOLEAN,
   outcome : Outcomes, earlier : SUBSET Requests, lost : SUBSET Contents, raced : BOOLEAN,
   shown : SUBSET Resolvers, wrote : BOOLEAN]

\* A text record has a text for its content.
Sound(records) == IsFiniteSet(records) /\ \A a \in records : a.type = "TXT" => a.value \in TxtValues

ZoneType ==
  /\ zone \subseteq Record /\ Acceptable(zone) /\ Sound(zone)
  /\ \A a \in zone : a.id < nextId
  /\ nextId \in 1..MaxIds + 1

SeenType ==
  /\ evidence \subseteq Answer /\ Sound(evidence)
  /\ public \in [Resolvers -> SUBSET Answer]

SnapsType ==
  /\ snaps \in [active : SUBSET (1..MaxIds), removed : SUBSET (1..MaxIds), disorder : BOOLEAN]
  /\ snaps.active \cap snaps.removed = {}

OtherType ==
  /\ connector \in Connectors /\ owned \in BOOLEAN
  /\ edits \in 0..MaxEdits /\ faults \in 0..MaxFaults

\* Where a request has a plan, where its write has been carried out, and where
\* it has a listing that may be stale.
Phase(q) ==
  /\ q.at \in {"new", "list", "write"} => ~q.wrote
  /\ q.at \in {"readback", "resolve"} => q.wrote
  /\ q.at \in {"list", "write", "readback", "resolve"}
     \/ (q.at \in {"paging", "sync"} /\ q.kind # "analyse")
       => q.plan.from \in {"TXT", "CNAME"} /\ q.plan.value \in TxtValues
  /\ q.at \in {"write", "readback", "resolve"} \/ (q.at \in {"paging", "sync"} /\ q.wrote)
       => q.m.plan = q.plan /\ q.m.value \in TxtValues
  /\ q.at = "write" => q.m.op \in {"create", "update"}
  /\ q.at = "list" => q.kind \in {"preview", "apply"}
  /\ q.at \in {"write", "readback"} \/ (q.at = "paging" /\ q.wrote) => q.kind = "apply"
  /\ q.at = "sync" => (q.wrote <=> q.kind # "analyse")
  /\ q.at # "resolve" => q.checks = [x \in Resolvers |-> "asked"]
  /\ q.at \in {"new", "list", "write", "readback"} => ~q.stale
  /\ q.at = "sync" /\ ~q.stale => q.twice = {}

ReqInv == req \in [Requests -> RequestType] /\ \A r \in Requests : Phase(req[r])

TypeInv == ZoneType /\ SeenType /\ SnapsType /\ OtherType /\ ReqInv

LEMMA TypeInvImpliesTypeOK == TypeInv => TypeOK
BY DEF TypeInv, ZoneType, SeenType, SnapsType, OtherType, ReqInv, RequestType, Stages, Outcomes, TypeOK

LEMMA ConnectorKnown == OtherType => connector \in {"cloudflare", "lexicon", "route53", "hetzner"}
BY ChangeAssumption DEF OtherType, AllConnectors

LEMMA NewTypes ==
  /\ NoPlan \in Plans /\ NoMutation \in Mutation
  /\ NewRequest \in RequestType /\ NewRequest.checks = [x \in Resolvers |-> "asked"]
<1>1. NoPlan \in Plans
  BY DEF NoPlan, Plans
<1>2. NoMutation \in Mutation
  BY <1>1, ChangeAssumption DEF NoMutation, Mutation, Plans
<1>3. NewRequest \in RequestType
  BY <1>1, <1>2 DEF NewRequest, RequestType, Stages, Outcomes
<1> QED BY <1>1, <1>2, <1>3 DEF NewRequest

LEMMA SoundSets ==
  /\ Sound({})
  /\ \A v \in TxtValues : \A n : Sound({[id |-> n, type |-> "TXT", value |-> v]})
  /\ \A n : Sound({[id |-> n, type |-> "CNAME", value |-> Target]})
  /\ \A z, y : Sound(z) /\ Sound(y) => Sound(z \cup y)
  /\ \A z, y : Sound(z) /\ y \subseteq z => Sound(y)
<1>1. Sound({})
  BY FS_EmptySet DEF Sound
<1>2. ASSUME NEW a, a.type = "TXT" => a.value \in TxtValues PROVE Sound({a})
  BY <1>2, FS_Singleton DEF Sound
<1>3. ASSUME NEW z, NEW y, Sound(z), Sound(y) PROVE Sound(z \cup y)
  BY <1>3, FS_Union DEF Sound
<1>4. ASSUME NEW z, NEW y, Sound(z), y \subseteq z PROVE Sound(y)
  BY <1>4, FS_Subset DEF Sound
<1> QED BY <1>1, <1>2, <1>3, <1>4

\* What is published of a zone is sound when the zone is.
LEMMA SoundPublished ==
  ASSUME NEW z, Sound(z), z \subseteq Record
  PROVE  Sound(Published(z)) /\ Published(z) \subseteq Answer
<1> DEFINE f == [a \in z |-> [type |-> a.type, value |-> a.value]]
<1>1. f \in Surjection(z, Published(z))
  BY DEF Published, Surjection
<1>2. IsFiniteSet(Published(z))
  BY <1>1, FS_Surjection DEF Sound
<1>3. \A b \in Published(z) : b \in Answer /\ (b.type = "TXT" => b.value \in TxtValues)
  BY DEF Published, Sound, Record, Answer
<1> QED BY <1>2, <1>3 DEF Sound

\* The program starts with the right types.
LEMMA InitType == Init => TypeInv
<1> SUFFICES ASSUME Init PROVE TypeInv
  OBVIOUS
<1>1. nextId = 1 + Cardinality(zone) /\ 1 \in 1..MaxIds /\ 1 \in 1..MaxIds + 1 /\ 2 \in 1..MaxIds + 1
  BY ChangeAssumption DEF Init
<1>2. /\ zone \subseteq Record /\ Sound(zone) /\ Acceptable(zone)
      /\ (zone = {} /\ nextId = 1) \/ ((\A a \in zone : a.id = 1) /\ nextId = 2)
  <2>1. CASE zone = {}
    BY <1>1, <2>1, SoundSets, FS_EmptySet DEF Acceptable
  <2>2. ASSUME NEW v \in TxtValues, zone = {[id |-> 1, type |-> "TXT", value |-> v]}
        PROVE  /\ zone \subseteq Record /\ Sound(zone) /\ Acceptable(zone)
               /\ (\A a \in zone : a.id = 1) /\ nextId = 2
    <3>1. Sound(zone) /\ Cardinality(zone) = 1
      BY <2>2, SoundSets, FS_Singleton
    <3> QED BY <1>1, <2>2, <3>1 DEF Record, Contents, Acceptable
  <2>3. CASE zone = {[id |-> 1, type |-> "CNAME", value |-> Target]}
    <3>1. Sound(zone) /\ Cardinality(zone) = 1
      BY <2>3, SoundSets, FS_Singleton
    <3> QED BY <1>1, <2>3, <3>1 DEF Record, Contents, Acceptable
  <2> QED BY <2>1, <2>2, <2>3 DEF Init
<1>3. ZoneType
  BY <1>1, <1>2 DEF ZoneType
<1>4. SeenType
  BY <1>2, SoundPublished DEF Init, SeenType
<1>5. ReqInv
  BY NewTypes DEF Init, ReqInv, Phase, NewRequest
<1> QED BY <1>3, <1>4, <1>5, ChangeAssumption DEF Init, TypeInv, SnapsType, OtherType

-----------------------------------------------------------------------------
(***************************************************************************)
(* Requests                                                                *)
(***************************************************************************)
\* What a request that has ended keeps.
Kept(o) == o \in {"previewed", "recorded"}

LEMMA FinishFacts ==
  ASSUME req \in [Requests -> RequestType], NEW r \in Requests, NEW o \in Outcomes
  PROVE  /\ Finish(r, o) \in [Requests -> RequestType]
         /\ \A q \in Requests : q # r => Finish(r, o)[q] = req[q]
         /\ LET t == req[r]
                u == Finish(r, o)[r] IN
              /\ u.at = "done" /\ u.outcome = o /\ u.checks = [x \in Resolvers |-> "asked"]
              /\ u.earlier = {} /\ u.first = {}
              /\ Kept(o) => /\ u.m = t.m /\ u.verified = t.verified /\ u.lost = t.lost
                            /\ u.raced = t.raced /\ u.shown = t.shown /\ u.wrote = t.wrote
              /\ ~Kept(o) => ~u.wrote
<1> DEFINE t == req[r]
           k == [t EXCEPT !.at = "done", !.outcome = o, !.kind = None, !.expect = NoMutation,
                          !.plan = NoPlan, !.first = {}, !.stale = FALSE, !.readback = {},
                          !.twice = {}, !.earlier = {}, !.checks = NewRequest.checks]
           n == [NewRequest EXCEPT !.at = "done", !.outcome = o]
           u == IF Kept(o) THEN k ELSE n
<1>1. Finish(r, o) = [req EXCEPT ![r] = u]
  BY DEF Finish, Kept
<1>2. NewRequest.checks = [x \in Resolvers |-> "asked"] /\ NewRequest \in RequestType
      /\ NewRequest.checks \in [Resolvers -> {"asked", "value", "failed", "agrees"}] /\ t \in RequestType
  BY NewTypes
<1>3. /\ k \in RequestType
      /\ k.at = "done" /\ k.outcome = o /\ k.checks = [x \in Resolvers |-> "asked"]
      /\ k.earlier = {} /\ k.first = {} /\ k.m = t.m /\ k.verified = t.verified /\ k.lost = t.lost
      /\ k.raced = t.raced /\ k.shown = t.shown /\ k.wrote = t.wrote
  BY <1>2, NewTypes DEF RequestType, Stages
<1>4. /\ n \in RequestType
      /\ n.at = "done" /\ n.outcome = o /\ n.checks = [x \in Resolvers |-> "asked"]
      /\ n.earlier = {} /\ n.first = {} /\ ~n.wrote
  <2>1. n \in RequestType /\ n.at = "done" /\ n.outcome = o /\ n.checks = NewRequest.checks
        /\ n.earlier = NewRequest.earlier /\ n.first = NewRequest.first /\ n.wrote = NewRequest.wrote
    BY <1>2 DEF RequestType, Stages
  <2> QED BY <1>2, <2>1 DEF NewRequest
<1> HIDE DEF k, n
<1>5. u \in RequestType
  BY <1>3, <1>4
<1>6. /\ u.at = "done" /\ u.outcome = o /\ u.checks = [x \in Resolvers |-> "asked"]
      /\ u.earlier = {} /\ u.first = {}
      /\ Kept(o) => /\ u.m = t.m /\ u.verified = t.verified /\ u.lost = t.lost
                    /\ u.raced = t.raced /\ u.shown = t.shown /\ u.wrote = t.wrote
      /\ ~Kept(o) => ~u.wrote
  BY <1>3, <1>4
<1> HIDE DEF u
<1> QED BY <1>1, <1>5, <1>6

\* What build_dns_change_plans derives from the evidence.
LEMMA PlanFacts ==
  ASSUME Sound(evidence), evidence \subseteq Answer, NEW plan \in PlansFor(evidence)
  PROVE  plan \in Plans /\ plan.from \in {"TXT", "CNAME"} /\ plan.value \in TxtValues
<1>1. Enrol[Inherited] \in TxtValues /\ Starter \in TxtValues
  BY ChangeAssumption
<1>2. CASE evidence = {}
  BY <1>1, <1>2 DEF PlansFor, Plans
<1>3. CASE evidence # {} /\ Cardinality(evidence) = 1 /\ \E a \in evidence : a.type = "CNAME"
  <2>1. ValuesOf(evidence) \subseteq Contents
    BY DEF ValuesOf, Answer
  <2>2. PlansFor(evidence)
          = {[from |-> "CNAME", current |-> ValuesOf(evidence), value |-> Enrol[Inherited]]}
    <3>1. PICK a : evidence = {a}
      BY <1>3, FS_Singleton DEF Sound
    <3> QED BY <1>3, <3>1 DEF PlansFor
  <2> QED BY <1>1, <2>1, <2>2 DEF Plans
<1>4. CASE Cardinality(evidence) = 1 /\ \E a \in evidence : a.type = "TXT" /\ Enrol[a.value] # a.value
  <2>1. PICK a : evidence = {a}
    BY <1>4, FS_Singleton DEF Sound
  <2>2. a.type = "TXT" /\ a.value \in TxtValues /\ a.type # "CNAME"
    BY <1>4, <2>1 DEF Sound
  <2>3. PlansFor(evidence) =
          { [from |-> "TXT", current |-> {b.value}, value |-> Enrol[b.value]] : b \in evidence }
    BY <1>4, <2>1, <2>2 DEF PlansFor
  <2>4. plan = [from |-> "TXT", current |-> {a.value}, value |-> Enrol[a.value]]
    BY <2>1, <2>3
  <2>5. Enrol[a.value] \in TxtValues /\ {a.value} \subseteq Contents
    BY <2>2, ChangeAssumption DEF Contents
  <2> QED BY <2>4, <2>5 DEF Plans
<1> QED BY <1>2, <1>3, <1>4 DEF PlansFor

\* A request goes on with another record, the other requests as they are.
LEMMA OneRequest ==
  ASSUME ReqInv, NEW r \in Requests, NEW u \in RequestType, Phase(u), req' = [req EXCEPT ![r] = u]
  PROVE  ReqInv' /\ req'[r] = u /\ \A q \in Requests : q # r => req'[q] = req[q]
<1>1. req' \in [Requests -> RequestType] /\ req'[r] = u /\ \A q \in Requests : q # r => req'[q] = req[q]
  BY DEF ReqInv
<1> QED BY <1>1 DEF ReqInv

LEMMA FinishType ==
  ASSUME ReqInv, NEW r \in Requests, NEW o \in Outcomes
  PROVE  Finish(r, o) \in [Requests -> RequestType] /\ \A q \in Requests : Phase(Finish(r, o)[q])
<1>1. Phase(Finish(r, o)[r])
  BY FinishFacts DEF ReqInv, Phase
<1>2. ASSUME NEW q \in Requests, q # r PROVE Phase(Finish(r, o)[q])
  BY <1>2, FinishFacts DEF ReqInv
<1> QED BY <1>1, <1>2, FinishFacts DEF ReqInv

\* A listing that has become stale, and a request that others have overtaken.
LEMMA StaleFacts ==
  ASSUME NEW t \in RequestType, Phase(t), t.at \in {"paging", "sync"}
  PROVE  LET u == [t EXCEPT !.stale = TRUE] IN
         /\ u \in RequestType /\ Phase(u) /\ u.stale = TRUE
         /\ u.at = t.at /\ u.wrote = t.wrote /\ u.plan = t.plan /\ u.m = t.m /\ u.kind = t.kind
         /\ u.checks = t.checks /\ u.first = t.first /\ u.raced = t.raced /\ u.lost = t.lost
         /\ u.shown = t.shown /\ u.outcome = t.outcome /\ u.earlier = t.earlier
         /\ u.readback = t.readback
<1> DEFINE u == [t EXCEPT !.stale = TRUE]
<1>1. /\ u \in RequestType /\ u.stale = TRUE
      /\ u.at = t.at /\ u.wrote = t.wrote /\ u.plan = t.plan /\ u.m = t.m /\ u.kind = t.kind
      /\ u.checks = t.checks /\ u.first = t.first /\ u.raced = t.raced /\ u.lost = t.lost
      /\ u.shown = t.shown /\ u.outcome = t.outcome /\ u.earlier = t.earlier
      /\ u.readback = t.readback
  BY DEF RequestType
<1> HIDE DEF u
<1>2. Phase(u)
  BY <1>1 DEF Phase
<1> QED BY <1>1, <1>2 DEF u

LEMMA RacedFacts ==
  ASSUME NEW t \in RequestType, Phase(t), t.at = "write"
  PROVE  LET u == [t EXCEPT !.raced = TRUE] IN
         /\ u \in RequestType /\ Phase(u) /\ u.raced = TRUE
         /\ u.at = t.at /\ u.wrote = t.wrote /\ u.outcome = t.outcome /\ u.earlier = t.earlier
         /\ u.first = t.first
<1> DEFINE u == [t EXCEPT !.raced = TRUE]
<1>1. /\ u \in RequestType /\ u.raced = TRUE
      /\ u.at = t.at /\ u.wrote = t.wrote /\ u.plan = t.plan /\ u.m = t.m /\ u.stale = t.stale
      /\ u.kind = t.kind /\ u.checks = t.checks /\ u.outcome = t.outcome /\ u.earlier = t.earlier
      /\ u.first = t.first /\ u.twice = t.twice
  BY DEF RequestType
<1> HIDE DEF u
<1>2. Phase(u)
  BY <1>1 DEF Phase
<1> QED BY <1>1, <1>2 DEF u

\* Requests that list the zone or are about to write find out that it changed.
LEMMA ZoneChangedFacts ==
  ASSUME NEW f \in [Requests -> RequestType], \A q \in Requests : Phase(f[q]), NEW c
  PROVE  /\ ZoneChanged(f, c) \in [Requests -> RequestType]
         /\ \A q \in Requests :
              /\ Phase(ZoneChanged(f, c)[q])
              /\ q = c \/ f[q].at \notin {"paging", "write"} => ZoneChanged(f, c)[q] = f[q]
              /\ q # c /\ f[q].at = "paging" => ZoneChanged(f, c)[q] = [f[q] EXCEPT !.stale = TRUE]
              /\ q # c /\ f[q].at = "write" => ZoneChanged(f, c)[q] = [f[q] EXCEPT !.raced = TRUE]
<1>1. ASSUME NEW q \in Requests
      PROVE  /\ q = c \/ f[q].at \notin {"paging", "write"} => ZoneChanged(f, c)[q] = f[q]
             /\ q # c /\ f[q].at = "paging" => ZoneChanged(f, c)[q] = [f[q] EXCEPT !.stale = TRUE]
             /\ q # c /\ f[q].at = "write" => ZoneChanged(f, c)[q] = [f[q] EXCEPT !.raced = TRUE]
  BY DEF ZoneChanged
<1>2. ASSUME NEW q \in Requests
      PROVE  ZoneChanged(f, c)[q] \in RequestType /\ Phase(ZoneChanged(f, c)[q])
  <2>1. PICK t : t = f[q]
    OBVIOUS
  <2>2. t \in RequestType /\ Phase(t)
    BY <2>1
  <2>3. CASE q = c \/ t.at \notin {"paging", "write"}
    BY <1>1, <2>1, <2>2, <2>3
  <2>4. CASE q # c /\ t.at = "paging"
    <3>1. ZoneChanged(f, c)[q] = [t EXCEPT !.stale = TRUE]
      BY <1>1, <2>1, <2>4
    <3> QED BY <2>2, <2>4, <3>1, StaleFacts
  <2>5. CASE q # c /\ t.at = "write"
    <3>1. ZoneChanged(f, c)[q] = [t EXCEPT !.raced = TRUE]
      BY <1>1, <2>1, <2>5
    <3> QED BY <2>2, <2>5, <3>1, RacedFacts
  <2> QED BY <2>3, <2>4, <2>5
<1>3. ZoneChanged(f, c) \in [Requests -> RequestType]
  <2>1. ZoneChanged(f, c) = [q \in Requests |-> ZoneChanged(f, c)[q]]
    BY DEF ZoneChanged
  <2> QED BY <1>2, <2>1
<1> QED BY <1>1, <1>2, <1>3

-----------------------------------------------------------------------------
(***************************************************************************)
(* The steps keep the types                                                *)
(***************************************************************************)
\* What a listing holds.
LEMMA ListingFacts ==
  ASSUME TypeInv, NEW r \in Requests, NEW l \in Listings(r)
  PROVE  /\ l.records \in SUBSET Record /\ l.twice \in SUBSET (1..MaxIds)
         /\ ~req[r].stale => l = [records |-> zone, twice |-> {}]
         /\ l.records \subseteq zone \cup req[r].first
<1>1. zone \subseteq Record /\ req[r].first \subseteq Record
  BY DEF TypeInv, ZoneType, ReqInv, RequestType
<1>2. CASE ~req[r].stale
  <2>1. l = [records |-> zone, twice |-> {}]
    BY <1>2 DEF Listings
  <2> QED BY <1>1, <1>2, <2>1
<1>3. CASE req[r].stale
  <2>1. PICK p \in (SUBSET req[r].first) \X SUBSET zone :
          l = [records |-> p[1] \cup p[2], twice |-> Keys(p[1]) \cap Keys(p[2])]
    BY <1>3 DEF Listings
  <2>2. Keys(p[1]) \subseteq 1..MaxIds
    BY <1>1, <2>1 DEF Keys, KeyOf, Record
  <2> QED BY <1>1, <1>3, <2>1, <2>2
<1> QED BY <1>2, <1>3

\* What prepare_mutation makes of a plan.
LEMMA PreparedType ==
  ASSUME NEW z \in SUBSET Record, NEW plan \in Plans, plan.value \in TxtValues
  PROVE  /\ Prepared(plan, z) \in Mutation
         /\ Prepared(plan, z).plan = plan /\ Prepared(plan, z).value = plan.value
         /\ Prepared(plan, z).op \in {"create", "update", "noop"}
<1> DEFINE matches == Matches(plan, z)
<1>1. matches \subseteq z /\ ValuesOf(matches) \subseteq Contents
  BY DEF Matches, Txt, Record, ValuesOf
<1>2. matches # {} => /\ (CHOOSE a \in matches : TRUE).type \in {"TXT", "CNAME"}
                      /\ (CHOOSE a \in matches : TRUE).id \in 1..MaxIds
  <2>1. matches # {} => (CHOOSE a \in matches : TRUE) \in matches
    OBVIOUS
  <2> HIDE DEF matches
  <2> QED BY <1>1, <2>1 DEF Record
<1>3. Operation(plan, ValuesOf(matches)) \in {"create", "update", "noop"}
  BY DEF Operation
<1>4. Prepared(plan, z) =
        [plan |-> plan, op |-> Operation(plan, ValuesOf(matches)),
         from |-> IF matches = {} THEN plan.from ELSE (CHOOSE a \in matches : TRUE).type,
         current |-> ValuesOf(matches), value |-> plan.value,
         id |-> IF matches # {} /\ connector \in {"cloudflare", "lexicon"}
                THEN (CHOOSE a \in matches : TRUE).id ELSE 0]
  BY DEF Prepared
<1> HIDE DEF matches
<1> QED BY <1>1, <1>2, <1>3, <1>4, ChangeAssumption DEF Mutation, Plans

\* The records a write puts in the zone.
LEMMA AfterWriteRecords ==
  ASSUME NEW m, NEW z, IsFiniteSet(z)
  PROVE  /\ IsFiniteSet(AfterWrite(m, z))
         /\ \A a \in AfterWrite(m, z) :
              \/ a \in z
              \/ /\ a = [id |-> a.id, type |-> "TXT", value |-> m.value]
                 /\ a.id = nextId \/ \E b \in z : b.id = a.id
<1> DEFINE new == [id |-> nextId, type |-> "TXT", value |-> m.value]
           set == IF Txt(z) = {} THEN new
                  ELSE [new EXCEPT !.id = (CHOOSE r \in Txt(z) : TRUE).id]
           g(a) == IF a.id = m.id THEN [new EXCEPT !.id = m.id] ELSE a
           changed == { g(a) : a \in z }
<1>1. \/ AfterWrite(m, z) = (z \ Txt(z)) \cup {set}
      \/ AfterWrite(m, z) = z \cup {new}
      \/ AfterWrite(m, z) = changed
  BY DEF AfterWrite
<1>2. CASE AfterWrite(m, z) = (z \ Txt(z)) \cup {set}
  <2>1. IsFiniteSet((z \ Txt(z)) \cup {set})
    <3> HIDE DEF set
    <3>1. IsFiniteSet(z \ Txt(z)) /\ IsFiniteSet({set})
      BY FS_Subset, FS_Singleton
    <3> QED BY <3>1, FS_Union
  <2>2. /\ set = [id |-> set.id, type |-> "TXT", value |-> m.value]
        /\ set.id = nextId \/ \E b \in z : b.id = set.id
    <3>1. CASE Txt(z) = {}
      BY <3>1
    <3>2. CASE Txt(z) # {}
      <4>1. PICK b \in Txt(z) : b = (CHOOSE r \in Txt(z) : TRUE)
        BY <3>2
      <4>2. b \in z
        BY DEF Txt
      <4>3. set = [new EXCEPT !.id = b.id]
        BY <3>2, <4>1
      <4> QED BY <4>2, <4>3
    <3> QED BY <3>1, <3>2
  <2> HIDE DEF set
  <2> QED BY <1>2, <2>1, <2>2
<1>3. CASE AfterWrite(m, z) = z \cup {new}
  <2>1. IsFiniteSet(z \cup {new})
    BY FS_Singleton, FS_Union
  <2> QED BY <1>3, <2>1
<1>4. CASE AfterWrite(m, z) = changed
  <2>1. IsFiniteSet(changed)
    <3> DEFINE f == [a \in z |-> g(a)]
    <3>1. f \in Surjection(z, changed)
      BY DEF Surjection
    <3> QED BY <3>1, FS_Surjection
  <2>2. ASSUME NEW a \in z PROVE g(a) = a \/ (a.id = m.id /\ g(a) = [new EXCEPT !.id = m.id])
    OBVIOUS
  <2>3. ASSUME NEW b \in changed
        PROVE  \/ b \in z
               \/ /\ b = [id |-> b.id, type |-> "TXT", value |-> m.value]
                  /\ \E a \in z : a.id = b.id
    <3>1. PICK a \in z : b = g(a)
      OBVIOUS
    <3>2. CASE b = a
      BY <3>2
    <3>3. CASE a.id = m.id /\ b = [new EXCEPT !.id = m.id]
      BY <3>3
    <3> HIDE DEF g
    <3> QED BY <2>2, <3>1, <3>2, <3>3
  <2> HIDE DEF changed
  <2> QED BY <1>4, <2>1, <2>3
<1> QED BY <1>1, <1>2, <1>3, <1>4

\* The zone after a write that the provider accepts.
LEMMA AfterWriteType ==
  ASSUME ZoneType, NEW m \in Mutation, m.value \in TxtValues,
         \A a \in AfterWrite(m, zone) : a.id <= MaxIds,
         Acceptable(AfterWrite(m, zone)), zone' = AfterWrite(m, zone), nextId' = NextIdAfter(zone')
  PROVE  ZoneType'
<1>0. MaxIds \in Nat /\ nextId \in 1..MaxIds + 1
  BY ChangeAssumption DEF ZoneType
<1>1. ASSUME NEW a \in zone'
      PROVE  /\ a \in Record /\ (a.type = "TXT" => a.value \in TxtValues)
             /\ a.id <= nextId
  <2>1. CASE a \in zone
    BY <1>0, <2>1 DEF ZoneType, Sound, Record
  <2>2. CASE /\ a = [id |-> a.id, type |-> "TXT", value |-> m.value]
             /\ a.id = nextId \/ \E b \in zone : b.id = a.id
    <3>1. a.id \in 1..MaxIds /\ a.id <= nextId
      BY <1>0, <2>2 DEF ZoneType, Record
    <3> QED BY <2>2, <3>1 DEF Record, Contents
  <2>3. IsFiniteSet(zone)
    BY DEF ZoneType, Sound
  <2> QED BY <2>1, <2>2, <2>3, AfterWriteRecords
<1>2. IsFiniteSet(zone')
  BY AfterWriteRecords DEF ZoneType, Sound
<1>3. nextId' \in 1..MaxIds + 1 /\ \A a \in zone' : a.id < nextId'
  <2>1. CASE \E a \in zone' : a.id = nextId
    <3>1. nextId' = nextId + 1 /\ nextId <= MaxIds
      BY <2>1 DEF NextIdAfter
    <3> QED BY <1>0, <1>1, <3>1 DEF Record
  <2>2. CASE \A a \in zone' : a.id # nextId
    <3>1. nextId' = nextId
      BY <2>2 DEF NextIdAfter
    <3> QED BY <1>0, <1>1, <2>2, <3>1 DEF Record
  <2> QED BY <2>1, <2>2
<1> QED BY <1>1, <1>2, <1>3 DEF ZoneType, Sound

LEMMA PlanKeepsTypes ==
  ASSUME TypeInv, NEW r \in Requests, NEW kind \in {"preview", "apply"}, NEW expect \in Mutation,
         Plan(r, kind, expect)
  PROVE  TypeInv'
<1>1. PICK plan \in PlansFor(evidence) :
        req' = [req EXCEPT ![r] = [@ EXCEPT !.at = "list", !.kind = kind,
                                            !.expect = expect, !.plan = plan]]
  BY DEF Plan
<1> DEFINE u == [req[r] EXCEPT !.at = "list", !.kind = kind, !.expect = expect, !.plan = plan]
<1>2. plan \in Plans /\ plan.from \in {"TXT", "CNAME"} /\ plan.value \in TxtValues
  BY PlanFacts DEF TypeInv, SeenType
<1>3. req[r] \in RequestType /\ Phase(req[r]) /\ req[r].at = "new"
  BY DEF TypeInv, ReqInv, Plan
<1>4. u \in RequestType
  BY <1>2, <1>3 DEF RequestType, Stages
<1>5. /\ u.at = "list" /\ u.plan = plan /\ u.wrote = req[r].wrote /\ u.checks = req[r].checks
      /\ u.kind = kind /\ u.stale = req[r].stale
  BY <1>3 DEF RequestType
<1>6. req' = [req EXCEPT ![r] = u]
  BY <1>1
<1> HIDE DEF u
<1>7. Phase(u)
  BY <1>2, <1>3, <1>5 DEF Phase
<1>8. ReqInv'
  BY <1>4, <1>6, <1>7, OneRequest DEF TypeInv
<1> QED BY <1>8 DEF Plan, TypeInv, ZoneType, SeenType, SnapsType, OtherType

\* The first page of a listing is asked for.
LEMMA BeginListingFacts ==
  ASSUME TypeInv, NEW r \in Requests, BeginListing(r)
  PROVE  /\ ReqInv'
         /\ \A q \in Requests : q # r => req'[q] = req[q]
         /\ LET t == req[r]
                u == req'[r] IN
              /\ t.at \in {"new", "list", "readback"} /\ u.at = "paging" /\ u.first = zone
              /\ u.m = t.m /\ u.raced = t.raced /\ u.wrote = t.wrote /\ u.lost = t.lost
              /\ u.shown = t.shown /\ u.checks = t.checks /\ u.outcome = t.outcome
              /\ u.earlier = t.earlier
<1> DEFINE kind == IF req[r].at = "new" THEN "analyse" ELSE req[r].kind
           u == [req[r] EXCEPT !.at = "paging", !.first = zone, !.kind = kind]
<1>1. req[r] \in RequestType /\ Phase(req[r]) /\ req[r].at \in {"new", "list", "readback"}
  BY DEF TypeInv, ReqInv, BeginListing
<1>2. kind \in {None, "preview", "apply", "analyse"} /\ zone \subseteq Record
  BY <1>1 DEF RequestType, TypeInv, ZoneType
<1>3. req' = [req EXCEPT ![r] = u]
  BY DEF BeginListing, TypeInv, ReqInv
<1>4. (req[r].at = "new" => kind = "analyse") /\ (req[r].at # "new" => kind = req[r].kind)
  OBVIOUS
<1> HIDE DEF kind
<1>5. /\ u \in RequestType /\ u.at = "paging" /\ u.kind = kind /\ u.first = zone
      /\ u.plan = req[r].plan /\ u.stale = req[r].stale
      /\ u.m = req[r].m /\ u.raced = req[r].raced /\ u.wrote = req[r].wrote /\ u.lost = req[r].lost
      /\ u.shown = req[r].shown /\ u.checks = req[r].checks /\ u.outcome = req[r].outcome
      /\ u.earlier = req[r].earlier
  BY <1>1, <1>2 DEF RequestType, Stages
<1> HIDE DEF u
<1>6. Phase(u)
  BY <1>1, <1>4, <1>5 DEF Phase
<1>7. ReqInv' /\ req'[r] = u /\ \A q \in Requests : q # r => req'[q] = req[q]
  BY <1>3, <1>5, <1>6, OneRequest DEF TypeInv
<1> QED BY <1>1, <1>5, <1>7

LEMMA BeginListingKeepsTypes ==
  ASSUME TypeInv, NEW r \in Requests, BeginListing(r)
  PROVE  TypeInv'
BY BeginListingFacts DEF BeginListing, TypeInv, ZoneType, SeenType, SnapsType, OtherType

\* A request with its plan that has listed the records.
LEMMA ListedFacts ==
  ASSUME TypeInv, NEW r \in Requests, NEW kind \in {"preview", "apply"}, Listed(r, kind)
  PROVE  /\ req[r] \in RequestType /\ Phase(req[r]) /\ req[r].at \in {"list", "paging"} /\ ~req[r].wrote
         /\ req[r].plan \in Plans /\ req[r].plan.from \in {"TXT", "CNAME"}
         /\ req[r].plan.value \in TxtValues
<1>1. req[r] \in RequestType /\ Phase(req[r]) /\ req[r].at \in {"list", "paging"} /\ ~req[r].wrote
      /\ req[r].kind # "analyse"
  BY DEF TypeInv, ReqInv, Listed
<1> QED BY <1>1 DEF Phase, RequestType

LEMMA PreviewKeepsTypes ==
  ASSUME TypeInv, NEW r \in Requests, Preview(r)
  PROVE  TypeInv'
<1>0. PICK l \in Listings(r) :
        req' = IF Blocked(req[r].plan, l) THEN Finish(r, "refused")
               ELSE [Finish(r, "previewed") EXCEPT ![r].m = Prepared(req[r].plan, l.records)]
  BY DEF Preview
<1> DEFINE m == Prepared(req[r].plan, l.records)
           f == Finish(r, "previewed")
           u == [f[r] EXCEPT !.m = m]
<1>1. req[r].plan \in Plans /\ req[r].plan.value \in TxtValues
  BY ListedFacts DEF Preview
<1>2. m \in Mutation
  BY <1>1, ListingFacts, PreparedType
<1>3. f \in [Requests -> RequestType] /\ Phase(f[r]) /\ f[r].at = "done"
      /\ \A q \in Requests : q # r => f[q] = req[q]
  BY FinishType, FinishFacts DEF TypeInv, ReqInv, Outcomes
<1>4. req' = Finish(r, "refused") \/ req' = [f EXCEPT ![r] = u]
  BY <1>0
<1> HIDE DEF m, f
<1>4a. f[r] \in RequestType
  BY <1>3
<1>5. u \in RequestType /\ u.at = f[r].at /\ u.wrote = f[r].wrote /\ u.checks = f[r].checks
  BY <1>2, <1>4a DEF RequestType
<1> HIDE DEF u
<1>6. Phase(u)
  BY <1>3, <1>5 DEF Phase
<1>7. ReqInv'
  <2>1. CASE req' = Finish(r, "refused")
    BY <2>1, FinishType DEF TypeInv, ReqInv, Outcomes
  <2>2. CASE req' = [f EXCEPT ![r] = u]
    BY <2>2, <1>3, <1>5, <1>6 DEF TypeInv, ReqInv
  <2> QED BY <1>4, <2>1, <2>2
<1> QED BY <1>7 DEF Preview, TypeInv, ZoneType, SeenType, SnapsType, OtherType

\* What becomes of a request that is about to write.
Ready(t, m) ==
  [t EXCEPT !.at = "write", !.m = m, !.first = {}, !.stale = FALSE, !.raced = t.stale]

LEMMA ReadyFacts ==
  ASSUME NEW t \in RequestType, NEW m \in Mutation
  PROVE  LET w == Ready(t, m) IN
         /\ w \in RequestType /\ w.at = "write" /\ w.m = m /\ w.first = {} /\ w.stale = FALSE
         /\ w.raced = t.stale /\ w.wrote = t.wrote /\ w.checks = t.checks /\ w.plan = t.plan
         /\ w.kind = t.kind /\ w.expect = t.expect /\ w.outcome = t.outcome /\ w.earlier = t.earlier
BY DEF RequestType, Stages, Ready

LEMMA PrepareWriteShape ==
  ASSUME TypeInv, NEW r \in Requests, PrepareWrite(r)
  PROVE  \E l \in Listings(r) : \E m :
           /\ m = Prepared(req[r].plan, l.records)
           /\ \/ req' = Finish(r, "refused")
              \/ req' = [Finish(r, "recorded") EXCEPT ![r].m = m, ![r].verified = TRUE]
              \/ /\ m.op # "noop" /\ ~Blocked(req[r].plan, l) /\ AsReviewed(m, req[r].expect)
                 /\ req' = [req EXCEPT ![r] = Ready(req[r], m)]
BY DEF PrepareWrite, Ready

LEMMA PrepareWriteKeepsTypes ==
  ASSUME TypeInv, NEW r \in Requests, PrepareWrite(r)
  PROVE  TypeInv'
<1>01. PICK l \in Listings(r) :
         \E m :
           /\ m = Prepared(req[r].plan, l.records)
           /\ \/ req' = Finish(r, "refused")
              \/ req' = [Finish(r, "recorded") EXCEPT ![r].m = m, ![r].verified = TRUE]
              \/ m.op # "noop" /\ req' = [req EXCEPT ![r] = Ready(req[r], m)]
  BY PrepareWriteShape
<1>0. PICK m :
        /\ m = Prepared(req[r].plan, l.records)
        /\ \/ req' = Finish(r, "refused")
           \/ req' = [Finish(r, "recorded") EXCEPT ![r].m = m, ![r].verified = TRUE]
           \/ m.op # "noop" /\ req' = [req EXCEPT ![r] = Ready(req[r], m)]
  BY <1>01
<1> DEFINE f == Finish(r, "recorded")
           u == [f[r] EXCEPT !.m = m, !.verified = TRUE]
           w == Ready(req[r], m)
<1>1. /\ req[r] \in RequestType /\ Phase(req[r]) /\ ~req[r].wrote /\ req[r].kind = "apply"
      /\ req[r].plan \in Plans /\ req[r].plan.from \in {"TXT", "CNAME"} /\ req[r].plan.value \in TxtValues
      /\ req[r].at \in {"list", "paging"}
  BY ListedFacts DEF PrepareWrite, Listed
<1>2. m \in Mutation /\ m.plan = req[r].plan /\ m.value = req[r].plan.value
      /\ m.op \in {"create", "update", "noop"}
  BY <1>0, <1>1, ListingFacts, PreparedType
<1>3. f \in [Requests -> RequestType] /\ Phase(f[r]) /\ f[r].at = "done"
      /\ \A q \in Requests : q # r => f[q] = req[q]
  BY FinishType, FinishFacts DEF TypeInv, ReqInv, Outcomes
<1>4. \/ req' = Finish(r, "refused")
      \/ req' = [f EXCEPT ![r] = u]
      \/ m.op # "noop" /\ req' = [req EXCEPT ![r] = w]
  BY <1>0
<1> HIDE DEF f
<1>4a. f[r] \in RequestType
  BY <1>3
<1>5. u \in RequestType /\ u.at = f[r].at /\ u.wrote = f[r].wrote /\ u.checks = f[r].checks
  BY <1>2, <1>4a DEF RequestType
<1>6. /\ w \in RequestType /\ w.at = "write" /\ w.m = m /\ w.wrote = req[r].wrote
      /\ w.checks = req[r].checks /\ w.plan = req[r].plan /\ w.kind = req[r].kind /\ w.stale = FALSE
  BY <1>1, <1>2, ReadyFacts
<1> HIDE DEF u, w
<1>7. Phase(u)
  BY <1>3, <1>5 DEF Phase
<1>8. m.op # "noop" => Phase(w)
  BY <1>1, <1>2, <1>6 DEF Phase
<1>9. ReqInv'
  <2>1. CASE req' = Finish(r, "refused")
    BY <2>1, FinishType DEF TypeInv, ReqInv, Outcomes
  <2>2. CASE req' = [f EXCEPT ![r] = u]
    BY <2>2, <1>3, <1>5, <1>7 DEF TypeInv, ReqInv
  <2>3. CASE m.op # "noop" /\ req' = [req EXCEPT ![r] = w]
    BY <2>3, <1>6, <1>8, OneRequest DEF TypeInv
  <2> QED BY <1>4, <2>1, <2>2, <2>3
<1> QED BY <1>9 DEF PrepareWrite, TypeInv, ZoneType, SeenType, SnapsType, OtherType

\* What the request that writes becomes.
Writer(t, l, s) == [t EXCEPT !.at = "readback", !.wrote = TRUE, !.lost = l, !.shown = s]

LEMMA WriterFacts ==
  ASSUME NEW t \in RequestType, Phase(t), t.at = "write", NEW l \in SUBSET Contents,
         NEW s \in SUBSET Resolvers
  PROVE  LET u == Writer(t, l, s) IN
         /\ u \in RequestType /\ Phase(u)
         /\ u.at = "readback" /\ u.wrote = TRUE /\ u.lost = l /\ u.shown = s
         /\ u.m = t.m /\ u.raced = t.raced /\ u.checks = t.checks /\ u.outcome = t.outcome
         /\ u.plan = t.plan /\ u.verified = t.verified /\ u.first = t.first /\ u.earlier = t.earlier
<1> DEFINE u == Writer(t, l, s)
<1>1. /\ u \in RequestType
      /\ u.at = "readback" /\ u.wrote = TRUE /\ u.lost = l /\ u.shown = s
      /\ u.m = t.m /\ u.raced = t.raced /\ u.checks = t.checks /\ u.outcome = t.outcome
      /\ u.plan = t.plan /\ u.verified = t.verified /\ u.kind = t.kind /\ u.stale = t.stale
      /\ u.first = t.first /\ u.earlier = t.earlier
  BY DEF RequestType, Stages, Writer
<1> HIDE DEF u
<1>2. Phase(u)
  BY <1>1 DEF Phase
<1> QED BY <1>1, <1>2 DEF u

LEMMA ChangedRequests ==
  ASSUME ReqInv, NEW c
  PROVE  /\ ZoneChanged(req, c) \in [Requests -> RequestType]
         /\ \A q \in Requests :
              /\ Phase(ZoneChanged(req, c)[q])
              /\ q = c \/ req[q].at \notin {"paging", "write"} => ZoneChanged(req, c)[q] = req[q]
              /\ q # c /\ req[q].at = "paging" => ZoneChanged(req, c)[q] = [req[q] EXCEPT !.stale = TRUE]
              /\ q # c /\ req[q].at = "write" => ZoneChanged(req, c)[q] = [req[q] EXCEPT !.raced = TRUE]
<1>1. req \in [Requests -> RequestType] /\ \A q \in Requests : Phase(req[q])
  BY DEF ReqInv
<1> QED BY <1>1, ZoneChangedFacts

LEMMA WriteShape ==
  ASSUME ReqInv, ZoneType, NEW r \in Requests, Write(r), CanWrite(req[r].m, zone)
  PROVE  req' = [ZoneChanged(req, r) EXCEPT ![r] =
                   Writer(req[r], ValuesOf(zone) \ ValuesOf(AfterWrite(req[r].m, zone)),
                          { x \in Resolvers : Serves(x, req[r].m.value) })]
         /\ ValuesOf(zone) \subseteq Contents
<1>1. ZoneChanged(req, r)[r] = req[r]
  BY DEF ZoneChanged
<1>2. ValuesOf(zone) \subseteq Contents
  BY DEF ValuesOf, ZoneType, Record
<1> QED BY <1>1, <1>2 DEF Write, Writer

LEMMA WriteKeepsTypes ==
  ASSUME TypeInv, NEW r \in Requests, Write(r)
  PROVE  TypeInv'
<1>1. req[r] \in RequestType /\ Phase(req[r]) /\ req[r].at = "write"
      /\ \A a \in AfterWrite(req[r].m, zone) : a.id <= MaxIds
  BY DEF TypeInv, ReqInv, Write
<1>2. req[r].m \in Mutation /\ req[r].m.value \in TxtValues
  BY <1>1 DEF Phase, RequestType
<1>3. CASE CanWrite(req[r].m, zone)
  <2>1. zone' = AfterWrite(req[r].m, zone) /\ nextId' = NextIdAfter(zone')
    BY <1>3 DEF Write
  <2>2. ZoneType'
    <3>1. Acceptable(AfterWrite(req[r].m, zone))
      BY <1>3 DEF CanWrite
    <3> QED BY <1>1, <1>2, <2>1, <3>1, AfterWriteType DEF TypeInv
  <2>3. PICK l \in SUBSET Contents, s \in SUBSET Resolvers :
          req' = [ZoneChanged(req, r) EXCEPT ![r] = Writer(req[r], l, s)]
    BY <1>3, WriteShape DEF TypeInv
  <2>4. Writer(req[r], l, s) \in RequestType /\ Phase(Writer(req[r], l, s))
    BY <1>1, WriterFacts
  <2>5. ReqInv'
    BY <2>3, <2>4, ChangedRequests DEF TypeInv, ReqInv
  <2> QED BY <2>2, <2>5 DEF Write, TypeInv, SeenType, SnapsType, OtherType
<1>4. CASE ~CanWrite(req[r].m, zone)
  <2>1. req' = Finish(r, "failed") /\ UNCHANGED <<zone, nextId>>
    BY <1>4 DEF Write
  <2>2. ReqInv'
    BY <2>1, FinishType DEF TypeInv, ReqInv, Outcomes
  <2> QED BY <2>1, <2>2 DEF Write, TypeInv, ZoneType, SeenType, SnapsType, OtherType
<1> QED BY <1>3, <1>4

\* What becomes of a request whose write was read back.
LEMMA ConcludedFacts ==
  ASSUME TypeInv, NEW r \in Requests, NEW records \in SUBSET Record,
         req[r].at \in {"readback", "sync"}, req[r].wrote
  PROVE  /\ Concluded(r, records) \in [Requests -> RequestType]
         /\ \A q \in Requests : Phase(Concluded(r, records)[q])
         /\ \A q \in Requests : q # r => Concluded(r, records)[q] = req[q]
         /\ LET t == req[r]
                u == Concluded(r, records)[r] IN
              /\ u.m = t.m /\ u.raced = t.raced /\ u.wrote = t.wrote /\ u.lost = t.lost
              /\ u.shown = t.shown /\ u.checks = t.checks /\ u.earlier = {}
              /\ u.first = t.first \/ u.first = {}
              /\ \/ u.at = "resolve" /\ u.outcome = t.outcome /\ u.plan = t.plan
                 \/ u.at = "done" /\ u.outcome = "recorded" /\ (u.verified => ~Replaces(t.m.plan))
<1>1. req[r] \in RequestType /\ Phase(req[r])
  BY DEF TypeInv, ReqInv
<1>2. CASE Verified(req[r].m, records) /\ Replaces(req[r].plan)
  <2> DEFINE u == [req[r] EXCEPT !.at = "resolve", !.readback = records,
                                 !.stale = FALSE, !.twice = {}, !.earlier = {}]
  <2>1. Concluded(r, records) = [req EXCEPT ![r] = u]
    BY <1>2 DEF Concluded
  <2>2. /\ u \in RequestType /\ u.at = "resolve"
        /\ u.m = req[r].m /\ u.raced = req[r].raced /\ u.wrote = req[r].wrote /\ u.lost = req[r].lost
        /\ u.shown = req[r].shown /\ u.checks = req[r].checks /\ u.earlier = {}
        /\ u.outcome = req[r].outcome /\ u.plan = req[r].plan /\ u.first = req[r].first
    BY <1>1 DEF RequestType, Stages
  <2> HIDE DEF u
  <2>3. Phase(u)
    BY <1>1, <2>2 DEF Phase
  <2> QED BY <2>1, <2>2, <2>3 DEF TypeInv, ReqInv
<1>3. CASE ~(Verified(req[r].m, records) /\ Replaces(req[r].plan))
  <2> DEFINE f == Finish(r, "recorded")
             u == [f[r] EXCEPT !.verified = Verified(req[r].m, records)]
  <2>1. Concluded(r, records) = [f EXCEPT ![r] = u]
    BY <1>3 DEF Concluded
  <2>2. f \in [Requests -> RequestType] /\ \A q \in Requests : Phase(f[q])
    BY FinishType DEF TypeInv, ReqInv, Outcomes
  <2>3. /\ \A q \in Requests : q # r => f[q] = req[q]
        /\ f[r].at = "done" /\ f[r].outcome = "recorded"
        /\ f[r].m = req[r].m /\ f[r].raced = req[r].raced /\ f[r].wrote = req[r].wrote
        /\ f[r].lost = req[r].lost /\ f[r].shown = req[r].shown /\ f[r].earlier = {}
        /\ f[r].first = {} /\ f[r].checks = [x \in Resolvers |-> "asked"]
    BY FinishFacts DEF TypeInv, ReqInv, Outcomes, Kept
  <2>4. Verified(req[r].m, records) \in BOOLEAN
    BY DEF Verified
  <2>5. req[r].checks = [x \in Resolvers |-> "asked"] /\ req[r].m.plan = req[r].plan
    BY <1>1 DEF Phase
  <2> HIDE DEF f
  <2>5a. f[r] \in RequestType
    BY <2>2
  <2>6. /\ u \in RequestType /\ u.at = f[r].at /\ u.outcome = f[r].outcome
        /\ u.m = f[r].m /\ u.raced = f[r].raced /\ u.wrote = f[r].wrote /\ u.lost = f[r].lost
        /\ u.shown = f[r].shown /\ u.checks = f[r].checks /\ u.earlier = f[r].earlier
        /\ u.first = f[r].first /\ (u.verified <=> Verified(req[r].m, records))
    BY <2>4, <2>5a DEF RequestType
  <2> HIDE DEF u
  <2>7. Phase(u)
    BY <2>3, <2>6 DEF Phase
  <2>8. u.verified => ~Replaces(req[r].m.plan)
    BY <1>3, <2>5, <2>6
  <2> DEFINE c == Concluded(r, records)
  <2>9. c \in [Requests -> RequestType] /\ c[r] = u /\ \A q \in Requests : q # r => c[q] = req[q]
    BY <2>1, <2>2, <2>3, <2>6
  <2>10. \A q \in Requests : Phase(c[q])
    BY <2>7, <2>9 DEF TypeInv, ReqInv
  <2> HIDE DEF c
  <2> QED BY <2>3, <2>5, <2>6, <2>8, <2>9, <2>10 DEF c
<1> QED BY <1>2, <1>3

LEMMA ReadBackKeepsTypes ==
  ASSUME TypeInv, NEW r \in Requests, ReadBack(r)
  PROVE  TypeInv'
<1>1. req[r].at = "readback" /\ req[r].wrote /\ Txt(zone) \in SUBSET Record
  BY DEF TypeInv, ReqInv, Phase, ReadBack, Txt, ZoneType
<1>2. ReqInv'
  BY <1>1, ConcludedFacts DEF ReqInv, ReadBack
<1> QED BY <1>2 DEF ReadBack, TypeInv, ZoneType, SeenType, SnapsType, OtherType

\* The last page of a listing has come.
LEMMA ListFacts ==
  ASSUME TypeInv, NEW r \in Requests, List(r)
  PROVE  \E l \in Listings(r) :
           /\ ReqInv'
           /\ \A q \in Requests : q # r => req'[q] = req[q]
           /\ LET t == req[r]
                  u == req'[r] IN
                /\ t.at = "paging" /\ u.at = "sync" /\ u.first = {} /\ u.readback = l.records
                /\ u.twice = l.twice /\ u.stale = t.stale
                /\ u.earlier = { q \in Requests : req[q].at = "sync" }
                /\ u.m = t.m /\ u.raced = t.raced /\ u.wrote = t.wrote /\ u.lost = t.lost
                /\ u.shown = t.shown /\ u.checks = t.checks /\ u.outcome = t.outcome
<1>0. PICK l \in Listings(r) :
        req' = [req EXCEPT ![r] = [@ EXCEPT !.at = "sync", !.first = {},
                                            !.earlier = { q \in Requests : req[q].at = "sync" },
                                            !.readback = l.records, !.twice = l.twice]]
  BY DEF List
<1> DEFINE u == [req[r] EXCEPT !.at = "sync", !.first = {},
                               !.earlier = { q \in Requests : req[q].at = "sync" },
                               !.readback = l.records, !.twice = l.twice]
<1>1. /\ req[r] \in RequestType /\ Phase(req[r]) /\ req[r].at = "paging"
      /\ req[r].wrote \/ req[r].kind = "analyse"
  BY DEF TypeInv, ReqInv, List
<1>2. /\ l.records \in SUBSET Record /\ l.twice \in SUBSET (1..MaxIds)
      /\ ~req[r].stale => l.twice = {}
  BY ListingFacts
<1>3. req' = [req EXCEPT ![r] = u]
  BY <1>0
<1>4. /\ u \in RequestType /\ u.at = "sync" /\ u.kind = req[r].kind /\ u.first = {}
      /\ u.readback = l.records /\ u.twice = l.twice /\ u.stale = req[r].stale
      /\ u.earlier = { q \in Requests : req[q].at = "sync" }
      /\ u.plan = req[r].plan /\ u.m = req[r].m /\ u.wrote = req[r].wrote /\ u.checks = req[r].checks
      /\ u.raced = req[r].raced /\ u.lost = req[r].lost /\ u.shown = req[r].shown
      /\ u.outcome = req[r].outcome
  BY <1>1, <1>2 DEF RequestType, Stages
<1> HIDE DEF u
<1>5. Phase(u)
  BY <1>1, <1>2, <1>4 DEF Phase
<1>6. ReqInv' /\ req'[r] = u /\ \A q \in Requests : q # r => req'[q] = req[q]
  BY <1>3, <1>4, <1>5, OneRequest DEF TypeInv
<1> QED BY <1>1, <1>4, <1>6

LEMMA ListKeepsTypes ==
  ASSUME TypeInv, NEW r \in Requests, List(r)
  PROVE  TypeInv'
<1>1. ReqInv'
  BY ListFacts
<1> QED BY <1>1 DEF List, TypeInv, ZoneType, SeenType, SnapsType, OtherType

\* The listings taken earlier are stale once one taken later is processed.
LEMMA OvertakenFacts ==
  ASSUME ReqInv, NEW r \in Requests, NEW f \in [Requests -> RequestType],
         \A q \in Requests : Phase(f[q]), f[r].at # "sync",
         \A q \in Requests : q # r => f[q] = req[q]
  PROVE  LET g == Overtaken(f, r) IN
         /\ g \in [Requests -> RequestType] /\ g[r] = f[r]
         /\ \A q \in Requests :
              /\ Phase(g[q])
              /\ q # r => IF q \in req[r].earlier /\ req[q].at = "sync"
                          THEN g[q] = [req[q] EXCEPT !.stale = TRUE] ELSE g[q] = req[q]
<1> DEFINE g == Overtaken(f, r)
<1>1. ASSUME NEW q \in Requests
      PROVE  g[q] = IF q \in req[r].earlier /\ f[q].at = "sync"
                    THEN [f[q] EXCEPT !.stale = TRUE] ELSE f[q]
  BY DEF Overtaken
<1>2. ASSUME NEW q \in Requests PROVE g[q] \in RequestType /\ Phase(g[q])
  <2>1. PICK t : t = f[q]
    OBVIOUS
  <2>2. t \in RequestType /\ Phase(t)
    BY <2>1
  <2>3. CASE q \in req[r].earlier /\ t.at = "sync"
    <3>1. g[q] = [t EXCEPT !.stale = TRUE]
      BY <1>1, <2>1, <2>3
    <3> HIDE DEF g
    <3> QED BY <2>2, <2>3, <3>1, StaleFacts
  <2>4. CASE ~(q \in req[r].earlier /\ t.at = "sync")
    BY <1>1, <2>1, <2>2, <2>4
  <2> QED BY <2>3, <2>4
<1>3. g \in [Requests -> RequestType]
  <2>1. g = [q \in Requests |-> g[q]]
    BY DEF Overtaken
  <2> QED BY <1>2, <2>1
<1> HIDE DEF g
<1> QED BY <1>1, <1>2, <1>3 DEF g

\* What a request becomes that has processed its listing.
LEMMA SyncFacts ==
  ASSUME TypeInv, NEW r \in Requests, Sync(r)
  PROVE  \E f :
           /\ f \in [Requests -> RequestType] /\ \A q \in Requests : Phase(f[q])
           /\ f[r].at # "sync" /\ \A q \in Requests : q # r => f[q] = req[q]
           /\ req' = Overtaken(f, r)
           /\ \/ f = Finish(r, "conflict")
              \/ f = Finish(r, "analysed")
              \/ /\ req[r].wrote /\ req[r].readback \in SUBSET Record
                 /\ f = Concluded(r, req[r].readback)
<1>1. req[r] \in RequestType /\ Phase(req[r]) /\ req[r].at = "sync"
  BY DEF TypeInv, ReqInv, Sync
<1>2. PICK f :
        /\ req' = Overtaken(f, r)
        /\ \/ f = Finish(r, "conflict")
           \/ f = Finish(r, "analysed")
           \/ req[r].kind # "analyse" /\ f = Concluded(r, req[r].readback)
  BY DEF Sync
<1>3. CASE f = Finish(r, "conflict") \/ f = Finish(r, "analysed")
  <2>1. f[r].at # "sync"
    BY <1>3, FinishFacts DEF TypeInv, ReqInv, Outcomes
  <2>2. /\ f \in [Requests -> RequestType] /\ \A q \in Requests : Phase(f[q])
        /\ \A q \in Requests : q # r => f[q] = req[q]
    BY <1>3, FinishType, FinishFacts DEF TypeInv, ReqInv, Outcomes
  <2> QED BY <1>2, <1>3, <2>1, <2>2
<1>4. CASE req[r].kind # "analyse" /\ f = Concluded(r, req[r].readback)
  <2>1. req[r].wrote /\ req[r].readback \in SUBSET Record
    BY <1>1, <1>4 DEF Phase, RequestType
  <2>2. /\ f \in [Requests -> RequestType] /\ \A q \in Requests : Phase(f[q])
        /\ \A q \in Requests : q # r => f[q] = req[q]
        /\ f[r].at # "sync"
    BY <1>1, <1>4, <2>1, ConcludedFacts
  <2> QED BY <1>2, <1>4, <2>1, <2>2
<1> QED BY <1>2, <1>3, <1>4

LEMMA SyncKeepsTypes ==
  ASSUME TypeInv, NEW r \in Requests, Sync(r)
  PROVE  TypeInv'
<1> DEFINE keys == Keys(req[r].readback)
<1>1. req[r] \in RequestType /\ req[r].stale \in BOOLEAN
  BY DEF TypeInv, ReqInv, RequestType
<1>2. keys \subseteq 1..MaxIds
  BY <1>1 DEF RequestType, Keys, KeyOf, Record
<1>3. SnapsType'
  <2>1. CASE Returns(keys) \/ ~(req[r].twice \subseteq snaps.active)
    <3>1. snaps' = [snaps EXCEPT !.disorder = @ \/ req[r].stale]
      BY <2>1 DEF Sync
    <3> QED BY <1>1, <3>1 DEF TypeInv, SnapsType
  <2>2. CASE ~(Returns(keys) \/ ~(req[r].twice \subseteq snaps.active))
    <3>1. snaps' = [active |-> keys, removed |-> snaps.removed \cup (snaps.active \ keys),
                    disorder |-> snaps.disorder \/ req[r].stale]
      BY <2>2 DEF Sync
    <3>2. keys \cap snaps.removed = {}
      BY <2>2 DEF Returns
    <3> HIDE DEF keys
    <3> QED BY <1>1, <1>2, <3>1, <3>2 DEF TypeInv, SnapsType
  <2> QED BY <2>1, <2>2
<1>4. ReqInv'
  <2>1. PICK f :
          /\ f \in [Requests -> RequestType] /\ \A q \in Requests : Phase(f[q])
          /\ f[r].at # "sync" /\ \A q \in Requests : q # r => f[q] = req[q]
          /\ req' = Overtaken(f, r)
    BY SyncFacts
  <2>2. ReqInv
    BY DEF TypeInv
  <2>3. req' \in [Requests -> RequestType] /\ \A q \in Requests : Phase(req'[q])
    BY <2>1, <2>2, OvertakenFacts
  <2> QED BY <2>3 DEF ReqInv
<1> QED BY <1>3, <1>4 DEF Sync, TypeInv, ZoneType, SeenType, OtherType

\* What the request becomes that a resolver answers.
LEMMA AnsweredFacts ==
  ASSUME TypeInv, NEW r \in Requests, NEW x \in Resolvers, AskResolver(r, x)
  PROVE  \E answer \in {"failed", "value", "agrees"} :
           LET t == req[r]
               u == req'[r] IN
           /\ req' \in [Requests -> RequestType]
           /\ \A q \in Requests : q # r => req'[q] = req[q]
           /\ Phase(u) /\ u.checks = [t.checks EXCEPT ![x] = answer]
           /\ u.at = t.at /\ u.m = t.m /\ u.raced = t.raced /\ u.wrote = t.wrote /\ u.lost = t.lost
           /\ u.shown = t.shown /\ u.outcome = t.outcome
           /\ answer = "value" => Serves(x, t.m.value)
           /\ answer = "agrees" => t.checks[x] = "value"
<1>1. req[r] \in RequestType /\ Phase(req[r]) /\ req[r].at = "resolve"
  BY DEF TypeInv, ReqInv, AskResolver
<1>2. PICK answer \in {"failed", "value", "agrees"} :
        /\ answer = "value" => Serves(x, req[r].m.value)
        /\ answer = "agrees" => req[r].checks[x] = "value"
        /\ req' = [req EXCEPT ![r].checks[x] = answer]
  BY DEF AskResolver
<1> DEFINE u == [req[r] EXCEPT !.checks = [req[r].checks EXCEPT ![x] = answer]]
<1>3. req' = [req EXCEPT ![r] = u]
  BY <1>2
<1>4. [req[r].checks EXCEPT ![x] = answer] \in [Resolvers -> {"asked", "value", "failed", "agrees"}]
  BY <1>1 DEF RequestType
<1>5. LET t == req[r] IN
      /\ u \in RequestType /\ u.checks = [t.checks EXCEPT ![x] = answer]
      /\ u.at = t.at /\ u.m = t.m /\ u.raced = t.raced /\ u.wrote = t.wrote /\ u.lost = t.lost
      /\ u.shown = t.shown /\ u.outcome = t.outcome /\ u.plan = t.plan
  BY <1>1, <1>4 DEF RequestType
<1> HIDE DEF u
<1>6. Phase(u)
  BY <1>1, <1>5 DEF Phase
<1>7. req' \in [Requests -> RequestType] /\ req'[r] = u /\ \A q \in Requests : q # r => req'[q] = req[q]
  BY <1>3, <1>5 DEF TypeInv, ReqInv
<1> QED BY <1>2, <1>5, <1>6, <1>7

LEMMA AskResolverKeepsTypes ==
  ASSUME TypeInv, NEW r \in Requests, NEW x \in Resolvers, AskResolver(r, x)
  PROVE  TypeInv'
<1>1. ReqInv'
  BY AnsweredFacts DEF TypeInv, ReqInv
<1> QED BY <1>1 DEF AskResolver, TypeInv, ZoneType, SeenType, SnapsType, OtherType

\* A request ends, and the record of it is completed.
LEMMA FinishedWith ==
  ASSUME TypeInv, NEW r \in Requests, NEW v \in BOOLEAN,
         req' = [Finish(r, "recorded") EXCEPT ![r].verified = v]
  PROVE  /\ ReqInv'
         /\ \A q \in Requests : q # r => req'[q] = req[q]
         /\ LET t == req[r]
                u == req'[r] IN
              /\ u.at = "done" /\ u.outcome = "recorded" /\ (u.verified <=> v)
              /\ u.m = t.m /\ u.raced = t.raced /\ u.wrote = t.wrote
              /\ u.lost = t.lost /\ u.shown = t.shown /\ u.first = {} /\ u.earlier = {}
<1> DEFINE f == Finish(r, "recorded")
           u == [f[r] EXCEPT !.verified = v]
<1>1. f \in [Requests -> RequestType] /\ \A q \in Requests : Phase(f[q])
  BY FinishType DEF TypeInv, Outcomes
<1>2. /\ \A q \in Requests : q # r => f[q] = req[q]
      /\ f[r].at = "done" /\ f[r].outcome = "recorded"
      /\ f[r].m = req[r].m /\ f[r].raced = req[r].raced /\ f[r].wrote = req[r].wrote
      /\ f[r].lost = req[r].lost /\ f[r].shown = req[r].shown
      /\ f[r].first = {} /\ f[r].earlier = {}
      /\ f[r].checks = [x \in Resolvers |-> "asked"]
  BY FinishFacts DEF TypeInv, ReqInv, Outcomes, Kept
<1>3. req' = [f EXCEPT ![r] = u]
  OBVIOUS
<1> HIDE DEF f
<1>4. f[r] \in RequestType
  BY <1>1
<1>5. /\ u \in RequestType /\ u.at = f[r].at /\ u.outcome = f[r].outcome
      /\ u.m = f[r].m /\ u.raced = f[r].raced /\ u.wrote = f[r].wrote /\ u.lost = f[r].lost
      /\ u.shown = f[r].shown /\ u.checks = f[r].checks /\ (u.verified <=> v)
      /\ u.first = f[r].first /\ u.earlier = f[r].earlier
  BY <1>4 DEF RequestType
<1> HIDE DEF u
<1>6. Phase(u)
  BY <1>2, <1>5 DEF Phase
<1>7. req' \in [Requests -> RequestType] /\ req'[r] = u /\ \A q \in Requests : q # r => req'[q] = f[q]
  BY <1>1, <1>3, <1>5
<1> QED BY <1>1, <1>2, <1>5, <1>6, <1>7 DEF ReqInv

LEMMA ResolversAnsweredKeepsTypes ==
  ASSUME TypeInv, NEW r \in Requests, ResolversAnswered(r)
  PROVE  TypeInv'
<1>1. Agreement(req[r].checks) \in BOOLEAN
  BY DEF Agreement
<1>2. ReqInv'
  BY <1>1, FinishedWith DEF ResolversAnswered
<1> QED BY <1>2 DEF ResolversAnswered, TypeInv, ZoneType, SeenType, SnapsType, OtherType

\* A write took effect, and its request ended all the same.
LEMMA LostAnswerFacts ==
  ASSUME TypeInv, NEW r \in Requests,
         req' = [ZoneChanged(Finish(r, "failed"), r) EXCEPT ![r].wrote = TRUE]
  PROVE  /\ ReqInv'
         /\ \A q \in Requests : q # r => req'[q] = ZoneChanged(req, r)[q]
         /\ LET u == req'[r] IN
              /\ u.at = "done" /\ u.outcome = "failed" /\ u.wrote = TRUE
              /\ u.first = {} /\ u.earlier = {}
<1> DEFINE f == Finish(r, "failed")
           g == ZoneChanged(f, r)
           u == [g[r] EXCEPT !.wrote = TRUE]
<1>1. f \in [Requests -> RequestType] /\ \A q \in Requests : Phase(f[q])
  BY FinishType DEF TypeInv, Outcomes
<1>2. /\ \A q \in Requests : q # r => f[q] = req[q]
      /\ f[r].at = "done" /\ f[r].outcome = "failed"
      /\ f[r].first = {} /\ f[r].earlier = {}
      /\ f[r].checks = [x \in Resolvers |-> "asked"]
  BY FinishFacts DEF TypeInv, ReqInv, Outcomes
<1>3. req' = [g EXCEPT ![r] = u]
  OBVIOUS
<1>4. \A q \in Requests : q # r => g[q] = ZoneChanged(req, r)[q]
  <2>1. \A q \in Requests : q # r => f[q] = req[q]
    BY <1>2
  <2> HIDE DEF f
  <2> QED BY <2>1 DEF ZoneChanged
<1>5. g \in [Requests -> RequestType] /\ (\A q \in Requests : Phase(g[q])) /\ g[r] = f[r]
  <2> HIDE DEF f
  <2>1. /\ ZoneChanged(f, r) \in [Requests -> RequestType]
        /\ \A q \in Requests :
             /\ Phase(ZoneChanged(f, r)[q])
             /\ q = r \/ f[q].at \notin {"paging", "write"} => ZoneChanged(f, r)[q] = f[q]
             /\ q # r /\ f[q].at = "paging" => ZoneChanged(f, r)[q] = [f[q] EXCEPT !.stale = TRUE]
             /\ q # r /\ f[q].at = "write" => ZoneChanged(f, r)[q] = [f[q] EXCEPT !.raced = TRUE]
    BY <1>1, ZoneChangedFacts
  <2> QED BY <2>1
<1> HIDE DEF f, g
<1>6. g[r] \in RequestType
  BY <1>5
<1>7. /\ u \in RequestType /\ u.at = g[r].at /\ u.outcome = g[r].outcome /\ u.wrote = TRUE
      /\ u.first = g[r].first /\ u.earlier = g[r].earlier /\ u.checks = g[r].checks
  BY <1>6 DEF RequestType
<1> HIDE DEF u
<1>8. Phase(u)
  BY <1>2, <1>5, <1>7 DEF Phase
<1>9. req' \in [Requests -> RequestType] /\ req'[r] = u /\ \A q \in Requests : q # r => req'[q] = g[q]
  BY <1>3, <1>5, <1>7
<1>10. \A q \in Requests : Phase(req'[q])
  BY <1>5, <1>8, <1>9
<1>11. ReqInv'
  BY <1>9, <1>10 DEF ReqInv
<1>12. \A q \in Requests : q # r => req'[q] = ZoneChanged(req, r)[q]
  BY <1>4, <1>9
<1>13. /\ req'[r].at = "done" /\ req'[r].outcome = "failed" /\ req'[r].wrote = TRUE
       /\ req'[r].first = {} /\ req'[r].earlier = {}
  <2>1. u.at = "done" /\ u.outcome = "failed" /\ u.wrote = TRUE /\ u.first = {} /\ u.earlier = {}
    BY <1>2, <1>5, <1>7
  <2>2. req'[r] = u
    BY <1>9
  <2> QED BY <2>1, <2>2
<1> QED BY <1>11, <1>12, <1>13

LEMMA ProviderFailsKeepsTypes ==
  ASSUME TypeInv, NEW r \in Requests, ProviderFails(r)
  PROVE  TypeInv'
<1>1. faults' \in 0..MaxFaults
  BY ChangeAssumption DEF ProviderFails, TypeInv, OtherType
<1>2. CASE req' = Finish(r, "failed") /\ UNCHANGED <<zone, nextId>>
  <2>1. ReqInv'
    BY <1>2, FinishType DEF TypeInv, ReqInv, Outcomes
  <2> QED BY <1>1, <1>2, <2>1 DEF ProviderFails, TypeInv, ZoneType, SeenType, SnapsType, OtherType
<1>3. CASE /\ req[r].at = "write" /\ CanWrite(req[r].m, zone)
           /\ zone' = AfterWrite(req[r].m, zone) /\ \A a \in zone' : a.id <= MaxIds
           /\ nextId' = NextIdAfter(zone')
           /\ req' = [ZoneChanged(Finish(r, "failed"), r) EXCEPT ![r].wrote = TRUE]
  <2>1. ReqInv'
    BY <1>3, LostAnswerFacts
  <2>2. req[r].m \in Mutation /\ req[r].m.value \in TxtValues
    BY <1>3 DEF TypeInv, ReqInv, Phase, RequestType
  <2>3. Acceptable(AfterWrite(req[r].m, zone))
    BY <1>3 DEF CanWrite
  <2>4. ZoneType'
    BY <1>3, <2>2, <2>3, AfterWriteType DEF TypeInv
  <2> QED BY <1>1, <2>1, <2>4 DEF ProviderFails, TypeInv, SeenType, SnapsType, OtherType
<1> QED BY <1>2, <1>3 DEF ProviderFails

LEMMA CrashFacts ==
  ASSUME TypeInv, Crash
  PROVE  /\ ReqInv'
         /\ \A q \in Requests :
              LET t == req[q]
                  u == req'[q] IN
              \/ u = t /\ t.at \in {"new", "done"}
              \/ u.at = "done" /\ u.outcome = "failed" /\ ~u.wrote /\ u.first = {} /\ u.earlier = {}
<1>1. ASSUME NEW q \in Requests
      PROVE  req'[q] = IF req[q].at \in {"new", "done"} THEN req[q] ELSE Finish(q, "failed")[q]
  BY DEF Crash
<1>2. ASSUME NEW q \in Requests
      PROVE  LET t == req[q]
                 u == req'[q] IN
             /\ u \in RequestType /\ Phase(u)
             /\ \/ u = t /\ t.at \in {"new", "done"}
                \/ u.at = "done" /\ u.outcome = "failed" /\ ~u.wrote /\ u.first = {} /\ u.earlier = {}
  <2>1. CASE req[q].at \in {"new", "done"}
    BY <1>1, <2>1 DEF TypeInv, ReqInv
  <2>2. CASE req[q].at \notin {"new", "done"}
    <3> DEFINE f == Finish(q, "failed")
    <3>1. req'[q] = f[q]
      BY <1>1, <2>2
    <3>2. f \in [Requests -> RequestType] /\ Phase(f[q])
      BY FinishType DEF TypeInv, Outcomes
    <3>3. f[q].at = "done" /\ f[q].outcome = "failed" /\ ~f[q].wrote /\ f[q].first = {} /\ f[q].earlier = {}
      BY FinishFacts DEF TypeInv, ReqInv, Outcomes, Kept
    <3> HIDE DEF f
    <3> QED BY <3>1, <3>2, <3>3
  <2> QED BY <2>1, <2>2
<1>3. req' \in [Requests -> RequestType]
  <2>1. req' = [q \in Requests |-> req'[q]]
    BY DEF Crash
  <2> QED BY <1>2, <2>1
<1> QED BY <1>2, <1>3 DEF ReqInv

LEMMA CrashKeepsTypes == TypeInv /\ Crash => TypeInv'
<1> SUFFICES ASSUME TypeInv, Crash PROVE TypeInv'
  OBVIOUS
<1>1. faults' \in 0..MaxFaults
  BY ChangeAssumption DEF Crash, TypeInv, OtherType
<1> QED BY <1>1, CrashFacts DEF Crash, TypeInv, ZoneType, SeenType, SnapsType, OtherType

LEMMA ForeignEditKeepsTypes == TypeInv /\ ForeignEdit => TypeInv'
<1> SUFFICES ASSUME TypeInv, ForeignEdit PROVE TypeInv'
  OBVIOUS
<1>0. MaxIds \in Nat /\ nextId \in 1..MaxIds + 1 /\ Starter \in TxtValues
  BY ChangeAssumption DEF TypeInv, ZoneType
<1>1. PICK r \in zone \cup {[id |-> nextId, type |-> "TXT", value |-> Starter]},
           new \in {{}} \cup { {[type |-> "TXT", value |-> v]} : v \in TxtValues }
                        \cup {{[type |-> "CNAME", value |-> Target]}} :
        /\ r.id <= MaxIds
        /\ zone' = (zone \ {r}) \cup { [id |-> r.id, type |-> a.type, value |-> a.value] : a \in new }
        /\ zone' # zone /\ Acceptable(zone')
        /\ nextId' = NextIdAfter(zone')
  BY DEF ForeignEdit
<1> DEFINE put == { [id |-> r.id, type |-> a.type, value |-> a.value] : a \in new }
<1>2. r.id \in 1..MaxIds /\ r.id <= nextId
  BY <1>0, <1>1 DEF TypeInv, ZoneType, Record
<1>3. put \subseteq Record /\ Sound(put) /\ \A a \in put : a.id = r.id
  <2>1. CASE new = {}
    BY <2>1, SoundSets
  <2>2. ASSUME NEW v \in TxtValues, new = {[type |-> "TXT", value |-> v]}
        PROVE  put \subseteq Record /\ Sound(put) /\ \A a \in put : a.id = r.id
    <3>1. put = {[id |-> r.id, type |-> "TXT", value |-> v]}
      BY <2>2
    <3> HIDE DEF put
    <3>2. Sound(put)
      BY <3>1, SoundSets
    <3> QED BY <1>2, <3>1, <3>2 DEF Record, Contents
  <2>3. CASE new = {[type |-> "CNAME", value |-> Target]}
    <3>1. put = {[id |-> r.id, type |-> "CNAME", value |-> Target]}
      BY <2>3
    <3> HIDE DEF put
    <3>2. Sound(put)
      BY <3>1, SoundSets
    <3> QED BY <1>2, <3>1, <3>2 DEF Record, Contents
  <2> QED BY <1>1, <2>1, <2>2, <2>3
<1> HIDE DEF put
<1>4. zone' = (zone \ {r}) \cup put
  BY <1>1 DEF put
<1>5. Sound(zone')
  <2>1. Sound(zone) /\ Sound(zone \ {r})
    BY SoundSets DEF TypeInv, ZoneType
  <2> QED BY <1>3, <1>4, <2>1, SoundSets
<1>6. /\ zone' \subseteq Record /\ nextId' \in 1..MaxIds + 1
      /\ \A a \in zone' : a.id < nextId'
  <2>1. \A a \in zone' : a \in Record /\ a.id <= nextId /\ a.id \in 1..MaxIds
    BY <1>0, <1>2, <1>3, <1>4 DEF TypeInv, ZoneType, Record
  <2>2. CASE \E a \in zone' : a.id = nextId
    <3>1. nextId' = nextId + 1 /\ nextId <= MaxIds
      BY <1>0, <1>1, <2>1, <2>2 DEF NextIdAfter
    <3> QED BY <1>0, <2>1, <3>1
  <2>3. CASE \A a \in zone' : a.id # nextId
    <3>1. nextId' = nextId
      BY <1>1, <2>3 DEF NextIdAfter
    <3> QED BY <1>0, <2>1, <2>3, <3>1
  <2> QED BY <2>2, <2>3
<1>7. Acceptable(zone')
  BY <1>1
<1>8. ZoneType'
  BY <1>5, <1>6, <1>7 DEF ZoneType
<1>9. ReqInv'
  BY ChangedRequests DEF ForeignEdit, TypeInv, ReqInv
<1>10. edits' \in 0..MaxEdits
  BY ChangeAssumption DEF ForeignEdit, TypeInv, OtherType
<1> QED BY <1>8, <1>9, <1>10 DEF ForeignEdit, TypeInv, SeenType, SnapsType, OtherType

\* Requests that are reading pages find out that they have shifted.
LEMMA EditElsewhereFacts ==
  ASSUME TypeInv, EditElsewhere
  PROVE  /\ ReqInv'
         /\ \A q \in Requests :
              IF req[q].at = "paging" THEN req'[q] = [req[q] EXCEPT !.stale = TRUE]
              ELSE req'[q] = req[q]
<1>1. ASSUME NEW q \in Requests
      PROVE  req'[q] = IF req[q].at = "paging" THEN [req[q] EXCEPT !.stale = TRUE] ELSE req[q]
  BY DEF EditElsewhere
<1>2. \A q \in Requests : req'[q] \in RequestType /\ Phase(req'[q])
  BY <1>1, StaleFacts DEF TypeInv, ReqInv
<1>3. req' \in [Requests -> RequestType]
  <2>1. req' = [q \in Requests |-> req'[q]]
    BY DEF EditElsewhere
  <2> QED BY <1>2, <2>1
<1> QED BY <1>1, <1>2, <1>3 DEF ReqInv

LEMMA EditElsewhereKeepsTypes == TypeInv /\ EditElsewhere => TypeInv'
<1> SUFFICES ASSUME TypeInv, EditElsewhere PROVE TypeInv'
  OBVIOUS
<1>1. edits' \in 0..MaxEdits
  BY ChangeAssumption DEF EditElsewhere, TypeInv, OtherType
<1> QED BY <1>1, EditElsewhereFacts DEF EditElsewhere, TypeInv, ZoneType, SeenType, SnapsType, OtherType

LEMMA RefreshEvidenceKeepsTypes == TypeInv /\ RefreshEvidence => TypeInv'
<1> SUFFICES ASSUME TypeInv, RefreshEvidence PROVE TypeInv'
  OBVIOUS
<1>1. Sound(Published(zone)) /\ Published(zone) \subseteq Answer
  BY SoundPublished DEF TypeInv, ZoneType
<1> QED BY <1>1 DEF RefreshEvidence, TypeInv, ZoneType, SeenType, SnapsType, OtherType, ReqInv

LEMMA ProveOwnershipKeepsTypes == TypeInv /\ ProveOwnership => TypeInv'
BY DEF ProveOwnership, TypeInv, ZoneType, SeenType, SnapsType, OtherType, ReqInv

\* What the requests become when a resolver asks the zone.
LEMMA PropagateFacts ==
  ASSUME TypeInv, NEW x \in Resolvers, Propagate(x)
  PROVE  /\ ReqInv'
         /\ \A q \in Requests :
              LET t == req[q]
                  u == req'[q]
                  seen == /\ t.at # "done" /\ t.wrote
                          /\ [type |-> "TXT", value |-> t.m.value] \in public'[x] IN
              /\ ~seen => u = t
              /\ seen => /\ u.shown = t.shown \cup {x} /\ u.at = t.at /\ u.m = t.m
                         /\ u.raced = t.raced /\ u.wrote = t.wrote /\ u.lost = t.lost
                         /\ u.checks = t.checks /\ u.outcome = t.outcome
<1> DEFINE seen(t) == t.at # "done" /\ t.wrote /\ [type |-> "TXT", value |-> t.m.value] \in public'[x]
<1>1. ASSUME NEW t \in RequestType, Phase(t), NEW u, u = [t EXCEPT !.shown = t.shown \cup {x}]
      PROVE  /\ u \in RequestType /\ Phase(u)
             /\ u.shown = t.shown \cup {x} /\ u.at = t.at /\ u.m = t.m
             /\ u.raced = t.raced /\ u.wrote = t.wrote /\ u.lost = t.lost
             /\ u.checks = t.checks /\ u.outcome = t.outcome
  <2>1. /\ u \in RequestType
        /\ u.shown = t.shown \cup {x} /\ u.at = t.at /\ u.m = t.m
        /\ u.raced = t.raced /\ u.wrote = t.wrote /\ u.lost = t.lost
        /\ u.checks = t.checks /\ u.outcome = t.outcome /\ u.plan = t.plan /\ u.kind = t.kind
    BY <1>1 DEF RequestType
  <2>2. Phase(u)
    BY <1>1, <2>1 DEF Phase
  <2> QED BY <2>1, <2>2
<1>2. ASSUME NEW q \in Requests
      PROVE  req'[q] = IF seen(req[q]) THEN [req[q] EXCEPT !.shown = req[q].shown \cup {x}] ELSE req[q]
  BY DEF Propagate
<1>3. ASSUME NEW q \in Requests
      PROVE  LET t == req[q]
                 u == req'[q] IN
             /\ u \in RequestType /\ Phase(u)
             /\ ~seen(t) => u = t
             /\ seen(t) => /\ u.shown = t.shown \cup {x} /\ u.at = t.at /\ u.m = t.m
                           /\ u.raced = t.raced /\ u.wrote = t.wrote /\ u.lost = t.lost
                           /\ u.checks = t.checks /\ u.outcome = t.outcome
  <2>1. req[q] \in RequestType /\ Phase(req[q])
    BY DEF TypeInv, ReqInv
  <2> HIDE DEF seen
  <2>2. CASE seen(req[q])
    BY <1>1, <1>2, <2>1, <2>2
  <2>3. CASE ~seen(req[q])
    BY <1>2, <2>1, <2>3
  <2> QED BY <2>2, <2>3
<1>4. req' \in [Requests -> RequestType]
  <2>1. req' = [q \in Requests |-> req'[q]]
    BY DEF Propagate
  <2> QED BY <1>3, <2>1
<1> QED BY <1>3, <1>4 DEF ReqInv, Serves

LEMMA PropagateKeepsTypes ==
  ASSUME TypeInv, NEW x \in Resolvers, Propagate(x)
  PROVE  TypeInv'
<1>1. public' \in [Resolvers -> SUBSET Answer]
  BY SoundPublished DEF Propagate, TypeInv, SeenType, ZoneType
<1> QED BY <1>1, PropagateFacts DEF Propagate, TypeInv, ZoneType, SeenType, SnapsType, OtherType

\* Every step keeps the types.
LEMMA TypeStep == TypeInv /\ [Next]_vars => TypeInv'
<1> SUFFICES ASSUME TypeInv, [Next]_vars PROVE TypeInv'
  OBVIOUS
<1>1. Previews \cup {NoMutation} \subseteq Mutation
  BY NewTypes DEF Previews, TypeInv, ReqInv, RequestType
<1>2. CASE UNCHANGED vars
  BY <1>2 DEF vars, TypeInv, ZoneType, SeenType, SnapsType, OtherType, ReqInv
<1>3. ASSUME NEW r \in Requests,
             \/ Plan(r, "preview", NoMutation)
             \/ \E expect \in Previews \cup {NoMutation} : Plan(r, "apply", expect)
      PROVE  TypeInv'
  BY <1>1, <1>3, PlanKeepsTypes
<1>4. ASSUME NEW r \in Requests,
             \/ BeginListing(r) \/ Preview(r) \/ PrepareWrite(r) \/ Write(r)
             \/ ReadBack(r) \/ List(r) \/ Sync(r)
      PROVE  TypeInv'
  BY <1>4, BeginListingKeepsTypes, PreviewKeepsTypes, PrepareWriteKeepsTypes, WriteKeepsTypes, ReadBackKeepsTypes,
     ListKeepsTypes, SyncKeepsTypes
<1>5. ASSUME NEW r \in Requests,
             (\E x \in Resolvers : AskResolver(r, x)) \/ ResolversAnswered(r) \/ ProviderFails(r)
      PROVE  TypeInv'
  BY <1>5, AskResolverKeepsTypes, ResolversAnsweredKeepsTypes, ProviderFailsKeepsTypes
<1>6. CASE Crash \/ ForeignEdit \/ EditElsewhere \/ RefreshEvidence \/ ProveOwnership
  BY <1>6, CrashKeepsTypes, ForeignEditKeepsTypes, EditElsewhereKeepsTypes, RefreshEvidenceKeepsTypes, ProveOwnershipKeepsTypes
<1>7. CASE \E x \in Resolvers : Propagate(x)
  BY <1>7, PropagateKeepsTypes
<1> QED BY <1>2, <1>3, <1>4, <1>5, <1>6, <1>7 DEF Next

LEMMA TypeInvariant == Spec => []TypeInv
BY InitType, TypeStep, PTL DEF Spec

\* Types, an acceptable zone, and no record both present and removed in the
\* history.
THEOREM TypeCorrect == Spec => []TypeOK
BY TypeInvariant, TypeInvImpliesTypeOK, PTL

-----------------------------------------------------------------------------
(***************************************************************************)
(* What a write removes                                                    *)
(***************************************************************************)
\* A zone that a change applies to has at most one record at the name, which
\* is the record the change was prepared from, and is left with one.
LEMMA AppliesTo ==
  ASSUME ZoneType, OtherType, NEW plan \in Plans, plan.from \in {"TXT", "CNAME"}, NEW m,
         ~Blocked(plan, [records |-> zone, twice |-> {}]), m = Prepared(plan, zone), m.op # "noop", CanWrite(m, zone)
  PROVE  /\ m.current = ValuesOf(zone)
         /\ ValuesOf(zone) \ ValuesOf(AfterWrite(m, zone)) = m.current \ {m.value}
         /\ Cardinality(AfterWrite(m, zone)) <= 1
<1> DEFINE matches == Matches(plan, zone)
           after == AfterWrite(m, zone)
           new == [id |-> nextId, type |-> "TXT", value |-> m.value]
<1>1. matches \subseteq zone /\ IsFiniteSet(matches)
  <2>1. matches \subseteq zone
    BY DEF Matches, Txt
  <2> QED BY <2>1, FS_Subset DEF ZoneType, Sound
<1>2. Cardinality(matches) <= 1
  BY <1>1, FS_CardinalityType DEF Blocked
<1>3. matches = {} \/ \E a : matches = {a}
  <2>1. Cardinality(matches) \in Nat
    BY <1>1, FS_CardinalityType
  <2>2. Cardinality(matches) = 0 \/ Cardinality(matches) = 1
    BY <1>2, <2>1
  <2> QED BY <1>1, <2>2, FS_EmptySet, FS_Singleton
<1>4. connector # "lexicon" => zone = matches
  BY DEF Blocked, Matches
<1>5. connector = "lexicon" =>
        ~Replaces(plan) /\ plan.from = "TXT" /\ matches = { a \in zone : a.type = "TXT" }
  BY DEF Blocked, Replaces, Matches
<1>6. m.current = ValuesOf(matches) /\ m.value = plan.value /\ m.op = Operation(plan, ValuesOf(matches))
      /\ (matches # {} /\ connector \in {"cloudflare", "lexicon"} => m.id = (CHOOSE a \in matches : TRUE).id)
  BY DEF Prepared
<1>7. connector \in {"cloudflare", "lexicon"} /\ m.op = "update" => \E a \in zone : a.id = m.id
  BY DEF CanWrite
<1>8. Acceptable(zone) /\ Acceptable(after) /\ zone \subseteq Record
  BY DEF ZoneType, CanWrite
<1>9. CASE matches = {}
  <2>1. m.op = "create" /\ m.current = {}
    BY <1>6, <1>9 DEF Operation, ValuesOf
  <2>2. (new \in after /\ zone \subseteq after) \/ zone = {}
    BY <2>1, <1>4, <1>5, <1>9 DEF AfterWrite, Upserts, SetsRecords
  <2>3. zone = {}
    <3>1. SUFFICES ASSUME zone # {} PROVE FALSE
      OBVIOUS
    <3>2. PICK a \in zone : TRUE
      BY <3>1
    <3>3. a.type = "CNAME" /\ a # new
      BY <1>4, <1>5, <1>8, <1>9, <3>1 DEF Record
    <3> HIDE DEF after, new
    <3> QED BY <1>8, <2>2, <3>1, <3>3 DEF Acceptable
  <2>4. after = {new}
    <3>1. Txt(zone) = {} /\ zone \ Txt(zone) = {}
      BY <2>3 DEF Txt
    <3>2. /\ Upserts \/ SetsRecords(m) => after = {} \cup {new}
          /\ ~(Upserts \/ SetsRecords(m)) => after = {} \cup {new}
      BY <2>1, <2>3, <3>1 DEF AfterWrite
    <3> HIDE DEF after, new
    <3> QED BY <3>2
  <2>5. Cardinality(after) = 1
    BY <2>4, FS_Singleton
  <2>6. ValuesOf(zone) = {}
    BY <2>3 DEF ValuesOf
  <2> QED BY <2>1, <2>5, <2>6
<1>10. ASSUME NEW a, matches = {a} PROVE zone = {a}
  <2>1. CASE connector = "lexicon"
    <3>1. \A b \in zone : b # a => b.type = "TXT"
      BY <1>1, <1>8, <1>10 DEF Acceptable
    <3> QED BY <1>1, <1>5, <1>10, <2>1, <3>1
  <2> QED BY <1>4, <1>10, <2>1
<1>11. ASSUME NEW a, matches = {a}, zone = {a}
       PROVE  \E b : after = {b} /\ b.value = m.value
  <2>1. ValuesOf(matches) = {a.value}
    BY <1>11 DEF ValuesOf
  <2>2. m.op = "update"
    BY <1>6, <2>1 DEF Operation
  <2>3. a.type = "TXT" \/ (connector = "cloudflare" /\ Replaces(plan))
    BY <1>4, <1>5, <1>11 DEF Blocked, Matches, Txt
  <2>4. connector \in {"cloudflare", "lexicon", "route53", "hetzner"}
    BY ConnectorKnown
  <2>5. CASE connector \in {"route53", "hetzner"}
    <3> DEFINE set == [new EXCEPT !.id = (CHOOSE b \in Txt(zone) : TRUE).id]
    <3>1. Txt(zone) = zone /\ zone # {}
      BY <1>11, <2>3, <2>5 DEF Txt
    <3>2. after = (zone \ Txt(zone)) \cup {set}
      BY <2>2, <2>5, <3>1 DEF AfterWrite, Upserts, SetsRecords
    <3>3. after = {set}
      <4> HIDE DEF after, set
      <4> QED BY <3>1, <3>2
    <3>4. set.value = m.value
      OBVIOUS
    <3> HIDE DEF after, set
    <3> QED BY <3>3, <3>4
  <2>6. CASE connector \in {"cloudflare", "lexicon"}
    <3>1. after = { IF b.id = m.id THEN [new EXCEPT !.id = m.id] ELSE b : b \in zone }
      BY <2>2, <2>6 DEF AfterWrite, Upserts, SetsRecords
    <3>2. a.id = m.id
      BY <1>7, <1>11, <2>2, <2>6
    <3>3. after = {[new EXCEPT !.id = m.id]}
      BY <1>11, <3>1, <3>2
    <3> QED BY <3>3
  <2> QED BY <2>4, <2>5, <2>6
<1>12. ASSUME NEW a, matches = {a}, zone = {a}
       PROVE  /\ m.current = ValuesOf(zone)
              /\ ValuesOf(zone) \ ValuesOf(after) = m.current \ {m.value}
              /\ Cardinality(after) <= 1
  <2>1. PICK b : after = {b} /\ b.value = m.value
    BY <1>11, <1>12
  <2>2. Cardinality(after) = 1
    BY <2>1, FS_Singleton
  <2> HIDE DEF after
  <2>3. ValuesOf(after) = {m.value}
    BY <2>1 DEF ValuesOf
  <2>4. m.current = ValuesOf(zone)
    BY <1>6, <1>12
  <2> QED BY <2>2, <2>3, <2>4
<1> QED BY <1>3, <1>9, <1>10, <1>12

-----------------------------------------------------------------------------
(***************************************************************************)
(* What the requests know                                                  *)
(***************************************************************************)
\* As long as nobody else writes, a request about to write knows the zone.
ListedInv(t) ==
  t.at = "write" /\ ~t.raced =>
    /\ ~Blocked(t.plan, [records |-> zone, twice |-> {}])
    /\ t.m = Prepared(t.plan, zone) /\ AsReviewed(t.m, t.expect)

LostInv(t) ==
  t.wrote /\ ~t.raced /\ t.outcome # "failed" => t.lost = t.m.current \ {t.m.value}

\* Who serves the new record, or has been heard to, has shown it.
ShownInv(t) ==
  t.wrote /\ t.at # "done" =>
    \A x \in Resolvers : Serves(x, t.m.value) \/ t.checks[x] \in {"value", "agrees"} => x \in t.shown

EndInv(t) ==
  /\ t.at # "done" => t.outcome = None
  /\ t.outcome = "recorded" /\ t.wrote /\ t.verified /\ Replaces(t.m.plan) => t.shown = Resolvers

History(t) == ListedInv(t) /\ LostInv(t) /\ ShownInv(t) /\ EndInv(t)
HistInv == \A r \in Requests : History(req[r])

LEMMA HistInvImplies == HistInv => RollbackRestores /\ MigrationIsPublic
BY DEF HistInv, History, LostInv, EndInv, RollbackRestores, MigrationIsPublic

\* A request that the step leaves alone.
LEMMA KeptHistory ==
  ASSUME NEW t, History(t), UNCHANGED <<connector, public>>,
         UNCHANGED zone \/ t.at # "write"
  PROVE  History(t)'
<1>1. ListedInv(t)'
  <2>1. CASE UNCHANGED zone
    BY <2>1 DEF History, ListedInv, Blocked, BaselineDiffers, Matches, Prepared, Txt
  <2>2. CASE t.at # "write"
    BY <2>2 DEF ListedInv
  <2> QED BY <2>1, <2>2
<1> QED BY <1>1 DEF History, LostInv, ShownInv, EndInv, Serves

\* A request that has written nothing, and is not about to.
LEMMA QuietHistory ==
  ASSUME NEW t, ~t.wrote, t.at # "write", t.at # "done" => t.outcome = None
  PROVE  History(t)'
BY DEF History, ListedInv, LostInv, ShownInv, EndInv

\* A request that has moved on, t before and u after the step.
LEMMA MovedHistory ==
  ASSUME NEW t, NEW u, History(t), UNCHANGED public, t.at # "done", u.at \notin {"write", "done"},
         u.wrote = t.wrote, u.raced = t.raced, u.lost = t.lost, u.m = t.m, u.shown = t.shown,
         u.checks = t.checks, u.outcome = t.outcome
  PROVE  History(u)'
<1>1. u.outcome = None
  BY DEF History, EndInv
<1> QED BY <1>1 DEF History, ListedInv, LostInv, ShownInv, EndInv, Serves, None

\* A request that has ended.
LEMMA EndedHistory ==
  ASSUME NEW t, t.at = "done", LostInv(t),
         t.outcome = "recorded" /\ t.wrote /\ t.verified /\ Replaces(t.m.plan) => t.shown = Resolvers
  PROVE  History(t)'
BY DEF History, ListedInv, LostInv, ShownInv, EndInv

\* One request moves on, the zone and the resolvers as they are.
LEMMA OneHistory ==
  ASSUME HistInv, UNCHANGED <<connector, public, zone>>, NEW r \in Requests,
         \A q \in Requests : q # r => req'[q] = req[q], History(req[r])'
  PROVE  HistInv'
<1>1. ASSUME NEW q \in Requests, q # r PROVE History(req[q])'
  <2>1. PICK t : t = req[q]
    OBVIOUS
  <2>2. History(t)'
    BY <2>1, KeptHistory DEF HistInv
  <2> QED BY <1>1, <2>1, <2>2
<1> QED BY <1>1 DEF HistInv

\* A request whose listing becomes stale.
LEMMA StaleHistory ==
  ASSUME NEW t \in RequestType, Phase(t), History(t), UNCHANGED public, t.at \in {"paging", "sync"},
         NEW u, u = [t EXCEPT !.stale = TRUE]
  PROVE  History(u)' /\ u.wrote = t.wrote
<1>1. /\ u.at = t.at /\ u.wrote = t.wrote /\ u.raced = t.raced /\ u.lost = t.lost /\ u.m = t.m
      /\ u.shown = t.shown /\ u.checks = t.checks /\ u.outcome = t.outcome
  BY StaleFacts
<1>2. History(u)'
  BY <1>1, MovedHistory
<1> QED BY <1>1, <1>2

\* The zone changes under the requests.
LEMMA RacedHistory ==
  ASSUME TypeInv, HistInv, UNCHANGED <<connector, public>>, NEW c,
         NEW q \in Requests, q # c, req'[q] = ZoneChanged(req, c)[q]
  PROVE  History(req[q])' /\ (req'[q].wrote => req[q].wrote)
<1>1. PICK t : t = req[q]
  OBVIOUS
<1>2. t \in RequestType /\ Phase(t) /\ History(t)
  BY <1>1 DEF TypeInv, ReqInv, HistInv
<1>3. CASE t.at \notin {"paging", "write"}
  <2>1. req'[q] = t
    BY <1>1, <1>3, ChangedRequests DEF TypeInv
  <2>2. History(t)'
    BY <1>2, <1>3, KeptHistory
  <2> QED BY <1>1, <2>1, <2>2
<1>3a. CASE t.at = "paging"
  <2>1. PICK u : u = [t EXCEPT !.stale = TRUE]
    OBVIOUS
  <2>2. req'[q] = u
    BY <1>1, <1>3a, <2>1, ChangedRequests DEF TypeInv
  <2>3. History(u)' /\ u.wrote = t.wrote
    BY <1>2, <1>3a, <2>1, StaleHistory
  <2> QED BY <1>1, <2>2, <2>3
<1>4. CASE t.at = "write"
  <2>1. PICK u : u = [t EXCEPT !.raced = TRUE]
    OBVIOUS
  <2>2. req'[q] = u
    BY <1>1, <1>4, <2>1, ChangedRequests DEF TypeInv
  <2>3. u.raced /\ u.at = "write" /\ u.outcome = t.outcome /\ u.wrote = t.wrote
    BY <1>2, <1>4, <2>1 DEF RequestType
  <2>4. ~u.wrote /\ u.outcome = None
    BY <1>2, <1>4, <2>3 DEF Phase, History, EndInv
  <2>5. History(u)'
    BY <2>3, <2>4 DEF History, ListedInv, LostInv, ShownInv, EndInv
  <2> QED BY <1>1, <2>2, <2>3, <2>5
<1> QED BY <1>3, <1>3a, <1>4

LEMMA InitHistory == Init => HistInv
BY DEF Init, HistInv, History, ListedInv, LostInv, ShownInv, EndInv, NewRequest

-----------------------------------------------------------------------------
\* No request's write takes effect.
NoneWritten == \A r \in Requests : req'[r].wrote => req[r].wrote

LEMMA PlanKeepsHistory ==
  ASSUME TypeInv, HistInv, NEW r \in Requests, NEW kind, NEW expect, Plan(r, kind, expect)
  PROVE  HistInv' /\ NoneWritten
<1>1. req[r] \in RequestType /\ ~req[r].wrote /\ req[r].outcome = None
  BY DEF TypeInv, ReqInv, Phase, Plan, HistInv, History, EndInv
<1>2. PICK u : u = req'[r]
  OBVIOUS
<1>3. u.at = "list" /\ u.wrote = req[r].wrote /\ u.outcome = req[r].outcome
  BY <1>1, <1>2 DEF Plan, TypeInv, ReqInv, RequestType
<1>4. \A q \in Requests : q # r => req'[q] = req[q]
  BY DEF Plan, TypeInv, ReqInv
<1>5. History(u)'
  BY <1>1, <1>3, QuietHistory
<1>6. History(req[r])'
  BY <1>2, <1>5
<1>7. HistInv'
  BY <1>4, <1>6, OneHistory DEF Plan
<1> QED BY <1>1, <1>2, <1>3, <1>4, <1>7 DEF NoneWritten

\* A request ends, and nothing is recorded of it.
LEMMA FinishHistory ==
  ASSUME TypeInv, HistInv, NEW r \in Requests, NEW o \in Outcomes \ {"previewed", "recorded"},
         UNCHANGED <<connector, public, zone>>, NEW u, u = Finish(r, o)[r]
  PROVE  History(u)' /\ ~u.wrote
<1>1. u.at = "done" /\ u.outcome = o /\ ~u.wrote
  BY FinishFacts DEF TypeInv, ReqInv, Kept
<1> QED BY <1>1, QuietHistory

LEMMA FinishKeepsHistory ==
  ASSUME TypeInv, HistInv, NEW r \in Requests, NEW o \in Outcomes \ {"previewed", "recorded"},
         req' = Finish(r, o), UNCHANGED <<connector, public, zone>>
  PROVE  HistInv' /\ NoneWritten
<1>1. PICK u : u = req'[r]
  OBVIOUS
<1>2. History(u)' /\ ~u.wrote
  BY <1>1, FinishHistory
<1>3. \A q \in Requests : q # r => req'[q] = req[q]
  BY FinishFacts DEF TypeInv, ReqInv
<1>4. History(req[r])'
  BY <1>1, <1>2
<1>5. HistInv'
  BY <1>3, <1>4, OneHistory
<1> QED BY <1>1, <1>2, <1>3, <1>5 DEF NoneWritten

\* A request starts to list the records.
LEMMA BeginListingKeepsHistory ==
  ASSUME TypeInv, HistInv, NEW r \in Requests, BeginListing(r)
  PROVE  HistInv' /\ NoneWritten
<1>1. PICK t, u : t = req[r] /\ u = req'[r]
  OBVIOUS
<1>2. /\ \A q \in Requests : q # r => req'[q] = req[q]
      /\ t.at \in {"new", "list", "readback"} /\ u.at = "paging"
      /\ u.m = t.m /\ u.raced = t.raced /\ u.wrote = t.wrote /\ u.lost = t.lost
      /\ u.shown = t.shown /\ u.checks = t.checks /\ u.outcome = t.outcome
  BY <1>1, BeginListingFacts
<1>3. UNCHANGED <<connector, public, zone>>
  BY DEF BeginListing
<1>4. History(t)
  BY <1>1 DEF HistInv
<1>5. History(u)'
  BY <1>2, <1>3, <1>4, MovedHistory
<1>6. History(req[r])'
  BY <1>1, <1>5
<1>7. HistInv'
  BY <1>2, <1>3, <1>6, OneHistory
<1> QED BY <1>1, <1>2, <1>7 DEF NoneWritten

LEMMA PreviewKeepsHistory ==
  ASSUME TypeInv, HistInv, NEW r \in Requests, Preview(r)
  PROVE  HistInv' /\ NoneWritten
<1>0. PICK l \in Listings(r) :
        req' = IF Blocked(req[r].plan, l) THEN Finish(r, "refused")
               ELSE [Finish(r, "previewed") EXCEPT ![r].m = Prepared(req[r].plan, l.records)]
  BY DEF Preview
<1>1. ~req[r].wrote /\ UNCHANGED <<connector, public, zone>>
  BY DEF Preview, Listed
<1>2. CASE req' = Finish(r, "refused")
  BY <1>1, <1>2, FinishKeepsHistory DEF Outcomes
<1>3. CASE req' = [Finish(r, "previewed") EXCEPT ![r].m = Prepared(req[r].plan, l.records)]
  <2>1. PICK f, m, u :
          f = Finish(r, "previewed") /\ m = Prepared(req[r].plan, l.records) /\ u = req'[r]
    OBVIOUS
  <2>2. /\ f \in [Requests -> RequestType] /\ f[r].at = "done" /\ ~f[r].wrote
        /\ \A q \in Requests : q # r => f[q] = req[q]
    BY <1>1, <2>1, FinishFacts DEF TypeInv, ReqInv, Outcomes, Kept
  <2>3. f[r] \in RequestType
    BY <2>2
  <2>4. req' = [f EXCEPT ![r].m = m]
    BY <1>3, <2>1
  <2>5. u = [f[r] EXCEPT !.m = m] /\ \A q \in Requests : q # r => req'[q] = req[q]
    BY <2>1, <2>2, <2>4
  <2>6. u.at = "done" /\ ~u.wrote
    BY <2>2, <2>3, <2>5 DEF RequestType
  <2>7. History(u)'
    BY <2>6, QuietHistory
  <2>8. History(req[r])'
    BY <2>1, <2>7
  <2>9. HistInv'
    BY <1>1, <2>5, <2>8, OneHistory
  <2> QED BY <2>1, <2>5, <2>6, <2>9 DEF NoneWritten
<1> QED BY <1>0, <1>2, <1>3

LEMMA PrepareWriteKeepsHistory ==
  ASSUME TypeInv, HistInv, NEW r \in Requests, PrepareWrite(r)
  PROVE  HistInv' /\ NoneWritten
<1>0. PICK l \in Listings(r) :
        \E m :
          /\ m = Prepared(req[r].plan, l.records)
          /\ \/ req' = Finish(r, "refused")
             \/ req' = [Finish(r, "recorded") EXCEPT ![r].m = m, ![r].verified = TRUE]
             \/ /\ m.op # "noop" /\ ~Blocked(req[r].plan, l) /\ AsReviewed(m, req[r].expect)
                /\ req' = [req EXCEPT ![r] = Ready(req[r], m)]
  BY PrepareWriteShape
<1>1. /\ req[r].at \in {"list", "paging"} /\ ~req[r].wrote /\ req[r] \in RequestType
      /\ req[r].outcome = None /\ req[r].plan \in Plans /\ req[r].plan.value \in TxtValues
  BY ListedFacts DEF PrepareWrite, HistInv, History, EndInv
<1>2. PICK m :
        /\ m = Prepared(req[r].plan, l.records)
        /\ \/ req' = Finish(r, "refused")
           \/ req' = [Finish(r, "recorded") EXCEPT ![r].m = m, ![r].verified = TRUE]
           \/ /\ m.op # "noop" /\ ~Blocked(req[r].plan, l) /\ AsReviewed(m, req[r].expect)
              /\ req' = [req EXCEPT ![r] = Ready(req[r], m)]
  BY <1>0
<1>2a. m \in Mutation
  BY <1>1, <1>2, ListingFacts, PreparedType
<1>3. CASE req' = Finish(r, "refused")
  BY <1>3, FinishKeepsHistory DEF PrepareWrite, Outcomes
<1>4. CASE req' = [Finish(r, "recorded") EXCEPT ![r].m = m, ![r].verified = TRUE]
  <2>1. PICK f, u : f = Finish(r, "recorded") /\ u = req'[r]
    OBVIOUS
  <2>2. /\ f \in [Requests -> RequestType] /\ f[r].at = "done" /\ ~f[r].wrote
        /\ \A q \in Requests : q # r => f[q] = req[q]
    BY <1>1, <2>1, FinishFacts DEF TypeInv, ReqInv, Outcomes, Kept
  <2>3. f[r] \in RequestType
    BY <2>2
  <2>4. req' = [f EXCEPT ![r].m = m, ![r].verified = TRUE]
    BY <1>4, <2>1
  <2>5. u = [f[r] EXCEPT !.m = m, !.verified = TRUE] /\ \A q \in Requests : q # r => req'[q] = req[q]
    BY <2>1, <2>2, <2>4
  <2>6. u.at = "done" /\ ~u.wrote
    BY <2>2, <2>3, <2>5 DEF RequestType
  <2>7. History(u)'
    BY <2>6, QuietHistory
  <2>8. History(req[r])'
    BY <2>1, <2>7
  <2>9. HistInv'
    BY <2>5, <2>8, OneHistory DEF PrepareWrite
  <2> QED BY <2>1, <2>5, <2>6, <2>9 DEF NoneWritten
<1>5. CASE /\ ~Blocked(req[r].plan, l) /\ AsReviewed(m, req[r].expect)
           /\ req' = [req EXCEPT ![r] = Ready(req[r], m)]
  <2>1. PICK t, u : t = req[r] /\ u = req'[r]
    OBVIOUS
  <2>2. u = Ready(t, m) /\ \A q \in Requests : q # r => req'[q] = req[q]
    BY <1>5, <2>1 DEF TypeInv, ReqInv
  <2>3. u.at = "write" /\ u.m = m /\ u.wrote = t.wrote /\ u.outcome = None /\ u.plan = t.plan
        /\ u.expect = t.expect /\ u.raced = t.stale
    <3>1. t \in RequestType /\ t.outcome = None
      BY <1>1, <2>1
    <3>2. u = Ready(t, m)
      BY <2>2
    <3> QED BY <1>2a, <3>1, <3>2, ReadyFacts
  <2>4. UNCHANGED <<connector, zone>>
    BY DEF PrepareWrite
  <2>5. ListedInv(u)'
    <3>1. SUFFICES ASSUME ~t.stale PROVE ListedInv(u)'
      BY <2>3 DEF ListedInv
    <3>2. l = [records |-> zone, twice |-> {}]
      BY <2>1, <3>1, ListingFacts
    <3>3. ~Blocked(t.plan, [records |-> zone, twice |-> {}]) /\ m = Prepared(t.plan, zone)
      BY <1>2, <1>5, <2>1, <3>2
    <3>4. ~Blocked(t.plan, [records |-> zone, twice |-> {}])' /\ m = Prepared(t.plan, zone)'
      BY <2>4, <3>3 DEF Blocked, BaselineDiffers, Matches, Prepared, Txt
    <3> QED BY <1>5, <2>1, <2>3, <3>4 DEF ListedInv
  <2>6. History(u)'
    BY <1>1, <2>1, <2>3, <2>5 DEF History, LostInv, ShownInv, EndInv, None
  <2>7. History(req[r])'
    BY <2>1, <2>6
  <2>8. HistInv'
    BY <2>2, <2>7, OneHistory DEF PrepareWrite
  <2> QED BY <1>1, <2>1, <2>2, <2>3, <2>8 DEF NoneWritten
<1> QED BY <1>2, <1>3, <1>4, <1>5

\* A write of a request that nobody has overtaken.
LEMMA WriteRemoves ==
  ASSUME TypeInv, HistInv, NEW r \in Requests, req[r].at = "write", ~req[r].raced,
         CanWrite(req[r].m, zone)
  PROVE  LET m == req[r].m IN
         /\ ValuesOf(zone) \ ValuesOf(AfterWrite(m, zone)) = m.current \ {m.value}
         /\ Cardinality(AfterWrite(m, zone)) <= 1
         /\ req[r].expect # NoMutation =>
              ValuesOf(zone) \ ValuesOf(AfterWrite(m, zone)) \subseteq req[r].expect.current
<1>1. PICK t : t = req[r]
  OBVIOUS
<1>2. /\ ~Blocked(t.plan, [records |-> zone, twice |-> {}])
      /\ t.m = Prepared(t.plan, zone) /\ AsReviewed(t.m, t.expect)
  BY <1>1 DEF HistInv, History, ListedInv
<1>3. t.plan \in Plans /\ t.plan.from \in {"TXT", "CNAME"} /\ t.m.op # "noop"
  BY <1>1 DEF TypeInv, ReqInv, Phase, RequestType
<1>4. /\ ValuesOf(zone) \ ValuesOf(AfterWrite(t.m, zone)) = t.m.current \ {t.m.value}
      /\ Cardinality(AfterWrite(t.m, zone)) <= 1
  BY <1>1, <1>2, <1>3, AppliesTo DEF TypeInv
<1>5. t.expect # NoMutation => t.m.current = t.expect.current
  BY <1>2 DEF AsReviewed
<1> QED BY <1>1, <1>4, <1>5

\* What OnlyReviewedIsLost says of a step.
ReviewedStep ==
  \A r \in Requests :
    Written(r) /\ ~req[r].raced =>
      /\ Cardinality(zone') <= 1
      /\ req[r].expect # NoMutation =>
           ValuesOf(zone) \ ValuesOf(zone') \subseteq req[r].expect.current

\* Others' writes make a request raced; its own removes what it listed.
LEMMA WriteKeepsHistory ==
  ASSUME TypeInv, HistInv, NEW r \in Requests, Write(r)
  PROVE  HistInv' /\ ReviewedStep
<1>1. PICK t, u : t = req[r] /\ u = req'[r]
  OBVIOUS
<1>2. t \in RequestType /\ Phase(t) /\ t.at = "write" /\ ~t.wrote /\ t.outcome = None
  BY <1>1 DEF TypeInv, ReqInv, Phase, Write, HistInv, History, EndInv
<1>3. CASE CanWrite(t.m, zone)
  <2>1. zone' = AfterWrite(t.m, zone)
    BY <1>1, <1>3 DEF Write
  <2>2. PICK l, s : /\ l = ValuesOf(zone) \ ValuesOf(AfterWrite(t.m, zone))
                    /\ s = { x \in Resolvers : Serves(x, t.m.value) }
    OBVIOUS
  <2>3. l \in SUBSET Contents /\ s \in SUBSET Resolvers
        /\ req' = [ZoneChanged(req, r) EXCEPT ![r] = Writer(t, l, s)]
    BY <1>1, <1>3, <2>2, WriteShape DEF TypeInv
  <2>4. u = Writer(t, l, s) /\ \A q \in Requests : q # r => req'[q] = ZoneChanged(req, r)[q]
    BY <1>1, <2>3, ChangedRequests DEF TypeInv
  <2>5. /\ u.at = "readback" /\ u.wrote = TRUE /\ u.lost = l /\ u.shown = s
        /\ u.m = t.m /\ u.raced = t.raced /\ u.checks = t.checks /\ u.outcome = t.outcome
    <3>1. l \in SUBSET Contents /\ s \in SUBSET Resolvers /\ u = Writer(t, l, s)
      BY <2>3, <2>4
    <3>2. t \in RequestType /\ Phase(t) /\ t.at = "write"
      BY <1>2
    <3> QED BY <3>1, <3>2 DEF Writer, RequestType
  <2>6. ~t.raced => l = t.m.current \ {t.m.value}
    BY <1>1, <1>2, <1>3, <2>2, WriteRemoves
  <2>7. \A x \in Resolvers : Serves(x, t.m.value)' <=> x \in s
    BY <2>2 DEF Serves, Write
  <2>8. \A x \in Resolvers : t.checks[x] = "asked"
    BY <1>2 DEF Phase
  <2>9. History(u)'
    BY <1>2, <2>5, <2>6, <2>7, <2>8 DEF History, ListedInv, LostInv, ShownInv, EndInv, None
  <2>10. \A q \in Requests : q # r => History(req[q])' /\ (req'[q].wrote => req[q].wrote)
    BY <2>4, RacedHistory DEF Write
  <2>11. HistInv'
    BY <1>1, <2>9, <2>10 DEF HistInv
  <2>12. ReviewedStep
    BY <1>1, <1>2, <1>3, <2>1, <2>10, WriteRemoves DEF ReviewedStep, Written
  <2> QED BY <2>11, <2>12
<1>4. CASE ~CanWrite(t.m, zone)
  <2>1. HistInv' /\ NoneWritten
    BY <1>1, <1>2, <1>4, FinishKeepsHistory DEF Write, Outcomes
  <2> QED BY <2>1 DEF NoneWritten, ReviewedStep, Written
<1> QED BY <1>3, <1>4

\* A request whose write was read back goes on, or is recorded.
LEMMA ConcludedHistory ==
  ASSUME TypeInv, HistInv, NEW r \in Requests, NEW records \in SUBSET Record,
         req[r].at \in {"readback", "sync"}, req[r].wrote,
         NEW u, u = Concluded(r, records)[r], UNCHANGED <<connector, public, zone>>
  PROVE  History(u)'
<1>1. PICK t : t = req[r]
  OBVIOUS
<1>2. /\ u.m = t.m /\ u.raced = t.raced /\ u.wrote = t.wrote /\ u.lost = t.lost
      /\ u.shown = t.shown /\ u.checks = t.checks
      /\ \/ u.at = "resolve" /\ u.outcome = t.outcome
         \/ u.at = "done" /\ u.outcome = "recorded" /\ (u.verified => ~Replaces(t.m.plan))
  BY <1>1, ConcludedFacts
<1>3. History(t) /\ t.at \in {"readback", "sync"}
  BY <1>1 DEF HistInv
<1>4. CASE u.at = "resolve" /\ u.outcome = t.outcome
  BY <1>2, <1>3, <1>4, MovedHistory
<1>5. CASE u.at = "done" /\ u.outcome = "recorded" /\ (u.verified => ~Replaces(t.m.plan))
  <2>1. LostInv(u)
    BY <1>2, <1>3, <1>5 DEF History, LostInv, EndInv, None
  <2>2. u.verified => ~Replaces(u.m.plan)
    BY <1>2, <1>5
  <2> QED BY <1>5, <2>1, <2>2, EndedHistory
<1> QED BY <1>2, <1>4, <1>5

LEMMA ReadBackKeepsHistory ==
  ASSUME TypeInv, HistInv, NEW r \in Requests, ReadBack(r)
  PROVE  HistInv' /\ NoneWritten
<1>1. req[r].at = "readback" /\ req[r].wrote /\ Txt(zone) \in SUBSET Record
  BY DEF TypeInv, ReqInv, Phase, ReadBack, Txt, ZoneType
<1>2. req' = Concluded(r, Txt(zone)) /\ UNCHANGED <<connector, public, zone>>
  BY DEF ReadBack
<1>3. PICK u : u = req'[r]
  OBVIOUS
<1>4. History(u)'
  BY <1>1, <1>2, <1>3, ConcludedHistory
<1>5. History(req[r])'
  BY <1>3, <1>4
<1>6. \A q \in Requests : q # r => req'[q] = req[q]
  BY <1>1, <1>2, ConcludedFacts
<1>7. HistInv'
  BY <1>2, <1>5, <1>6, OneHistory
<1> QED BY <1>1, <1>6, <1>7 DEF NoneWritten

LEMMA ListKeepsHistory ==
  ASSUME TypeInv, HistInv, NEW r \in Requests, List(r)
  PROVE  HistInv' /\ NoneWritten
<1>1. PICK t, u : t = req[r] /\ u = req'[r]
  OBVIOUS
<1>2. /\ \A q \in Requests : q # r => req'[q] = req[q]
      /\ t.at = "paging" /\ u.at = "sync"
      /\ u.m = t.m /\ u.raced = t.raced /\ u.wrote = t.wrote /\ u.lost = t.lost
      /\ u.shown = t.shown /\ u.checks = t.checks /\ u.outcome = t.outcome
  BY <1>1, ListFacts
<1>3. UNCHANGED <<connector, public, zone>>
  BY DEF List
<1>4. History(t)
  BY <1>1 DEF HistInv
<1>5. History(u)'
  BY <1>2, <1>3, <1>4, MovedHistory
<1>6. History(req[r])'
  BY <1>1, <1>5
<1>7. HistInv'
  BY <1>2, <1>3, <1>6, OneHistory
<1> QED BY <1>1, <1>2, <1>7 DEF NoneWritten

LEMMA SyncKeepsHistory ==
  ASSUME TypeInv, HistInv, NEW r \in Requests, Sync(r)
  PROVE  HistInv' /\ NoneWritten
<1>1. PICK f :
        /\ f \in [Requests -> RequestType] /\ \A q \in Requests : Phase(f[q])
        /\ f[r].at # "sync" /\ \A q \in Requests : q # r => f[q] = req[q]
        /\ req' = Overtaken(f, r)
        /\ \/ f = Finish(r, "conflict")
           \/ f = Finish(r, "analysed")
           \/ /\ req[r].wrote /\ req[r].readback \in SUBSET Record
              /\ f = Concluded(r, req[r].readback)
  BY SyncFacts
<1>2. UNCHANGED <<connector, public, zone>> /\ req[r].at = "sync"
  BY DEF Sync
<1>3. PICK u : u = f[r]
  OBVIOUS
<1>4. History(u)' /\ (u.wrote => req[r].wrote)
  <2>1. CASE f = Finish(r, "conflict") \/ f = Finish(r, "analysed")
    <3>1. {"conflict", "analysed"} \subseteq Outcomes \ {"previewed", "recorded"}
      BY DEF Outcomes
    <3> QED BY <1>2, <1>3, <2>1, <3>1, FinishHistory
  <2>2. CASE /\ req[r].wrote /\ req[r].readback \in SUBSET Record
             /\ f = Concluded(r, req[r].readback)
    BY <1>2, <1>3, <2>2, ConcludedHistory
  <2> QED BY <1>1, <2>1, <2>2
<1>5. /\ req'[r] = u
      /\ \A q \in Requests :
           q # r => IF q \in req[r].earlier /\ req[q].at = "sync"
                    THEN req'[q] = [req[q] EXCEPT !.stale = TRUE] ELSE req'[q] = req[q]
  BY <1>1, <1>3, OvertakenFacts DEF TypeInv
<1>6. ASSUME NEW q \in Requests PROVE History(req[q])' /\ (req'[q].wrote => req[q].wrote)
  <2>1. CASE q = r
    <3>1. History(req[r])'
      BY <1>4, <1>5
    <3> QED BY <1>4, <1>5, <2>1, <3>1
  <2>2. PICK t, v : t = req[q] /\ v = req'[q]
    OBVIOUS
  <2>3. t \in RequestType /\ Phase(t) /\ History(t)
    BY <2>2 DEF TypeInv, ReqInv, HistInv
  <2>4. CASE q # r /\ v = [t EXCEPT !.stale = TRUE] /\ t.at = "sync"
    <3>1. History(v)' /\ v.wrote = t.wrote
      BY <1>2, <2>3, <2>4, StaleHistory
    <3> QED BY <2>2, <3>1
  <2>5. CASE q # r /\ v = t
    <3>1. History(t)'
      BY <1>2, <2>3, KeptHistory
    <3> QED BY <2>2, <2>5, <3>1
  <2> QED BY <1>5, <2>1, <2>2, <2>4, <2>5
<1> QED BY <1>6 DEF HistInv, NoneWritten

LEMMA AskResolverKeepsHistory ==
  ASSUME TypeInv, HistInv, NEW r \in Requests, NEW x \in Resolvers, AskResolver(r, x)
  PROVE  HistInv' /\ NoneWritten
<1>1. PICK t, u : t = req[r] /\ u = req'[r]
  OBVIOUS
<1>2. PICK answer \in {"failed", "value", "agrees"} :
        /\ \A q \in Requests : q # r => req'[q] = req[q]
        /\ u.checks = [t.checks EXCEPT ![x] = answer]
        /\ u.at = t.at /\ u.m = t.m /\ u.raced = t.raced /\ u.wrote = t.wrote /\ u.lost = t.lost
        /\ u.shown = t.shown /\ u.outcome = t.outcome
        /\ answer = "value" => Serves(x, t.m.value)
        /\ answer = "agrees" => t.checks[x] = "value"
  BY <1>1, AnsweredFacts
<1>3. t \in RequestType /\ History(t) /\ t.at = "resolve" /\ t.wrote
  BY <1>1 DEF TypeInv, ReqInv, Phase, HistInv, AskResolver
<1>4. UNCHANGED <<connector, public, zone>>
  BY DEF AskResolver
<1>5. ASSUME NEW y \in Resolvers, u.checks[y] \in {"value", "agrees"} PROVE y \in u.shown
  <2>1. t.checks \in [Resolvers -> {"asked", "value", "failed", "agrees"}]
    BY <1>3 DEF RequestType
  <2>2. \A z \in Resolvers :
          Serves(z, t.m.value) \/ t.checks[z] \in {"value", "agrees"} => z \in t.shown
    BY <1>3 DEF History, ShownInv
  <2>3. CASE y # x
    BY <1>2, <1>5, <2>1, <2>2, <2>3
  <2>4. CASE y = x
    BY <1>2, <1>5, <2>1, <2>2, <2>4
  <2> QED BY <2>3, <2>4
<1>6. ShownInv(u)'
  BY <1>2, <1>3, <1>4, <1>5 DEF History, ShownInv, Serves
<1>7. History(u)'
  BY <1>2, <1>3, <1>6 DEF History, ListedInv, LostInv, EndInv, None
<1>8. History(req[r])'
  BY <1>1, <1>7
<1>9. HistInv'
  BY <1>2, <1>4, <1>8, OneHistory
<1> QED BY <1>1, <1>2, <1>9 DEF NoneWritten

LEMMA ResolversAnsweredKeepsHistory ==
  ASSUME TypeInv, HistInv, NEW r \in Requests, ResolversAnswered(r)
  PROVE  HistInv' /\ NoneWritten
<1>1. PICK t, u : t = req[r] /\ u = req'[r]
  OBVIOUS
<1>2. t \in RequestType /\ History(t) /\ t.at = "resolve" /\ t.wrote
  BY <1>1 DEF TypeInv, ReqInv, Phase, HistInv, ResolversAnswered
<1>3. Agreement(t.checks) \in BOOLEAN
  BY DEF Agreement
<1>4. /\ \A q \in Requests : q # r => req'[q] = req[q]
      /\ u.at = "done" /\ u.outcome = "recorded" /\ (u.verified <=> Agreement(t.checks))
      /\ u.m = t.m /\ u.raced = t.raced /\ u.wrote = t.wrote /\ u.lost = t.lost /\ u.shown = t.shown
  BY <1>1, <1>3, FinishedWith DEF ResolversAnswered
<1>5. Agreement(t.checks) => t.shown = Resolvers
  BY <1>2 DEF Agreement, History, ShownInv, RequestType
<1>6. LostInv(u)
  BY <1>2, <1>4 DEF History, LostInv, EndInv, None
<1>7. History(u)'
  BY <1>4, <1>5, <1>6, EndedHistory
<1>8. History(req[r])'
  BY <1>1, <1>7
<1>9. HistInv'
  BY <1>4, <1>8, OneHistory DEF ResolversAnswered
<1> QED BY <1>1, <1>4, <1>9 DEF NoneWritten

LEMMA ProviderFailsKeepsHistory ==
  ASSUME TypeInv, HistInv, NEW r \in Requests, ProviderFails(r)
  PROVE  HistInv' /\ ReviewedStep
<1>1. UNCHANGED <<connector, public>>
  BY DEF ProviderFails
<1>2. CASE req' = Finish(r, "failed") /\ UNCHANGED <<zone, nextId>>
  <2>1. HistInv' /\ NoneWritten
    BY <1>1, <1>2, FinishKeepsHistory DEF Outcomes
  <2> QED BY <2>1 DEF NoneWritten, ReviewedStep, Written
<1>3. CASE /\ req[r].at = "write" /\ CanWrite(req[r].m, zone)
           /\ zone' = AfterWrite(req[r].m, zone)
           /\ req' = [ZoneChanged(Finish(r, "failed"), r) EXCEPT ![r].wrote = TRUE]
  <2>1. PICK u : u = req'[r]
    OBVIOUS
  <2>2. /\ \A q \in Requests : q # r => req'[q] = ZoneChanged(req, r)[q]
        /\ u.at = "done" /\ u.outcome = "failed"
    BY <1>3, <2>1, LostAnswerFacts
  <2>3. LostInv(u)
    BY <2>2 DEF LostInv
  <2>4. History(u)'
    BY <2>2, <2>3, EndedHistory
  <2>5. \A q \in Requests : q # r => History(req[q])' /\ (req'[q].wrote => req[q].wrote)
    BY <1>1, <2>2, RacedHistory
  <2>6. HistInv'
    BY <2>1, <2>4, <2>5 DEF HistInv
  <2>7. ReviewedStep
    BY <1>3, <2>5, WriteRemoves DEF ReviewedStep, Written
  <2> QED BY <2>6, <2>7
<1> QED BY <1>2, <1>3 DEF ProviderFails

LEMMA CrashKeepsHistory == TypeInv /\ HistInv /\ Crash => HistInv' /\ NoneWritten
<1> SUFFICES ASSUME TypeInv, HistInv, Crash PROVE HistInv' /\ NoneWritten
  OBVIOUS
<1>1. ASSUME NEW q \in Requests PROVE History(req[q])' /\ (req'[q].wrote => req[q].wrote)
  <2>1. PICK t, u : t = req[q] /\ u = req'[q]
    OBVIOUS
  <2>2. \/ u = t /\ t.at \in {"new", "done"}
        \/ u.at = "done" /\ u.outcome = "failed" /\ ~u.wrote
    BY <2>1, CrashFacts
  <2>3. History(t)
    BY <2>1 DEF HistInv
  <2>4. CASE u = t /\ t.at \in {"new", "done"}
    <3>1. History(t)'
      BY <2>3, <2>4, KeptHistory DEF Crash
    <3> QED BY <2>1, <2>4, <3>1
  <2>5. CASE u.at = "done" /\ u.outcome = "failed" /\ ~u.wrote
    <3>1. History(u)'
      BY <2>5, QuietHistory
    <3> QED BY <2>1, <2>5, <3>1
  <2> QED BY <2>2, <2>4, <2>5
<1> QED BY <1>1 DEF HistInv, NoneWritten

LEMMA ForeignEditKeepsHistory == TypeInv /\ HistInv /\ ForeignEdit => HistInv' /\ NoneWritten
<1> SUFFICES ASSUME TypeInv, HistInv, ForeignEdit PROVE HistInv' /\ NoneWritten
  OBVIOUS
<1>1. \A q \in Requests : History(req[q])' /\ (req'[q].wrote => req[q].wrote)
  BY RacedHistory, ChangeAssumption DEF ForeignEdit, None
<1> QED BY <1>1 DEF HistInv, NoneWritten

LEMMA EditElsewhereKeepsHistory == TypeInv /\ HistInv /\ EditElsewhere => HistInv' /\ NoneWritten
<1> SUFFICES ASSUME TypeInv, HistInv, EditElsewhere PROVE HistInv' /\ NoneWritten
  OBVIOUS
<1>1. UNCHANGED <<connector, public, zone>>
  BY DEF EditElsewhere
<1>2. ASSUME NEW q \in Requests PROVE History(req[q])' /\ (req'[q].wrote => req[q].wrote)
  <2>1. PICK t, u : t = req[q] /\ u = req'[q]
    OBVIOUS
  <2>2. t \in RequestType /\ Phase(t) /\ History(t)
    BY <2>1 DEF TypeInv, ReqInv, HistInv
  <2>3. CASE t.at = "paging" /\ u = [t EXCEPT !.stale = TRUE]
    <3>1. History(u)' /\ u.wrote = t.wrote
      BY <1>1, <2>2, <2>3, StaleHistory
    <3> QED BY <2>1, <3>1
  <2>4. CASE u = t
    <3>1. History(t)'
      BY <1>1, <2>2, KeptHistory
    <3> QED BY <2>1, <2>4, <3>1
  <2> QED BY <2>1, <2>3, <2>4, EditElsewhereFacts
<1> QED BY <1>2 DEF HistInv, NoneWritten

LEMMA PropagateKeepsHistory ==
  ASSUME TypeInv, HistInv, NEW x \in Resolvers, Propagate(x)
  PROVE  HistInv' /\ NoneWritten
<1>1. UNCHANGED <<connector, zone>> /\ \A y \in Resolvers : y # x => public'[y] = public[y]
  BY DEF Propagate, TypeInv, SeenType
<1>2. ASSUME NEW q \in Requests PROVE History(req[q])' /\ (req'[q].wrote => req[q].wrote)
  <2>1. PICK t, u : t = req[q] /\ u = req'[q]
    OBVIOUS
  <2> DEFINE seen == /\ t.at # "done" /\ t.wrote
                     /\ [type |-> "TXT", value |-> t.m.value] \in public'[x]
  <2>2. /\ ~seen => u = t
        /\ seen => /\ u.shown = t.shown \cup {x} /\ u.at = t.at /\ u.m = t.m
                   /\ u.raced = t.raced /\ u.wrote = t.wrote /\ u.lost = t.lost
                   /\ u.checks = t.checks /\ u.outcome = t.outcome
    BY <2>1, PropagateFacts
  <2>3. History(t) /\ Phase(t)
    BY <2>1 DEF HistInv, TypeInv, ReqInv
  <2>4. CASE seen
    <3>1. t.at # "write" /\ t.outcome = None
      BY <2>3, <2>4 DEF Phase, History, EndInv
    <3>2. ShownInv(u)'
      BY <1>1, <2>2, <2>3, <2>4 DEF History, ShownInv, Serves
    <3>3. History(u)'
      BY <2>2, <2>3, <2>4, <3>1, <3>2 DEF History, ListedInv, LostInv, EndInv, None
    <3> QED BY <2>1, <2>2, <2>4, <3>3
  <2>5. CASE ~seen
    <3>1. ListedInv(t)'
      BY <1>1, <2>3 DEF History, ListedInv, Blocked, BaselineDiffers, Matches, Prepared, Txt
    <3>2. ShownInv(t)'
      BY <1>1, <2>3, <2>5 DEF History, ShownInv, Serves
    <3>3. History(t)'
      BY <2>3, <3>1, <3>2 DEF History, LostInv, EndInv
    <3> QED BY <2>1, <2>2, <2>5, <3>3
  <2> QED BY <2>4, <2>5
<1> QED BY <1>2 DEF HistInv, NoneWritten

LEMMA SameRequestsKeepHistory ==
  ASSUME HistInv, UNCHANGED <<connector, public, zone, req>>
  PROVE  HistInv' /\ NoneWritten
<1>1. ASSUME NEW q \in Requests PROVE History(req[q])'
  <2>1. PICK t : t = req[q]
    OBVIOUS
  <2>2. History(t)'
    BY <2>1, KeptHistory DEF HistInv
  <2> QED BY <2>1, <2>2
<1> QED BY <1>1 DEF HistInv, NoneWritten

\* Every step keeps what the requests know, and removes only what was reviewed.
LEMMA HistoryStep == TypeInv /\ HistInv /\ [Next]_vars => HistInv' /\ ReviewedStep
<1> SUFFICES ASSUME TypeInv, HistInv, [Next]_vars PROVE HistInv' /\ ReviewedStep
  OBVIOUS
<1>1. NoneWritten => ReviewedStep
  BY DEF NoneWritten, ReviewedStep, Written
<1>2. CASE UNCHANGED vars
  BY <1>1, <1>2, SameRequestsKeepHistory DEF vars
<1>3. ASSUME NEW r \in Requests,
             \/ Plan(r, "preview", NoMutation)
             \/ \E expect \in Previews \cup {NoMutation} : Plan(r, "apply", expect)
      PROVE  HistInv' /\ ReviewedStep
  BY <1>1, <1>3, PlanKeepsHistory
<1>4. ASSUME NEW r \in Requests,
             \/ BeginListing(r) \/ Preview(r) \/ PrepareWrite(r) \/ Write(r)
             \/ ReadBack(r) \/ List(r) \/ Sync(r)
      PROVE  HistInv' /\ ReviewedStep
  BY <1>1, <1>4, BeginListingKeepsHistory, PreviewKeepsHistory, PrepareWriteKeepsHistory, WriteKeepsHistory,
     ReadBackKeepsHistory, ListKeepsHistory, SyncKeepsHistory
<1>5. ASSUME NEW r \in Requests,
             (\E x \in Resolvers : AskResolver(r, x)) \/ ResolversAnswered(r) \/ ProviderFails(r)
      PROVE  HistInv' /\ ReviewedStep
  BY <1>1, <1>5, AskResolverKeepsHistory, ResolversAnsweredKeepsHistory, ProviderFailsKeepsHistory
<1>6. CASE RefreshEvidence \/ ProveOwnership
  BY <1>1, <1>6, SameRequestsKeepHistory DEF RefreshEvidence, ProveOwnership
<1>7. CASE Crash \/ ForeignEdit \/ EditElsewhere
  BY <1>1, <1>7, CrashKeepsHistory, ForeignEditKeepsHistory, EditElsewhereKeepsHistory
<1>8. CASE \E x \in Resolvers : Propagate(x)
  BY <1>1, <1>8, PropagateKeepsHistory
<1> QED BY <1>2, <1>3, <1>4, <1>5, <1>6, <1>7, <1>8 DEF Next

LEMMA HistoryInvariant == Spec => [](TypeInv /\ HistInv)
<1>1. Init => TypeInv /\ HistInv
  BY InitType, InitHistory
<1>2. TypeInv /\ HistInv /\ [Next]_vars => (TypeInv /\ HistInv)'
  BY TypeStep, HistoryStep
<1> QED BY <1>1, <1>2, PTL DEF Spec

\* The rollback evidence of a recorded change names what its write removed,
\* unless somebody wrote in between.
THEOREM EvidenceRestores == Spec => []RollbackRestores
BY HistoryInvariant, HistInvImplies, PTL

\* A change of type is verified only when each resolver has answered with the
\* new record since the write, however the resolvers lag and the zone changes.
THEOREM MigrationsArePublic == Spec => []MigrationIsPublic
BY HistoryInvariant, HistInvImplies, PTL

\* A confirmed write removes nothing its operator has not seen, and no write
\* leaves a second record, unless somebody wrote in between.
THEOREM ReviewedOnly == Spec => OnlyReviewedIsLost
<1>1. TypeInv /\ HistInv /\ [Next]_vars => [ReviewedStep]_vars
  BY HistoryStep
<1> QED BY <1>1, HistoryInvariant, PTL DEF Spec, OnlyReviewedIsLost, ReviewedStep

-----------------------------------------------------------------------------
(***************************************************************************)
(* Listings and the change history                                         *)
(***************************************************************************)
PastListing == {"sync", "resolve", "done"}

Syncing == { r \in Requests : req[r].at = "sync" }
KeysRead(r) == Keys(req[r].readback)

\* No record of that id is in the zone, nor in a listing taken after the one of r.
GoneSince(k, r) ==
  /\ k \notin Keys(zone)
  /\ \A s \in Syncing : ~req[s].stale /\ r \in req[s].earlier => k \notin KeysRead(s)

\* The listing of r is right about these ids: one it misses does not come back.
RightAbout(r, ids) == \A k \in ids : k \in KeysRead(r) \/ GoneSince(k, r)

\* Every id in use has been given out.
Numbered ==
  /\ \A k \in snaps.active \cup snaps.removed : k < nextId
  /\ \A r \in Requests : \A k \in Keys(req[r].first) : k < nextId
  /\ \A r \in Syncing : \A k \in KeysRead(r) : k < nextId

\* Of two listings under way one was taken first, and is known to the other.
Ordered ==
  /\ \A r \in Requests : \A q \in req[r].earlier : req[q].at \in PastListing
  /\ \A p, r \in Syncing : p = r \/ p \in req[r].earlier \/ r \in req[p].earlier

LaterIsRight ==
  \A r \in Syncing : \A p \in req[r].earlier \cap Syncing : ~req[r].stale => RightAbout(r, KeysRead(p))

\* As long as no stale listing was processed, removed records are gone, and
\* the other listings agree with the history.
InStep ==
  ~snaps.disorder =>
    /\ Keys(zone) \cap snaps.removed = {}
    /\ \A r \in Syncing : ~req[r].stale =>
         KeysRead(r) \cap snaps.removed = {} /\ RightAbout(r, snaps.active)

DisorderInv == Numbered /\ Ordered /\ LaterIsRight /\ InStep /\ ConflictIsDisorder

LEMMA InitDisorder == Init => DisorderInv
BY DEF Init, DisorderInv, Numbered, Ordered, LaterIsRight, InStep, ConflictIsDisorder, Syncing,
   NewRequest, Keys, None

\* A step that takes no listing and processes none.
KeptListing(t, u) ==
  /\ u.earlier \subseteq t.earlier
  /\ u.at = "sync" => /\ t.at = "sync" /\ u.readback = t.readback
                      /\ u.earlier = t.earlier /\ u.stale = t.stale
  /\ t.at \in PastListing => u.at \in PastListing
  /\ u.outcome = "conflict" => t.outcome = "conflict"
  /\ u.first = t.first \/ u.first \subseteq zone

KeysKept == nextId <= nextId' /\ \A k \in Keys(zone') : k < nextId => k \in Keys(zone)

QuietStep ==
  /\ UNCHANGED snaps /\ KeysKept
  /\ \A q \in Requests : KeptListing(req[q], req'[q])

\* The ids the requests have read are numbers, and so are those given out.
LEMMA Numbers ==
  ASSUME TypeInv, Numbered
  PROVE  /\ nextId \in Nat /\ MaxIds \in Nat
         /\ \A k \in snaps.active \cup snaps.removed : k \in Nat /\ k < nextId
         /\ \A r \in Requests : \A k \in Keys(req[r].first) : k \in Nat /\ k < nextId
         /\ \A r \in Syncing : \A k \in KeysRead(r) : k \in Nat /\ k < nextId
         /\ \A k \in Keys(zone) : k \in Nat /\ k < nextId
<1>1. nextId \in Nat /\ MaxIds \in Nat
  BY ChangeAssumption DEF TypeInv, ZoneType
<1>2. snaps.active \cup snaps.removed \subseteq Nat
  BY DEF TypeInv, SnapsType
<1>3. ASSUME NEW r \in Requests PROVE Keys(req[r].first) \subseteq Nat /\ KeysRead(r) \subseteq Nat
  <2>1. req[r].first \subseteq Record /\ req[r].readback \subseteq Record
    BY DEF TypeInv, ReqInv, RequestType
  <2> QED BY <1>1, <2>1 DEF KeysRead, Keys, KeyOf, Record
<1>4. \A k \in Keys(zone) : k \in Nat /\ k < nextId
  BY <1>1 DEF TypeInv, ZoneType, Keys, KeyOf, Record
<1> QED BY <1>1, <1>2, <1>3, <1>4 DEF Numbered, Syncing

\* Such a step keeps the order of listings and history.
LEMMA QuietDisorder ==
  ASSUME TypeInv, TypeInv', DisorderInv, QuietStep
  PROVE  DisorderInv'
<1>1. /\ \A q \in Requests : req'[q].earlier \subseteq req[q].earlier /\ req[q].earlier \subseteq Requests
      /\ \A q \in Syncing' : /\ q \in Syncing /\ KeysRead(q)' = KeysRead(q)
                             /\ req'[q].earlier = req[q].earlier /\ req'[q].stale = req[q].stale
  BY DEF TypeInv, ReqInv, RequestType, QuietStep, KeptListing, Syncing, KeysRead
<1>2. /\ nextId' \in Nat /\ nextId <= nextId'
      /\ \A k \in Keys(zone)' : k < nextId => k \in Keys(zone)
  BY ChangeAssumption DEF TypeInv, ZoneType, QuietStep, KeysKept
<1>3. /\ nextId \in Nat
      /\ \A k \in snaps.active \cup snaps.removed : k \in Nat /\ k < nextId
      /\ \A r \in Requests : \A k \in Keys(req[r].first) : k \in Nat /\ k < nextId
      /\ \A r \in Syncing : \A k \in KeysRead(r) : k \in Nat /\ k < nextId
      /\ \A k \in Keys(zone) : k \in Nat /\ k < nextId
  BY Numbers DEF DisorderInv
<1>4. Numbered'
  <2>1. \A k \in snaps'.active \cup snaps'.removed : k < nextId'
    BY <1>2, <1>3 DEF QuietStep
  <2>2. \A r \in Syncing' : \A k \in KeysRead(r)' : k < nextId'
    BY <1>1, <1>2, <1>3
  <2>3. ASSUME NEW r \in Requests, NEW k \in Keys(req'[r].first) PROVE k < nextId'
    <3>1. req'[r].first = req[r].first \/ req'[r].first \subseteq zone
      BY DEF QuietStep, KeptListing
    <3>2. k \in Keys(req[r].first) \/ k \in Keys(zone)
      BY <2>3, <3>1 DEF Keys
    <3> QED BY <1>2, <1>3, <3>2
  <2> QED BY <2>1, <2>2, <2>3 DEF Numbered
<1>5. Ordered'
  <2>1. ASSUME NEW r \in Requests, NEW q \in req'[r].earlier PROVE req'[q].at \in PastListing
    BY <1>1, <2>1 DEF DisorderInv, Ordered, QuietStep, KeptListing
  <2>2. \A p, r \in Syncing' : p = r \/ p \in req'[r].earlier \/ r \in req'[p].earlier
    BY <1>1 DEF DisorderInv, Ordered
  <2> QED BY <2>1, <2>2 DEF Ordered
<1>6. ASSUME NEW r \in Syncing', NEW ids, \A k \in ids : k < nextId, RightAbout(r, ids)
      PROVE  \A k \in ids : k \in KeysRead(r)' \/ GoneSince(k, r)'
  <2>1. SUFFICES ASSUME NEW k \in ids, k \notin KeysRead(r)' PROVE GoneSince(k, r)'
    OBVIOUS
  <2>2. GoneSince(k, r) /\ k < nextId
    BY <1>1, <1>6, <2>1 DEF RightAbout
  <2>3. k \notin Keys(zone)'
    BY <1>2, <2>2 DEF GoneSince
  <2>4. \A s \in Syncing' : ~req'[s].stale /\ r \in req'[s].earlier => k \notin KeysRead(s)'
    BY <1>1, <2>2 DEF GoneSince
  <2> QED BY <2>3, <2>4 DEF GoneSince
<1>7. LaterIsRight'
  <2>1. SUFFICES ASSUME NEW r \in Syncing', NEW p \in req'[r].earlier \cap Syncing', ~req'[r].stale
                 PROVE  RightAbout(r, KeysRead(p))'
    BY DEF LaterIsRight
  <2>2. /\ p \in Syncing /\ r \in Syncing /\ p \in req[r].earlier /\ ~req[r].stale
        /\ KeysRead(p)' = KeysRead(p)
    BY <1>1, <2>1
  <2>3. RightAbout(r, KeysRead(p)) /\ \A k \in KeysRead(p) : k < nextId
    BY <1>3, <2>2 DEF DisorderInv, LaterIsRight
  <2>4. \A k \in KeysRead(p) : k \in KeysRead(r)' \/ GoneSince(k, r)'
    BY <1>6, <2>3
  <2> QED BY <2>2, <2>4 DEF RightAbout
<1>8. InStep'
  <2>1. SUFFICES ASSUME ~snaps'.disorder PROVE /\ Keys(zone)' \cap snaps'.removed = {}
                 /\ \A r \in Syncing' : ~req'[r].stale =>
                      KeysRead(r)' \cap snaps'.removed = {} /\ RightAbout(r, snaps.active)'
    BY DEF InStep
  <2>2. snaps' = snaps /\ Keys(zone) \cap snaps.removed = {}
    BY <2>1 DEF QuietStep, DisorderInv, InStep
  <2>3. Keys(zone)' \cap snaps'.removed = {}
    BY <1>2, <1>3, <2>2
  <2>4. ASSUME NEW r \in Syncing', ~req'[r].stale
        PROVE  KeysRead(r)' \cap snaps'.removed = {} /\ RightAbout(r, snaps.active)'
    <3>1. ~req[r].stale /\ r \in Syncing /\ KeysRead(r)' = KeysRead(r)
      BY <1>1, <2>4
    <3>2. KeysRead(r) \cap snaps.removed = {} /\ RightAbout(r, snaps.active)
      BY <2>1, <2>2, <3>1 DEF DisorderInv, InStep
    <3>3. \A k \in snaps.active : k \in KeysRead(r)' \/ GoneSince(k, r)'
      BY <1>3, <1>6, <3>2
    <3> QED BY <2>2, <3>1, <3>2, <3>3 DEF RightAbout
  <2> QED BY <2>3, <2>4
<1>9. ConflictIsDisorder'
  BY DEF DisorderInv, ConflictIsDisorder, QuietStep, KeptListing
<1> QED BY <1>4, <1>5, <1>7, <1>8, <1>9 DEF DisorderInv

\* A new listing comes after all under way, and removed records are not in it,
\* unless the zone changed while it was read.
LEMMA ListDisorder ==
  ASSUME TypeInv, DisorderInv, NEW x \in Requests, List(x)
  PROVE  DisorderInv'
<1>0. PICK l \in Listings(x) :
        /\ \A q \in Requests : q # x => req'[q] = req[q]
        /\ req[x].at = "paging" /\ req'[x].at = "sync" /\ req'[x].first = {}
        /\ req'[x].readback = l.records /\ req'[x].stale = req[x].stale
        /\ req'[x].earlier = { q \in Requests : req[q].at = "sync" }
        /\ req'[x].outcome = req[x].outcome
  BY ListFacts
<1>1. /\ UNCHANGED <<zone, nextId, snaps>>
      /\ l.records \subseteq zone \cup req[x].first
      /\ ~req[x].stale => l.records = zone
      /\ req'[x].earlier = Syncing
  BY <1>0, ListingFacts DEF List, Syncing
<1>3. /\ x \notin Syncing /\ Syncing' = Syncing \cup {x}
      /\ \A q \in Syncing : KeysRead(q)' = KeysRead(q) /\ req'[q] = req[q]
      /\ \A q \in Requests : x \notin req[q].earlier /\ x \notin req'[q].earlier
  <2>1. x \notin Syncing /\ \A q \in Requests : q \in Syncing' <=> q \in Syncing \/ q = x
    BY <1>0 DEF Syncing
  <2>2. Syncing \subseteq Requests /\ Syncing' \subseteq Requests
    BY DEF Syncing
  <2>3. Syncing' = Syncing \cup {x}
    BY <2>1, <2>2
  <2>4. \A q \in Syncing : KeysRead(q)' = KeysRead(q) /\ req'[q] = req[q]
    BY <1>0, <2>1, <2>2 DEF KeysRead
  <2>5. \A q \in Requests : x \notin req[q].earlier
    BY <1>0 DEF DisorderInv, Ordered, PastListing
  <2>6. \A q \in Requests : x \notin req'[q].earlier
    BY <1>0, <1>1, <2>1, <2>5
  <2> QED BY <2>1, <2>3, <2>4, <2>5, <2>6
<1>4. Numbered'
  <2>1. /\ \A k \in Keys(zone) : k < nextId
        /\ \A k \in Keys(req[x].first) : k < nextId
    BY Numbers DEF DisorderInv
  <2>2. \A k \in KeysRead(x)' : k < nextId
    <3>1. KeysRead(x)' \subseteq Keys(zone) \cup Keys(req[x].first)
      BY <1>0, <1>1 DEF KeysRead, Keys
    <3> QED BY <2>1, <3>1
  <2>3. \A r \in Syncing' : \A k \in KeysRead(r)' : k < nextId'
    BY <1>1, <1>3, <2>2 DEF DisorderInv, Numbered
  <2>4. \A r \in Requests : \A k \in Keys(req'[r].first) : k < nextId'
    <3>1. Keys({}) = {}
      BY DEF Keys
    <3> QED BY <1>0, <1>1, <3>1 DEF DisorderInv, Numbered
  <2> QED BY <1>1, <2>3, <2>4 DEF DisorderInv, Numbered
<1>5. Ordered'
  <2>2. ASSUME NEW r \in Requests, NEW q \in req'[r].earlier PROVE req'[q].at \in PastListing
    <3>0. req[r].earlier \subseteq Requests /\ Syncing \subseteq Requests
      BY DEF Syncing, TypeInv, ReqInv, RequestType
    <3>1. q # x /\ q \in Requests
      BY <1>0, <1>1, <1>3, <2>2, <3>0
    <3>2. CASE r = x
      BY <1>0, <1>1, <2>2, <3>1, <3>2 DEF Syncing, PastListing
    <3>3. CASE r # x
      BY <1>0, <2>2, <3>1, <3>3 DEF DisorderInv, Ordered
    <3> QED BY <3>2, <3>3
  <2>3. ASSUME NEW q \in Syncing', NEW r \in Syncing'
        PROVE  q = r \/ q \in req'[r].earlier \/ r \in req'[q].earlier
    <3>1. CASE q = x \/ r = x
      BY <1>1, <1>3, <3>1
    <3>2. CASE q # x /\ r # x
      BY <1>3, <3>2 DEF DisorderInv, Ordered
    <3> QED BY <3>1, <3>2
  <2> QED BY <2>2, <2>3 DEF Ordered
<1>6. ASSUME NEW r \in Syncing, NEW ids, RightAbout(r, ids)
      PROVE  \A k \in ids : k \in KeysRead(r)' \/ GoneSince(k, r)'
  <2>1. SUFFICES ASSUME NEW k \in ids, k \notin KeysRead(r)' PROVE GoneSince(k, r)'
    OBVIOUS
  <2>2. GoneSince(k, r)
    BY <1>3, <1>6, <2>1 DEF RightAbout
  <2>3. ~req'[x].stale => KeysRead(x)' = Keys(zone)
    BY <1>0, <1>1 DEF KeysRead
  <2>4. \A s \in Syncing' : ~req'[s].stale /\ r \in req'[s].earlier => k \notin KeysRead(s)'
    BY <1>3, <2>2, <2>3 DEF GoneSince
  <2> QED BY <1>1, <2>2, <2>4 DEF GoneSince
<1>7. ASSUME NEW ids, ~req'[x].stale
      PROVE  \A k \in ids : k \in KeysRead(x)' \/ GoneSince(k, x)'
  <2>1. KeysRead(x)' = Keys(zone)
    BY <1>0, <1>1, <1>7 DEF KeysRead
  <2>2. Syncing' \subseteq Requests
    BY DEF Syncing
  <2> QED BY <1>1, <1>3, <2>1, <2>2 DEF GoneSince
<1>8. LaterIsRight'
  <2>1. SUFFICES ASSUME NEW r \in Syncing', NEW p \in req'[r].earlier \cap Syncing', ~req'[r].stale
                 PROVE  \A k \in KeysRead(p)' : k \in KeysRead(r)' \/ GoneSince(k, r)'
    BY DEF LaterIsRight, RightAbout
  <2>2. CASE r = x
    BY <1>7, <2>1, <2>2
  <2>3. CASE r # x
    <3>0. r \in Syncing /\ Syncing \subseteq Requests
      BY <1>3, <2>1, <2>3 DEF Syncing
    <3>1. p \in req[r].earlier \cap Syncing /\ KeysRead(p)' = KeysRead(p) /\ ~req[r].stale
      BY <1>3, <2>1, <2>3, <3>0
    <3>2. RightAbout(r, KeysRead(p))
      BY <3>0, <3>1 DEF DisorderInv, LaterIsRight
    <3> QED BY <1>6, <3>0, <3>1, <3>2
  <2> QED BY <2>2, <2>3
<1>9. InStep'
  <2>1. SUFFICES ASSUME ~snaps'.disorder PROVE /\ Keys(zone)' \cap snaps'.removed = {}
                 /\ \A r \in Syncing' : ~req'[r].stale =>
                      /\ KeysRead(r)' \cap snaps'.removed = {}
                      /\ \A k \in snaps'.active : k \in KeysRead(r)' \/ GoneSince(k, r)'
    BY DEF InStep, RightAbout
  <2>2. snaps' = snaps /\ zone' = zone /\ Keys(zone) \cap snaps.removed = {}
    BY <1>1, <2>1 DEF DisorderInv, InStep
  <2>3. ASSUME NEW r \in Syncing', r # x, ~req'[r].stale
        PROVE  /\ KeysRead(r)' \cap snaps'.removed = {}
               /\ \A k \in snaps'.active : k \in KeysRead(r)' \/ GoneSince(k, r)'
    <3>1. ~req[r].stale /\ r \in Syncing
      BY <1>3, <2>3
    <3>2. KeysRead(r) \cap snaps.removed = {} /\ RightAbout(r, snaps.active)
      BY <2>1, <2>2, <3>1 DEF DisorderInv, InStep
    <3> QED BY <1>3, <1>6, <2>2, <3>1, <3>2
  <2>4. ~req'[x].stale => KeysRead(x)' = Keys(zone)
    BY <1>0, <1>1 DEF KeysRead
  <2> QED BY <1>7, <2>2, <2>3, <2>4
<1>10. ConflictIsDisorder'
  BY <1>0, <1>1 DEF DisorderInv, ConflictIsDisorder
<1> QED BY <1>4, <1>5, <1>8, <1>9, <1>10 DEF DisorderInv

\* What the others become when p has processed its listing.
LEMMA SyncOthers ==
  ASSUME TypeInv, NEW p \in Requests, Sync(p)
  PROVE  /\ p \in Syncing /\ UNCHANGED <<zone, nextId>>
         /\ req'[p].at \in {"resolve", "done"} /\ req'[p].earlier = {}
         /\ req'[p].first = req[p].first \/ req'[p].first = {}
         /\ req'[p].outcome = "conflict"
              => \/ req[p].outcome = "conflict" \/ Returns(KeysRead(p))
                 \/ ~(req[p].twice \subseteq snaps.active)
         /\ \A q \in Requests : q # p =>
              /\ req'[q].at = req[q].at /\ req'[q].earlier = req[q].earlier
              /\ req'[q].readback = req[q].readback /\ req'[q].first = req[q].first
              /\ req'[q].outcome = req[q].outcome
              /\ req'[q].stale = (req[q].stale \/ (req[q].at = "sync" /\ q \in req[p].earlier))
<1>1. PICK f :
        /\ f \in [Requests -> RequestType] /\ \A q \in Requests : Phase(f[q])
        /\ f[p].at # "sync" /\ \A q \in Requests : q # p => f[q] = req[q]
        /\ req' = Overtaken(f, p)
        /\ \/ f = Finish(p, "conflict")
           \/ f = Finish(p, "analysed")
           \/ /\ req[p].wrote /\ req[p].readback \in SUBSET Record
              /\ f = Concluded(p, req[p].readback)
  BY SyncFacts
<1>2. p \in Syncing /\ req[p].at = "sync" /\ UNCHANGED <<zone, nextId>>
  BY DEF Sync, Syncing
<1>3. /\ f[p].at \in {"resolve", "done"} /\ f[p].earlier = {}
      /\ f[p].first = req[p].first \/ f[p].first = {}
  <2>1. CASE f = Finish(p, "conflict") \/ f = Finish(p, "analysed")
    BY <2>1, FinishFacts DEF TypeInv, ReqInv, Outcomes
  <2>2. CASE /\ req[p].wrote /\ req[p].readback \in SUBSET Record
             /\ f = Concluded(p, req[p].readback)
    BY <1>2, <2>2, ConcludedFacts
  <2> QED BY <1>1, <2>1, <2>2
<1>4. /\ req'[p] = f[p]
      /\ \A q \in Requests :
           q # p => IF q \in req[p].earlier /\ req[q].at = "sync"
                    THEN req'[q] = [req[q] EXCEPT !.stale = TRUE] ELSE req'[q] = req[q]
  BY <1>1, OvertakenFacts DEF TypeInv
<1>5. ASSUME NEW q \in Requests, q # p
      PROVE  /\ req'[q].at = req[q].at /\ req'[q].earlier = req[q].earlier
             /\ req'[q].readback = req[q].readback /\ req'[q].first = req[q].first
             /\ req'[q].outcome = req[q].outcome
             /\ req'[q].stale = (req[q].stale \/ (req[q].at = "sync" /\ q \in req[p].earlier))
  <2>1. PICK t, u : t = req[q] /\ u = req'[q]
    OBVIOUS
  <2>2. t \in RequestType /\ Phase(t) /\ t.stale \in BOOLEAN
    BY <2>1 DEF TypeInv, ReqInv, RequestType
  <2>3. CASE q \in req[p].earlier /\ t.at = "sync"
    <3>1. u = [t EXCEPT !.stale = TRUE]
      BY <1>4, <1>5, <2>1, <2>3
    <3>2. /\ u.at = t.at /\ u.earlier = t.earlier /\ u.readback = t.readback /\ u.first = t.first
          /\ u.outcome = t.outcome /\ u.stale = TRUE
      BY <2>2, <2>3, <3>1, StaleFacts
    <3> QED BY <2>1, <2>3, <3>2
  <2>4. CASE ~(q \in req[p].earlier /\ t.at = "sync")
    <3>1. u = t
      BY <1>4, <1>5, <2>1, <2>4
    <3> QED BY <2>1, <2>2, <2>4, <3>1
  <2> QED BY <2>3, <2>4
<1>6. ASSUME req'[p].outcome = "conflict"
      PROVE  \/ req[p].outcome = "conflict" \/ Returns(KeysRead(p))
             \/ ~(req[p].twice \subseteq snaps.active)
  <2>1. SUFFICES ASSUME ~Returns(KeysRead(p)), req[p].twice \subseteq snaps.active
                 PROVE  req[p].outcome = "conflict"
    OBVIOUS
  <2>2. PICK g : /\ req' = Overtaken(g, p)
                 /\ \/ g = Finish(p, "analysed")
                    \/ req[p].kind # "analyse" /\ g = Concluded(p, req[p].readback)
    BY <2>1 DEF Sync, KeysRead
  <2>3. CASE g = Finish(p, "analysed")
    <3>1. g[p].outcome = "analysed" /\ g[p].at = "done"
      BY <2>3, FinishFacts DEF TypeInv, ReqInv, Outcomes
    <3>2. req'[p] = g[p]
      BY <2>2, <3>1 DEF Overtaken
    <3> QED BY <1>6, <3>1, <3>2
  <2>4. CASE req[p].kind # "analyse" /\ g = Concluded(p, req[p].readback)
    <3>1. req[p].wrote /\ req[p].readback \in SUBSET Record
      BY <1>2, <2>4 DEF TypeInv, ReqInv, Phase, RequestType
    <3>2. \/ g[p].at = "resolve" /\ g[p].outcome = req[p].outcome
          \/ g[p].at = "done" /\ g[p].outcome = "recorded"
      BY <1>2, <2>4, <3>1, ConcludedFacts
    <3>3. req'[p] = g[p]
      BY <2>2, <3>2 DEF Overtaken
    <3> QED BY <1>6, <3>2, <3>3
  <2> QED BY <2>2, <2>3, <2>4
<1> QED BY <1>2, <1>3, <1>4, <1>5, <1>6

\* The history takes over a listing that is right about its ids, or is stale.
LEMMA SyncDisorder ==
  ASSUME TypeInv, DisorderInv, NEW p \in Requests, Sync(p)
  PROVE  DisorderInv'
<1>1. /\ p \in Syncing /\ UNCHANGED <<zone, nextId>>
      /\ req'[p].at \in {"resolve", "done"} /\ req'[p].earlier = {}
      /\ req'[p].first = req[p].first \/ req'[p].first = {}
      /\ req'[p].outcome = "conflict"
           => \/ req[p].outcome = "conflict" \/ Returns(KeysRead(p))
              \/ ~(req[p].twice \subseteq snaps.active)
      /\ \A q \in Requests : q # p =>
           /\ req'[q].at = req[q].at /\ req'[q].earlier = req[q].earlier
           /\ req'[q].readback = req[q].readback /\ req'[q].first = req[q].first
           /\ req'[q].outcome = req[q].outcome
           /\ req'[q].stale = (req[q].stale \/ (req[q].at = "sync" /\ q \in req[p].earlier))
  BY SyncOthers
<1>2. /\ Syncing' = Syncing \ {p}
      /\ \A q \in Syncing' : /\ q \in Requests /\ q # p /\ KeysRead(q)' = KeysRead(q)
                             /\ req'[q].earlier = req[q].earlier
                             /\ ~req'[q].stale => ~req[q].stale /\ q \notin req[p].earlier
      /\ \A q \in Requests : req'[q].earlier \subseteq req[q].earlier
  BY <1>1 DEF Syncing, KeysRead
<1>3. \A r \in Requests : \A k : GoneSince(k, r) => GoneSince(k, r)'
  BY <1>1, <1>2 DEF GoneSince
<1>4. \A r \in Syncing' : \A ids : RightAbout(r, ids) => \A k \in ids : k \in KeysRead(r)' \/ GoneSince(k, r)'
  BY <1>2, <1>3 DEF RightAbout
<1>5. Ordered'
  <2>2. ASSUME NEW r \in Requests, NEW q \in req'[r].earlier PROVE req'[q].at \in PastListing
    <3>1. q \in Requests /\ req[q].at \in PastListing
      BY <1>2, <2>2 DEF DisorderInv, Ordered, TypeInv, ReqInv, RequestType
    <3> QED BY <1>1, <3>1 DEF PastListing
  <2>3. \A q, r \in Syncing' : q = r \/ q \in req'[r].earlier \/ r \in req'[q].earlier
    BY <1>2 DEF DisorderInv, Ordered
  <2> QED BY <2>2, <2>3 DEF Ordered
<1>6. LaterIsRight'
  <2>1. SUFFICES ASSUME NEW r \in Syncing', NEW q \in req'[r].earlier \cap Syncing', ~req'[r].stale
                 PROVE  \A k \in KeysRead(q)' : k \in KeysRead(r)' \/ GoneSince(k, r)'
    BY DEF LaterIsRight, RightAbout
  <2>2. RightAbout(r, KeysRead(q)) /\ KeysRead(q)' = KeysRead(q)
    BY <1>2, <2>1 DEF DisorderInv, LaterIsRight
  <2> QED BY <1>4, <2>2
<1>7. ~snaps.disorder /\ ~req[p].stale =>
        /\ ~Returns(KeysRead(p)) /\ RightAbout(p, snaps.active) /\ Keys(zone) \cap snaps.removed = {}
        /\ req[p].twice \subseteq snaps.active /\ req[p].outcome # "conflict"
  <2>1. ~req[p].stale => req[p].twice = {}
    BY <1>1 DEF Syncing, TypeInv, ReqInv, Phase
  <2> QED BY <1>1, <2>1 DEF DisorderInv, InStep, Returns, ConflictIsDisorder
<1>8. \A r \in Requests : \A k \in Keys(req'[r].first) : k < nextId'
  <2>1. Keys({}) = {}
    BY DEF Keys
  <2> QED BY <1>1, <2>1 DEF DisorderInv, Numbered
<1>9. req[p].stale \in BOOLEAN /\ snaps.disorder \in BOOLEAN
  BY DEF TypeInv, SnapsType, ReqInv, RequestType
<1>10. CASE Returns(KeysRead(p)) \/ ~(req[p].twice \subseteq snaps.active)
  <2>1. snaps' = [snaps EXCEPT !.disorder = @ \/ req[p].stale]
    BY <1>10 DEF Sync, KeysRead
  <2>2. snaps.disorder \/ req[p].stale
    BY <1>7, <1>10
  <2>3. snaps'.disorder /\ snaps'.active = snaps.active /\ snaps'.removed = snaps.removed
    BY <2>1, <2>2 DEF TypeInv, SnapsType
  <2>4. InStep' /\ ConflictIsDisorder'
    BY <2>3 DEF InStep, ConflictIsDisorder
  <2>5. Numbered'
    BY <1>1, <1>2, <1>8, <2>3 DEF DisorderInv, Numbered
  <2> QED BY <1>5, <1>6, <2>4, <2>5 DEF DisorderInv
<1>11. CASE ~(Returns(KeysRead(p)) \/ ~(req[p].twice \subseteq snaps.active))
  <2>1. snaps' = [active |-> KeysRead(p), removed |-> snaps.removed \cup (snaps.active \ KeysRead(p)),
                  disorder |-> snaps.disorder \/ req[p].stale]
    BY <1>11 DEF Sync, KeysRead
  <2>2. /\ snaps'.active = KeysRead(p)
        /\ snaps'.removed = snaps.removed \cup (snaps.active \ KeysRead(p))
        /\ snaps.disorder \/ req[p].stale <=> snaps'.disorder
    BY <2>1
  <2>3. Numbered'
    BY <1>1, <1>2, <1>8, <2>2 DEF DisorderInv, Numbered
  <2>4. ConflictIsDisorder'
    BY <1>1, <1>11, <2>2 DEF DisorderInv, ConflictIsDisorder
  <2>5. InStep'
    <3>1. SUFFICES ASSUME ~snaps'.disorder PROVE /\ Keys(zone)' \cap snaps'.removed = {}
                   /\ \A r \in Syncing' : ~req'[r].stale =>
                        /\ KeysRead(r)' \cap snaps'.removed = {}
                        /\ \A k \in snaps'.active : k \in KeysRead(r)' \/ GoneSince(k, r)'
      BY DEF InStep, RightAbout
    <3>2. ~snaps.disorder /\ ~req[p].stale /\ RightAbout(p, snaps.active)
          /\ Keys(zone) \cap snaps.removed = {}
      BY <1>7, <2>2, <3>1
    <3>3. Keys(zone)' \cap snaps'.removed = {}
      BY <1>1, <2>2, <3>2 DEF RightAbout, GoneSince
    <3>4. ASSUME NEW r \in Syncing', ~req'[r].stale
          PROVE  /\ KeysRead(r)' \cap snaps'.removed = {}
                 /\ \A k \in snaps'.active : k \in KeysRead(r)' \/ GoneSince(k, r)'
      <4>1. r \in Syncing /\ r # p /\ ~req[r].stale /\ r \notin req[p].earlier
        BY <1>2, <3>4
      <4>2. p \in req[r].earlier
        BY <1>1, <4>1 DEF DisorderInv, Ordered
      <4>3. KeysRead(r) \cap snaps.removed = {}
        BY <3>2, <4>1 DEF DisorderInv, InStep
      <4>4. \A k \in snaps.active \ KeysRead(p) : k \notin KeysRead(r)
        BY <3>2, <4>1, <4>2 DEF RightAbout, GoneSince
      <4>5. RightAbout(r, KeysRead(p))
        BY <1>1, <4>1, <4>2 DEF DisorderInv, LaterIsRight
      <4> QED BY <1>2, <1>4, <2>2, <3>4, <4>3, <4>4, <4>5
    <3> QED BY <3>3, <3>4
  <2> QED BY <1>5, <1>6, <2>3, <2>4, <2>5 DEF DisorderInv
<1> QED BY <1>10, <1>11

-----------------------------------------------------------------------------
\* A step of one request that takes no listing, the zone as it is.
LEMMA OneQuiet ==
  ASSUME TypeInv, NEW r \in Requests, \A q \in Requests : q # r => req'[q] = req[q],
         KeptListing(req[r], req'[r]), UNCHANGED <<zone, nextId, snaps>>
  PROVE  QuietStep
<1>1. \A q \in Requests : KeptListing(req[q], req'[q])
  BY DEF KeptListing
<1>2. nextId \in Nat
  BY ChangeAssumption DEF TypeInv, ZoneType
<1> QED BY <1>1, <1>2 DEF QuietStep, KeysKept

LEMMA FinishQuiet ==
  ASSUME TypeInv, NEW r \in Requests, NEW o \in Outcomes \ {"conflict"},
         NEW f, f = Finish(r, o)
  PROVE  /\ f \in [Requests -> RequestType] /\ \A q \in Requests : q # r => f[q] = req[q]
         /\ f[r].at = "done" /\ f[r].outcome = o /\ f[r].earlier = {} /\ f[r].first = {}
BY FinishFacts DEF TypeInv, ReqInv

LEMMA ChangedQuiet ==
  ASSUME TypeInv, NEW c, NEW q \in Requests
  PROVE  KeptListing(req[q], ZoneChanged(req, c)[q])
<1>1. PICK t, u : t = req[q] /\ u = ZoneChanged(req, c)[q]
  OBVIOUS
<1>2. t \in RequestType
  BY <1>1 DEF TypeInv, ReqInv
<1>3. \/ u = t \/ (t.at = "paging" /\ u = [t EXCEPT !.stale = TRUE])
      \/ u = [t EXCEPT !.raced = TRUE]
  BY <1>1, ChangedRequests DEF TypeInv
<1>4. /\ u.at = t.at /\ u.earlier = t.earlier /\ u.readback = t.readback /\ u.outcome = t.outcome
      /\ u.first = t.first /\ (u.at = "sync" => u.stale = t.stale)
  <2>1. CASE u = t
    BY <2>1
  <2>2. CASE t.at = "paging" /\ u = [t EXCEPT !.stale = TRUE]
    BY <1>2, <2>2 DEF RequestType
  <2>3. CASE u = [t EXCEPT !.raced = TRUE]
    BY <1>2, <2>3 DEF RequestType
  <2> QED BY <1>3, <2>1, <2>2, <2>3
<1> QED BY <1>1, <1>4 DEF KeptListing

\* A write gives out one id at most, and brings none back.
LEMMA WriteKeepsKeys ==
  ASSUME TypeInv, NEW m, zone' = AfterWrite(m, zone), nextId' = NextIdAfter(zone')
  PROVE  KeysKept
<1>1. nextId \in Nat /\ IsFiniteSet(zone)
  BY ChangeAssumption DEF TypeInv, ZoneType, Sound
<1>2. nextId' = nextId + 1 \/ nextId' = nextId
  BY DEF NextIdAfter
<1>3. ASSUME NEW a \in zone' PROVE a.id = nextId \/ \E b \in zone : b.id = a.id
  BY <1>1, <1>3, AfterWriteRecords
<1> QED BY <1>1, <1>2, <1>3 DEF KeysKept, Keys, KeyOf

LEMMA PlanQuiet ==
  ASSUME TypeInv, NEW r \in Requests, NEW kind, NEW expect, Plan(r, kind, expect)
  PROVE  QuietStep
<1>1. PICK t, u : t = req[r] /\ u = req'[r]
  OBVIOUS
<1>2. t \in RequestType /\ t.at = "new"
  BY <1>1 DEF TypeInv, ReqInv, Plan
<1>3. u.at = "list" /\ u.earlier = t.earlier /\ u.outcome = t.outcome /\ u.first = t.first
      /\ \A q \in Requests : q # r => req'[q] = req[q]
  BY <1>1, <1>2 DEF Plan, TypeInv, ReqInv, RequestType
<1>4. KeptListing(t, u)
  BY <1>2, <1>3 DEF KeptListing, PastListing
<1> QED BY <1>1, <1>3, <1>4, OneQuiet DEF Plan

\* A request starts to list the records.
LEMMA BeginListingQuiet ==
  ASSUME TypeInv, NEW r \in Requests, BeginListing(r)
  PROVE  QuietStep
<1>1. PICK t, u : t = req[r] /\ u = req'[r]
  OBVIOUS
<1>2. /\ \A q \in Requests : q # r => req'[q] = req[q]
      /\ t.at \in {"new", "list", "readback"} /\ u.at = "paging" /\ u.first = zone
      /\ u.earlier = t.earlier /\ u.outcome = t.outcome
  BY <1>1, BeginListingFacts
<1>3. KeptListing(t, u)
  BY <1>2 DEF KeptListing, PastListing
<1> QED BY <1>1, <1>2, <1>3, OneQuiet DEF BeginListing

\* A request ends, and the record of it is completed.
LEMMA EndQuiet ==
  ASSUME TypeInv, NEW r \in Requests, NEW f, f \in [Requests -> RequestType],
         \A q \in Requests : q # r => f[q] = req[q],
         f[r].at = "done", f[r].outcome # "conflict", f[r].earlier = {}, f[r].first = {},
         NEW u, req' = [f EXCEPT ![r] = u],
         u.at = f[r].at, u.outcome = f[r].outcome, u.earlier = f[r].earlier, u.first = f[r].first,
         UNCHANGED <<zone, nextId, snaps>>
  PROVE  QuietStep
<1>1. req'[r] = u /\ \A q \in Requests : q # r => req'[q] = req[q]
  OBVIOUS
<1>2. KeptListing(req[r], u)
  BY DEF KeptListing, PastListing
<1> QED BY <1>1, <1>2, OneQuiet

LEMMA JustFinishQuiet ==
  ASSUME TypeInv, NEW r \in Requests, NEW o \in Outcomes \ {"conflict"},
         req' = Finish(r, o), UNCHANGED <<zone, nextId, snaps>>
  PROVE  QuietStep
<1>1. KeptListing(req[r], req'[r])
  BY FinishQuiet DEF KeptListing, PastListing
<1> QED BY <1>1, FinishQuiet, OneQuiet

LEMMA PreviewQuiet ==
  ASSUME TypeInv, NEW r \in Requests, Preview(r)
  PROVE  QuietStep
<1>0. UNCHANGED <<zone, nextId, snaps>> /\ {"refused", "previewed"} \subseteq Outcomes \ {"conflict"}
  BY DEF Preview, Outcomes
<1>1. CASE req' = Finish(r, "refused")
  BY <1>0, <1>1, JustFinishQuiet
<1>2. ASSUME NEW m, req' = [Finish(r, "previewed") EXCEPT ![r].m = m]
      PROVE  QuietStep
  <2>1. PICK f, u : f = Finish(r, "previewed") /\ u = [f[r] EXCEPT !.m = m]
    OBVIOUS
  <2>2. /\ f \in [Requests -> RequestType] /\ \A q \in Requests : q # r => f[q] = req[q]
        /\ f[r].at = "done" /\ f[r].outcome = "previewed" /\ f[r].earlier = {} /\ f[r].first = {}
    BY <1>0, <2>1, FinishQuiet
  <2>3. f[r] \in RequestType
    BY <2>2
  <2>4. u.at = f[r].at /\ u.outcome = f[r].outcome /\ u.earlier = f[r].earlier /\ u.first = f[r].first
    BY <2>1, <2>3 DEF RequestType
  <2>5. req' = [f EXCEPT ![r] = u]
    BY <1>2, <2>1
  <2> QED BY <1>0, <2>2, <2>4, <2>5, EndQuiet
<1>3. \/ req' = Finish(r, "refused")
      \/ \E m : req' = [Finish(r, "previewed") EXCEPT ![r].m = m]
  BY DEF Preview
<1> QED BY <1>1, <1>2, <1>3

LEMMA PrepareWriteQuiet ==
  ASSUME TypeInv, NEW r \in Requests, PrepareWrite(r)
  PROVE  QuietStep
<1>0. /\ UNCHANGED <<zone, nextId, snaps>> /\ {"refused", "recorded"} \subseteq Outcomes \ {"conflict"}
      /\ req[r] \in RequestType /\ req[r].at \in {"list", "paging"}
  BY DEF PrepareWrite, Listed, Outcomes, TypeInv, ReqInv
<1>1. PICK l \in Listings(r) :
        \E m :
          /\ m = Prepared(req[r].plan, l.records)
          /\ \/ req' = Finish(r, "refused")
             \/ req' = [Finish(r, "recorded") EXCEPT ![r].m = m, ![r].verified = TRUE]
             \/ req' = [req EXCEPT ![r] = Ready(req[r], m)]
  BY PrepareWriteShape
<1>1a. PICK m :
        /\ m = Prepared(req[r].plan, l.records)
        /\ \/ req' = Finish(r, "refused")
           \/ req' = [Finish(r, "recorded") EXCEPT ![r].m = m, ![r].verified = TRUE]
           \/ req' = [req EXCEPT ![r] = Ready(req[r], m)]
  BY <1>1
<1>2. CASE req' = Finish(r, "refused")
  BY <1>0, <1>2, JustFinishQuiet
<1>3. CASE req' = [Finish(r, "recorded") EXCEPT ![r].m = m, ![r].verified = TRUE]
  <2>1. PICK f, u : f = Finish(r, "recorded") /\ u = [f[r] EXCEPT !.m = m, !.verified = TRUE]
    OBVIOUS
  <2>2. /\ f \in [Requests -> RequestType] /\ \A q \in Requests : q # r => f[q] = req[q]
        /\ f[r].at = "done" /\ f[r].outcome = "recorded" /\ f[r].earlier = {} /\ f[r].first = {}
    BY <1>0, <2>1, FinishQuiet
  <2>3. f[r] \in RequestType
    BY <2>2
  <2>4. u.at = f[r].at /\ u.outcome = f[r].outcome /\ u.earlier = f[r].earlier /\ u.first = f[r].first
    BY <2>1, <2>3 DEF RequestType
  <2>5. req' = [f EXCEPT ![r] = u]
    BY <1>3, <2>1
  <2> QED BY <1>0, <2>2, <2>4, <2>5, EndQuiet
<1>4. CASE req' = [req EXCEPT ![r] = Ready(req[r], m)]
  <2>1. PICK t, u : t = req[r] /\ u = req'[r]
    OBVIOUS
  <2>2. u = Ready(t, m) /\ \A q \in Requests : q # r => req'[q] = req[q]
    BY <1>4, <2>1 DEF TypeInv, ReqInv
  <2>3. u.at = "write" /\ u.earlier = t.earlier /\ u.outcome = t.outcome /\ u.first = {}
    BY <1>0, <2>1, <2>2 DEF RequestType, Ready
  <2>4. KeptListing(t, u)
    BY <1>0, <2>1, <2>3 DEF KeptListing, PastListing
  <2> QED BY <1>0, <2>1, <2>2, <2>4, OneQuiet
<1> QED BY <1>1a, <1>2, <1>3, <1>4

LEMMA WriteQuiet ==
  ASSUME TypeInv, NEW r \in Requests, Write(r)
  PROVE  QuietStep
<1>1. PICK t, u : t = req[r] /\ u = req'[r]
  OBVIOUS
<1>2. t \in RequestType /\ t.at = "write" /\ UNCHANGED snaps
  BY <1>1 DEF TypeInv, ReqInv, Write
<1>3. CASE CanWrite(req[r].m, zone)
  <2>1. PICK l, s : req' = [ZoneChanged(req, r) EXCEPT ![r] = Writer(t, l, s)]
    BY <1>1, <1>3, WriteShape DEF TypeInv
  <2>2. u = Writer(t, l, s) /\ \A q \in Requests : q # r => req'[q] = ZoneChanged(req, r)[q]
    BY <1>1, <2>1, ChangedRequests DEF TypeInv
  <2>3. u.at = "readback" /\ u.earlier = t.earlier /\ u.outcome = t.outcome /\ u.first = t.first
    BY <1>2, <2>2 DEF Writer, RequestType
  <2>4. KeptListing(t, u)
    BY <1>2, <2>3 DEF KeptListing, PastListing
  <2>5. \A q \in Requests : KeptListing(req[q], req'[q])
    BY <1>1, <2>2, <2>4, ChangedQuiet
  <2>6. KeysKept
    BY <1>3, WriteKeepsKeys DEF Write
  <2> QED BY <1>2, <2>5, <2>6 DEF QuietStep
<1>4. CASE ~CanWrite(req[r].m, zone)
  BY <1>2, <1>4, JustFinishQuiet DEF Write, Outcomes
<1> QED BY <1>3, <1>4

LEMMA ReadBackQuiet ==
  ASSUME TypeInv, NEW r \in Requests, ReadBack(r)
  PROVE  QuietStep
<1>1. req[r].at = "readback" /\ req[r].wrote /\ Txt(zone) \in SUBSET Record
      /\ UNCHANGED <<zone, nextId, snaps>>
  BY DEF TypeInv, ReqInv, Phase, ReadBack, Txt, ZoneType
<1>2. /\ \A q \in Requests : q # r => req'[q] = req[q]
      /\ req'[r].earlier = {} /\ (req'[r].first = req[r].first \/ req'[r].first = {})
      /\ \/ req'[r].at = "resolve" /\ req'[r].outcome = req[r].outcome
         \/ req'[r].at = "done" /\ req'[r].outcome = "recorded"
  BY <1>1, ConcludedFacts DEF ReadBack
<1>3. KeptListing(req[r], req'[r])
  BY <1>1, <1>2 DEF KeptListing, PastListing
<1> QED BY <1>1, <1>2, <1>3, OneQuiet

LEMMA AskResolverQuiet ==
  ASSUME TypeInv, NEW r \in Requests, NEW x \in Resolvers, AskResolver(r, x)
  PROVE  QuietStep
<1>1. PICK t, u : t = req[r] /\ u = req'[r]
  OBVIOUS
<1>2. t \in RequestType /\ t.at = "resolve" /\ UNCHANGED <<zone, nextId, snaps>>
  BY <1>1 DEF TypeInv, ReqInv, AskResolver
<1>3. PICK answer : req' = [req EXCEPT ![r].checks[x] = answer]
  BY DEF AskResolver
<1>4. u = [t EXCEPT !.checks[x] = answer] /\ \A q \in Requests : q # r => req'[q] = req[q]
  BY <1>1, <1>3 DEF TypeInv, ReqInv
<1>5. u.at = t.at /\ u.earlier = t.earlier /\ u.outcome = t.outcome /\ u.first = t.first
  BY <1>2, <1>4 DEF RequestType
<1>6. KeptListing(t, u)
  BY <1>2, <1>5 DEF KeptListing
<1> QED BY <1>1, <1>2, <1>4, <1>6, OneQuiet

LEMMA ResolversAnsweredQuiet ==
  ASSUME TypeInv, NEW r \in Requests, ResolversAnswered(r)
  PROVE  QuietStep
<1>1. PICK f, v, u : /\ f = Finish(r, "recorded") /\ v = Agreement(req[r].checks)
                     /\ u = [f[r] EXCEPT !.verified = v]
  OBVIOUS
<1>2. /\ f \in [Requests -> RequestType] /\ \A q \in Requests : q # r => f[q] = req[q]
      /\ f[r].at = "done" /\ f[r].outcome = "recorded" /\ f[r].earlier = {} /\ f[r].first = {}
  BY <1>1, FinishQuiet DEF Outcomes
<1>3. f[r] \in RequestType
  BY <1>2
<1>4. u.at = f[r].at /\ u.outcome = f[r].outcome /\ u.earlier = f[r].earlier /\ u.first = f[r].first
  BY <1>1, <1>3 DEF RequestType
<1>5. req' = [f EXCEPT ![r] = u] /\ UNCHANGED <<zone, nextId, snaps>>
  BY <1>1 DEF ResolversAnswered
<1> QED BY <1>2, <1>4, <1>5, EndQuiet

LEMMA ProviderFailsQuiet ==
  ASSUME TypeInv, NEW r \in Requests, ProviderFails(r)
  PROVE  QuietStep
<1>1. UNCHANGED snaps /\ "failed" \in Outcomes \ {"conflict"}
  BY DEF ProviderFails, Outcomes
<1>2. CASE req' = Finish(r, "failed") /\ UNCHANGED <<zone, nextId>>
  BY <1>1, <1>2, JustFinishQuiet
<1>3. CASE /\ zone' = AfterWrite(req[r].m, zone) /\ nextId' = NextIdAfter(zone')
           /\ req' = [ZoneChanged(Finish(r, "failed"), r) EXCEPT ![r].wrote = TRUE]
  <2>1. PICK u : u = req'[r]
    OBVIOUS
  <2>2. /\ \A q \in Requests : q # r => req'[q] = ZoneChanged(req, r)[q]
        /\ u.at = "done" /\ u.outcome = "failed" /\ u.first = {} /\ u.earlier = {}
    BY <1>3, <2>1, LostAnswerFacts
  <2>3. KeptListing(req[r], u)
    BY <2>2 DEF KeptListing, PastListing
  <2>4. \A q \in Requests : KeptListing(req[q], req'[q])
    BY <2>1, <2>2, <2>3, ChangedQuiet
  <2>5. KeysKept
    BY <1>3, WriteKeepsKeys
  <2> QED BY <1>1, <2>4, <2>5 DEF QuietStep
<1> QED BY <1>2, <1>3 DEF ProviderFails

LEMMA CrashQuiet == TypeInv /\ Crash => QuietStep
<1> SUFFICES ASSUME TypeInv, Crash PROVE QuietStep
  OBVIOUS
<1>1. ASSUME NEW q \in Requests PROVE KeptListing(req[q], req'[q])
  <2>1. PICK t, u : t = req[q] /\ u = req'[q]
    OBVIOUS
  <2>2. \/ u = t
        \/ u.at = "done" /\ u.outcome = "failed" /\ u.first = {} /\ u.earlier = {}
    BY <2>1, CrashFacts
  <2>3. KeptListing(t, u)
    BY <2>2 DEF KeptListing, PastListing
  <2> QED BY <2>1, <2>3
<1>2. nextId \in Nat
  BY ChangeAssumption DEF TypeInv, ZoneType
<1> QED BY <1>1, <1>2 DEF Crash, QuietStep, KeysKept

LEMMA ForeignEditQuiet == TypeInv /\ ForeignEdit => QuietStep
<1> SUFFICES ASSUME TypeInv, ForeignEdit PROVE QuietStep
  OBVIOUS
<1>1. nextId \in Nat
  BY ChangeAssumption DEF TypeInv, ZoneType
<1>2. PICK r \in zone \cup {[id |-> nextId, type |-> "TXT", value |-> Starter]},
           new \in {{}} \cup { {[type |-> "TXT", value |-> v]} : v \in TxtValues }
                        \cup {{[type |-> "CNAME", value |-> Target]}} :
        /\ zone' = (zone \ {r}) \cup { [id |-> r.id, type |-> a.type, value |-> a.value] : a \in new }
        /\ nextId' = NextIdAfter(zone')
  BY DEF ForeignEdit
<1>3. r.id = nextId \/ r.id \in Keys(zone)
  BY <1>2 DEF Keys, KeyOf
<1>4. \A b \in zone' : b.id = r.id \/ b \in zone
  BY <1>2
<1>5. \A k \in Keys(zone') : k = r.id \/ k \in Keys(zone)
  BY <1>4 DEF Keys, KeyOf
<1>6. KeysKept
  <2>1. nextId' = nextId \/ nextId' = nextId + 1
    BY <1>2 DEF NextIdAfter
  <2> QED BY <1>1, <1>3, <1>5, <2>1 DEF KeysKept
<1>7. \A q \in Requests : KeptListing(req[q], req'[q])
  BY ChangedQuiet DEF ForeignEdit
<1> QED BY <1>6, <1>7 DEF QuietStep, ForeignEdit

LEMMA EditElsewhereQuiet == TypeInv /\ EditElsewhere => QuietStep
<1> SUFFICES ASSUME TypeInv, EditElsewhere PROVE QuietStep
  OBVIOUS
<1>1. ASSUME NEW q \in Requests PROVE KeptListing(req[q], req'[q])
  <2>1. PICK t, u : t = req[q] /\ u = req'[q]
    OBVIOUS
  <2>2. t \in RequestType /\ (u = t \/ (t.at = "paging" /\ u = [t EXCEPT !.stale = TRUE]))
    BY <2>1, EditElsewhereFacts DEF TypeInv, ReqInv
  <2>3. CASE t.at = "paging" /\ u = [t EXCEPT !.stale = TRUE]
    <3>1. u.at = t.at /\ u.earlier = t.earlier /\ u.outcome = t.outcome /\ u.first = t.first
      BY <2>2, <2>3 DEF RequestType
    <3> QED BY <2>1, <2>3, <3>1 DEF KeptListing
  <2>4. CASE u = t
    BY <2>1, <2>4 DEF KeptListing
  <2> QED BY <2>2, <2>3, <2>4
<1>2. nextId \in Nat
  BY ChangeAssumption DEF TypeInv, ZoneType
<1> QED BY <1>1, <1>2 DEF EditElsewhere, QuietStep, KeysKept

LEMMA PropagateQuiet ==
  ASSUME TypeInv, NEW x \in Resolvers, Propagate(x)
  PROVE  QuietStep
<1>1. ASSUME NEW q \in Requests PROVE KeptListing(req[q], req'[q])
  <2>1. PICK t, u : t = req[q] /\ u = req'[q]
    OBVIOUS
  <2>2. t \in RequestType /\ (u = t \/ u = [t EXCEPT !.shown = t.shown \cup {x}])
    BY <2>1 DEF TypeInv, ReqInv, Propagate
  <2>3. /\ u.at = t.at /\ u.earlier = t.earlier /\ u.readback = t.readback /\ u.outcome = t.outcome
        /\ u.first = t.first /\ u.stale = t.stale
    BY <2>2 DEF RequestType
  <2> QED BY <2>1, <2>3 DEF KeptListing
<1>2. nextId \in Nat
  BY ChangeAssumption DEF TypeInv, ZoneType
<1> QED BY <1>1, <1>2 DEF Propagate, QuietStep, KeysKept

LEMMA SameQuiet == TypeInv /\ UNCHANGED <<zone, nextId, snaps, req>> => QuietStep
BY ChangeAssumption DEF TypeInv, ZoneType, QuietStep, KeysKept, KeptListing

\* Every step keeps the order of listings and history.
LEMMA DisorderStep == TypeInv /\ DisorderInv /\ [Next]_vars => DisorderInv'
<1> SUFFICES ASSUME TypeInv, DisorderInv, [Next]_vars PROVE DisorderInv'
  OBVIOUS
<1>0. QuietStep => DisorderInv'
  BY TypeStep, QuietDisorder
<1>1. CASE UNCHANGED vars
  BY <1>0, <1>1, SameQuiet DEF vars
<1>2. ASSUME NEW r \in Requests,
             \/ Plan(r, "preview", NoMutation)
             \/ \E expect \in Previews \cup {NoMutation} : Plan(r, "apply", expect)
      PROVE  DisorderInv'
  BY <1>0, <1>2, PlanQuiet
<1>3. ASSUME NEW r \in Requests,
             \/ BeginListing(r) \/ Preview(r) \/ PrepareWrite(r) \/ Write(r)
             \/ ReadBack(r) \/ List(r) \/ Sync(r)
      PROVE  DisorderInv'
  BY <1>0, <1>3, BeginListingQuiet, PreviewQuiet, PrepareWriteQuiet, WriteQuiet, ReadBackQuiet, ListDisorder, SyncDisorder
<1>4. ASSUME NEW r \in Requests,
             (\E x \in Resolvers : AskResolver(r, x)) \/ ResolversAnswered(r) \/ ProviderFails(r)
      PROVE  DisorderInv'
  BY <1>0, <1>4, AskResolverQuiet, ResolversAnsweredQuiet, ProviderFailsQuiet
<1>5. CASE RefreshEvidence \/ ProveOwnership
  BY <1>0, <1>5, SameQuiet DEF RefreshEvidence, ProveOwnership
<1>6. CASE Crash \/ ForeignEdit \/ EditElsewhere
  BY <1>0, <1>6, CrashQuiet, ForeignEditQuiet, EditElsewhereQuiet
<1>7. CASE \E x \in Resolvers : Propagate(x)
  BY <1>0, <1>7, PropagateQuiet
<1> QED BY <1>1, <1>2, <1>3, <1>4, <1>5, <1>6, <1>7 DEF Next

\* The history refuses a listing only after one was processed that was older
\* than one processed before it, or that was read while the zone changed.
THEOREM ConflictsAreDisorder == Spec => []ConflictIsDisorder
<1>1. Init => TypeInv /\ DisorderInv
  BY InitType, InitDisorder
<1>2. TypeInv /\ DisorderInv /\ [Next]_vars => (TypeInv /\ DisorderInv)'
  BY TypeStep, DisorderStep
<1>3. DisorderInv => ConflictIsDisorder
  BY DEF DisorderInv
<1> QED BY <1>1, <1>2, <1>3, PTL DEF Spec
=============================================================================

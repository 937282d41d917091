--------------------------- MODULE ContextAssembly ---------------------------
(***************************************************************************)
(* The working set of a mission: retrieved candidates become handles, a    *)
(* preview plan decides which of them enter the model, a view is           *)
(* materialized from it under version pins, and what is made from a view   *)
(* is published as an artifact that cites what was seen                    *)
(* (runtime_contracts/models: visibility, handle, evidence, context).      *)
(*                                                                         *)
(* The retrieval index, the planner that authorizes, the materializer and  *)
(* the artifact store are not in this repository; they do what the         *)
(* docstrings of the outcomes they fill in say.  A hash is what it is the  *)
(* hash of, an optional field a set of at most one element, and a tenancy  *)
(* without a tenant has the empty set for it.                              *)
(***************************************************************************)
EXTENDS FiniteSetsExt, Sequences, Naturals, TLC

CONSTANTS
    ArtifactIds,    \* version-pinned ids of artifacts
    InitialBacking, \* the artifacts there are at first
    ChangingIds,    \* the ids whose referent may be changed under them
    Tenancies,      \* the tenancies of readers and of what they publish
    PlanShapes,     \* necessity and projection an item may be planned with
    Budget,         \* tokens a plan may expand to
    MaxItems,       \* bound: items of a plan
    MaxViews,       \* bound: materializations
    MaxHash         \* bound: changes of a referent

VARIABLES
    backing,        \* the artifacts: content, tenancy and what each cites
    reader,         \* the tenancy the plan is for
    plan,           \* the items planned so far
    views           \* the views materialized, with what each showed (history)

contextVars == <<backing, reader, plan, views>>

-----------------------------------------------------------------------------
\* Tenancy.__post_init__
TenancyHolds(t) ==
    /\ t.visibility = "PRIVATE" => t.tenant # {}
    /\ t.visibility = "PUBLIC" => t.tenant = {}

\* Mutant: tenants are compared, the public is forgotten.
MayBeCitedBy_Tenant(t, other) == t.visibility = "PUBLIC" \/ t.tenant = other.tenant

\* may_be_cited_by: references run one way.
MayBeCitedBy(t, other) ==
    \/ t.visibility = "PUBLIC"
    \/ other.visibility # "PUBLIC" /\ t.tenant = other.tenant

\* The artifacts there are at first are artifacts, and cite what exists and may
\* be cited.
ASSUME BackingAssumption ==
    /\ DOMAIN InitialBacking \subseteq ArtifactIds
    /\ \A a \in DOMAIN InitialBacking :
          /\ DOMAIN InitialBacking[a] = {"content", "tenancy", "cites", "tokens"}
          /\ \A c \in InitialBacking[a].cites :
                /\ c \in DOMAIN InitialBacking
                /\ MayBeCitedBy(InitialBacking[c].tenancy, InitialBacking[a].tenancy)

\* candidate_to_handle: a candidate that could not be resolved again is refused.
CandidateToHandle(c) ==
    IF c.complete /\ c.pinned /\ TenancyHolds(c.tenancy)
    THEN {[artifact_id |-> c.artifact_id, content |-> c.content, tenancy |-> c.tenancy,
           tokens |-> c.tokens]}
    ELSE {}

\* ArtifactHandle.canonical_form: what it would cost to expand is not part of it.
HandleIdentity(h) == [artifact_id |-> h.artifact_id, content |-> h.content, tenancy |-> h.tenancy]

ItemIdentity(i) == [i EXCEPT !.handle = HandleIdentity(@)]

SortKey(i) == <<i.handle.artifact_id, i.projection, i.necessity>>

\* Mutant: one item to an artifact.
SortedUnique_ByArtifact(items) ==
    {items[i] : i \in {j \in DOMAIN items :
        \A k \in 1..j - 1 : items[k].handle.artifact_id # items[j].handle.artifact_id}}

\* sorted_unique: of the items with one key, the first.
SortedUnique(items) ==
    {items[i] : i \in {j \in DOMAIN items :
        \A k \in 1..j - 1 : SortKey(items[k]) # SortKey(items[j])}}

\* plan_hash
PlanIdentity(items) == {ItemIdentity(i) : i \in SortedUnique(items)}

\* ContextView.view_hash
ViewIdentity(items, pins) == [plan |-> PlanIdentity(items), pins |-> pins]

Required(items) == {i \in DOMAIN items : items[i].necessity = "REQUIRED"}

\* The tokens of the required items; an unknown estimate counts nothing.
RequiredTokens(items) ==
    MapThenSumSet(LAMBDA i : IF items[i].handle.tokens = {} THEN 0
                             ELSE CHOOSE n \in items[i].handle.tokens : TRUE,
                  Required(items))

\* ContextPreviewPlan.feasibility
Feasibility(items) ==
    IF \E i \in Required(items) : items[i].authorization # "GRANTED" THEN "INFEASIBLE_AUTHORIZATION"
    ELSE IF RequiredTokens(items) > Budget THEN "INFEASIBLE_BUDGET"
    ELSE "FEASIBLE"

\* divergence_from, of the pins of two views.
DivergenceFrom(mine, theirs) ==
    {a \in DOMAIN mine \cup DOMAIN theirs :
        ~(a \in DOMAIN mine /\ a \in DOMAIN theirs /\ mine[a] = theirs[a])}

-----------------------------------------------------------------------------
\* What the planner writes for a handle and a reader.
Authorization(h) ==
    IF MayBeCitedBy(h.tenancy, reader) THEN "GRANTED"
    ELSE IF reader.visibility = "PUBLIC" THEN "DENIED_VISIBILITY" ELSE "DENIED_TENANT"

\* The index answers with an artifact as it is, or as it was before a change.
Candidates ==
    {[artifact_id |-> a, content |-> n, tenancy |-> backing[a].tenancy, tokens |-> backing[a].tokens,
      complete |-> complete, pinned |-> TRUE] :
        a \in DOMAIN backing, n \in 0..MaxHash, complete \in BOOLEAN}

\* How dereferencing a granted item ends: under the pin, or not at all.
Materialize(i) ==
    IF i.authorization # "GRANTED" THEN "DENIED"
    ELSE IF backing[i.handle.artifact_id].content # i.handle.content THEN "STALE_PIN"
    ELSE "MATERIALIZED"

Shown(items) == {items[i] : i \in {j \in DOMAIN items : Materialize(items[j]) = "MATERIALIZED"}}

-----------------------------------------------------------------------------
ContextInit ==
    /\ backing = InitialBacking
    /\ reader \in Tenancies
    /\ plan = << >>
    /\ views = {}

\* A candidate is retrieved and planned.
Plan(c, shape) ==
    /\ Len(plan) < MaxItems /\ Cardinality(views) < MaxViews
    /\ c.content <= backing[c.artifact_id].content
    /\ \E h \in CandidateToHandle(c) :
          plan' = Append(plan, [handle |-> h, necessity |-> shape[1], projection |-> shape[2],
                                authorization |-> Authorization(h)])
    /\ UNCHANGED <<backing, reader, views>>

\* A feasible plan is materialized; its pins are what was read.
Assemble ==
    /\ plan # << >> /\ Cardinality(views) < MaxViews
    /\ Feasibility(plan) = "FEASIBLE"
    /\ \A i \in Required(plan) : Materialize(plan[i]) = "MATERIALIZED"
    /\ LET shown == Shown(plan)
           pins == [a \in {i.handle.artifact_id : i \in shown} |-> backing[a].content]
       IN  views' = views \cup
               {[reader |-> reader, items |-> plan, identity |-> ViewIdentity(plan, pins),
                 seen |-> {<<i.handle.artifact_id, i.projection, pins[i.handle.artifact_id]>> : i \in shown}]}
    /\ plan' = << >>
    /\ UNCHANGED <<backing, reader>>

\* A plan that is not feasible, or stale, is given up.
Drop ==
    /\ plan # << >>
    /\ plan' = << >>
    /\ UNCHANGED <<backing, reader, views>>

\* Another reader's turn, once a view has been made.
NextReader(t) ==
    /\ plan = << >> /\ views # {} /\ t # reader
    /\ Cardinality(views) < MaxViews
    /\ reader' = t
    /\ UNCHANGED <<backing, plan, views>>

\* The referent of an artifact is changed under its id.
Change(a) ==
    /\ a \in DOMAIN backing \cap ChangingIds /\ backing[a].content < MaxHash
    /\ backing' = [backing EXCEPT ![a].content = @ + 1]
    /\ UNCHANGED <<reader, plan, views>>

\* What was made from a view is published, in a tenancy all it cites may be
\* cited by.
Publish(v, a, t) ==
    /\ a \in ArtifactIds \ DOMAIN backing
    /\ TenancyHolds(t)
    /\ LET cites == {s[1] : s \in v.seen} IN
       /\ cites # {}
       /\ \A c \in cites : MayBeCitedBy(backing[c].tenancy, t)
       /\ backing' = [b \in DOMAIN backing \cup {a} |->
              IF b = a THEN [content |-> 0, tenancy |-> t, cites |-> cites, tokens |-> {1}]
              ELSE backing[b]]
    /\ UNCHANGED <<reader, plan, views>>

ContextNext ==
    \/ \E c \in Candidates, shape \in PlanShapes : Plan(c, shape)
    \/ Assemble
    \/ Drop
    \/ \E t \in Tenancies : NextReader(t)
    \/ \E a \in ChangingIds : Change(a)
    \/ \E v \in views, a \in ArtifactIds, t \in Tenancies : Publish(v, a, t)

-----------------------------------------------------------------------------
\* The artifacts content of a may come from: a, and whatever those cite.
Origins(a) ==
    {b \in DOMAIN backing :
        \A S \in SUBSET DOMAIN backing :
            a \in S /\ (\A c \in S : backing[c].cites \subseteq S) => b \in S}

(***************************************************************************)
(* Whatever is seen, in a view or through any chain of published           *)
(* artifacts, what is private to a tenant is only seen by that tenant, and *)
(* a public reader sees only what is public.                               *)
(***************************************************************************)
NothingEscapes ==
    \A v \in views : \A s \in v.seen : \A a \in Origins(s[1]) :
        LET t == backing[a].tenancy IN
        /\ t.visibility = "PRIVATE" => v.reader.tenant = t.tenant
        /\ v.reader.visibility = "PUBLIC" => t.visibility = "PUBLIC"

\* The items of v for one artifact and projection that its plan hash takes for one
\* though they are not.
Collapsed(v, a, projection) ==
    \E i, j \in DOMAIN v.items :
        /\ SortKey(v.items[i]) = SortKey(v.items[j])
        /\ ItemIdentity(v.items[i]) # ItemIdentity(v.items[j])
        /\ v.items[i].handle.artifact_id = a /\ v.items[i].projection = projection

(***************************************************************************)
(* Two views of one plan hash, whoever planned them and whatever changed   *)
(* in between, showed the model the same content in the same projections,  *)
(* but for the artifacts divergence_from names, and for those the plan     *)
(* holds twice under one key: of these the hash names the first, and each  *)
(* is dereferenced.  So views of one view hash differ at most in the last. *)
(***************************************************************************)
SameViewSameBytes ==
    \A v, w \in views :
        v.identity.plan = w.identity.plan =>
            \A s \in v.seen \ w.seen :
                \/ s[1] \in DivergenceFrom(v.identity.pins, w.identity.pins)
                \/ Collapsed(v, s[1], s[2])

-----------------------------------------------------------------------------
(***************************************************************************)
(* "Two handles that differ in any canonical field are different handles   *)
(* and both survive" (runtime_contracts/canonical.py:208-209).  In the     *)
(* plan hash the key is the artifact, the projection and the necessity, so *)
(* that of two contents or two decisions under one key one is dropped.     *)
(***************************************************************************)
EveryHandleSurvives ==
    \A v \in views : \A i \in DOMAIN v.items :
        \E j \in v.identity.plan : j.handle = HandleIdentity(v.items[i].handle)
=============================================================================

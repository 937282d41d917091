----------------------------- MODULE Delegation -----------------------------
(***************************************************************************)
(* Delegated authority (runtime_contracts/protocol/security.py,            *)
(* AuthorityContext and verify_chain), from the root a mission starts with *)
(* to the credential and the execution identity its last holder gets.      *)
(*                                                                         *)
(* A chain grows by narrow, which refuses to widen, or by a context that   *)
(* somebody made without it: the class is plain data.  A chain made so is  *)
(* presented to verify_chain, which looks at one link after the other.     *)
(* Under an accepted chain the leaf is used, through authorize_request or  *)
(* through lease_decision; neither looks at the chain again.  A digest is  *)
(* injective: the digest of a context is that context, in a set that is    *)
(* empty for a root.                                                       *)
(***************************************************************************)
EXTENDS Integers, Sequences

CONSTANTS
    Permissions,    \* what a scope lists
    Wildcard,       \* the permission that stands for all
    Constraints,    \* what a constraint lists
    Principals,     \* principal references, with a tenant
    Costs,          \* budget ceilings, besides NoLimit
    NoLimit,        \* max_cost that is not set
    Expiries,       \* texts of an expiry, besides Never
    Never,          \* expires_at that is empty
    TextRank,       \* the place of a text in the order of strings
    Instant,        \* the instant a text stands for; 0 when it is no instant
    Terms,          \* arguments of narrow, and fields of contexts made without it
    Keep,           \* an argument of narrow that is left out
    MaxChain,       \* bound: contexts of a chain
    MaxClock        \* bound: readings of the clock

ASSUME CostsAssumption == Costs \subseteq Nat /\ NoLimit \notin Nat
ASSUME ExpiriesAssumption ==
    /\ Never \notin Expiries /\ Keep \notin Expiries \cup {Never}
    /\ TextRank \in [Expiries -> Nat] /\ Instant \in [Expiries -> Nat]
ASSUME TermsAssumption ==
    \A t \in Terms :
        /\ t.principal \in Principals
        /\ t.scope = Keep \/ t.scope \in SUBSET Permissions
        /\ t.constraints \in SUBSET Constraints
        /\ t.max_cost \in Costs \cup {NoLimit}
        /\ t.expires_at \in Expiries \cup {Never, Keep}
ASSUME BoundsAssumption == MaxChain \in Nat /\ MaxClock \in Nat

VARIABLES
    chain,      \* the contexts made so far, root first
    narrowed,   \* whether narrow made every one of them but the root (history)
    link,       \* verify_chain: how many contexts it has been through
    verdict,    \* "open" before verify_chain, then "verifying", "accepted" or "refused"
    clock,
    used        \* what the leaf was last used for

vars == <<chain, narrowed, link, verdict, clock, used>>

NotUsed == [at |-> "none"]

-----------------------------------------------------------------------------
Permits(a, p) == Wildcard \in a.scope \/ p \in a.scope

\* Mutant: a wildcard asked for is taken as covered.
CoversScope_AnyWildcard(a, scope) == \A p \in scope \ {Wildcard} : Permits(a, p)

CoversScope(a, scope) == \A p \in scope : Permits(a, p)

\* Mutant: a child without a ceiling passes.
WithinBudget_Unset(cost, a) ==
    a.max_cost # NoLimit /\ cost # NoLimit => cost =< a.max_cost

WithinBudget(cost, a) ==
    a.max_cost # NoLimit => cost # NoLimit /\ cost =< a.max_cost

\* Mutant: a child without an expiry passes.
WithinLifetime_Unset(expiry, a) ==
    a.expires_at # Never /\ expiry # Never => TextRank[expiry] =< TextRank[a.expires_at]

\* Expiries are compared as the texts they are.
WithinLifetime(expiry, a) ==
    a.expires_at # Never =>
        expiry # Never /\ TextRank[expiry] =< TextRank[a.expires_at]

Given(argument, inherited) == IF argument = Keep THEN inherited ELSE argument

\* Mutant: the constraints of the parent are left behind.
Child_OwnConstraints(a, t) ==
    [principal |-> t.principal,
     scope |-> Given(t.scope, a.scope),
     constraints |-> t.constraints,
     max_cost |-> IF t.max_cost = NoLimit THEN a.max_cost ELSE t.max_cost,
     expires_at |-> Given(t.expires_at, a.expires_at),
     parent |-> {a},
     depth |-> a.depth + 1]

\* The child narrow makes of a, whether it is refused or not.
Child(a, t) ==
    [principal |-> t.principal,
     scope |-> Given(t.scope, a.scope),
     constraints |-> a.constraints \cup t.constraints,
     max_cost |-> IF t.max_cost = NoLimit THEN a.max_cost ELSE t.max_cost,
     expires_at |-> Given(t.expires_at, a.expires_at),
     parent |-> {a},
     depth |-> a.depth + 1]

Narrows(a, t) ==
    /\ CoversScope(a, Child(a, t).scope)
    /\ WithinBudget(Child(a, t).max_cost, a)
    /\ WithinLifetime(Child(a, t).expires_at, a)

\* A context made without narrow, with the parent digest its maker likes.
Made(t, parent, depth) ==
    [principal |-> t.principal,
     scope |-> IF t.scope = Keep THEN {} ELSE t.scope,
     constraints |-> t.constraints,
     max_cost |-> t.max_cost,
     expires_at |-> IF t.expires_at = Keep THEN Never ELSE t.expires_at,
     parent |-> parent,
     depth |-> depth]

\* Mutant: constraints are not compared.
LinkHolds_AnyConstraints(a, child) ==
    /\ child.parent = {a}
    /\ CoversScope(a, child.scope)
    /\ WithinBudget(child.max_cost, a)
    /\ WithinLifetime(child.expires_at, a)

\* One turn of the loop of verify_chain.
LinkHolds(a, child) ==
    /\ child.parent = {a}
    /\ CoversScope(a, child.scope)
    /\ a.constraints \subseteq child.constraints
    /\ WithinBudget(child.max_cost, a)
    /\ WithinLifetime(child.expires_at, a)

\* _authority_expired: what is no instant counts as expired.
Expired(a) == a.expires_at # Never /\ clock >= Instant[a.expires_at]

Leaf == chain[Len(chain)]

-----------------------------------------------------------------------------
Init ==
    /\ \E t \in Terms : \E parent \in {{}, {Made(t, {}, 0)}} : chain = <<Made(t, parent, 0)>>
    /\ narrowed = (chain[1].parent = {})
    /\ link = 0
    /\ verdict = "open"
    /\ clock = 0
    /\ used = NotUsed

Extend(a) ==
    /\ verdict = "open"
    /\ Len(chain) < MaxChain
    /\ chain' = Append(chain, a)
    /\ UNCHANGED <<link, verdict, clock, used>>

\* narrow on the leaf.  A refusal raises and makes nothing.
Narrow(t) ==
    /\ Narrows(Leaf, t)
    /\ Extend(Child(Leaf, t))
    /\ UNCHANGED narrowed

\* A context that narrow did not make: it may name any other as its parent.
Forge(t, parent) ==
    /\ Extend(Made(t, parent, Len(chain)))
    /\ narrowed' = FALSE

\* verify_chain is called: the root must name no parent.
Present ==
    /\ verdict = "open"
    /\ link' = 1
    /\ verdict' = IF chain[1].parent = {} THEN "verifying" ELSE "refused"
    /\ UNCHANGED <<chain, narrowed, clock, used>>

VerifyLink ==
    /\ verdict = "verifying"
    /\ link < Len(chain)
    /\ IF LinkHolds(chain[link], chain[link + 1])
       THEN link' = link + 1 /\ UNCHANGED verdict
       ELSE verdict' = "refused" /\ UNCHANGED link
    /\ UNCHANGED <<chain, narrowed, clock, used>>

Accept ==
    /\ verdict = "verifying"
    /\ link = Len(chain)
    /\ verdict' = "accepted"
    /\ UNCHANGED <<chain, narrowed, link, clock, used>>

\* ExecutionIdentity.of: who acts, for whom and under which authority.
ExecutionIdentity(a) ==
    [agent_actor |-> a.principal, tenant |-> a.principal.tenant,
     authority_ref |-> a, delegation_depth |-> a.depth]

Use(gate, p) ==
    /\ verdict = "accepted"
    /\ Permits(Leaf, p)
    /\ used' = [at |-> gate, permission |-> p, identity |-> ExecutionIdentity(Leaf)]
    /\ UNCHANGED <<chain, narrowed, link, verdict, clock>>

\* authorize_request lets a request of the leaf's tenant through.
Authorize(p) == ~Expired(Leaf) /\ Use("authorize_request", p)

\* lease_decision looks at the scope alone.
Lease(p) == Use("lease_decision", p)

\* Time passes; what was used was used.
Tick ==
    /\ verdict = "accepted"
    /\ clock < MaxClock
    /\ clock' = clock + 1
    /\ used' = NotUsed
    /\ UNCHANGED <<chain, narrowed, link, verdict>>

Parents == {{}} \cup {{chain[i]} : i \in DOMAIN chain}

Next ==
    \/ \E t \in Terms : Narrow(t)
    \/ \E t \in Terms, parent \in Parents : Forge(t, parent)
    \/ Present \/ VerifyLink \/ Accept
    \/ \E p \in Permissions : Authorize(p) \/ Lease(p)
    \/ Tick

Spec == Init /\ [][Next]_vars

-----------------------------------------------------------------------------
\* Every field a child may not widen, between any two contexts of a chain.
WithinAuthority(child, a) ==
    /\ \A p \in Permissions : Permits(child, p) => Permits(a, p)
    /\ a.constraints \subseteq child.constraints
    /\ WithinBudget(child.max_cost, a)
    /\ WithinLifetime(child.expires_at, a)

(***************************************************************************)
(* In an accepted chain every context, however far down, is within every   *)
(* one above it, whoever made it and whatever it says of its parent: limits *)
(* that are not set, the wildcard and expiries that are empty included.     *)
(***************************************************************************)
NothingWidens ==
    verdict = "accepted" =>
        \A i, j \in DOMAIN chain : i < j => WithinAuthority(chain[j], chain[i])

(***************************************************************************)
(* What narrow makes, verify_chain accepts: the two state the same rules   *)
(* twice.  The depth it carries, which nobody verifies, is then the number *)
(* of delegations.                                                         *)
(***************************************************************************)
NarrowedVerifies ==
    narrowed => verdict # "refused" /\ Leaf.depth = Len(chain) - 1

(***************************************************************************)
(* What authorize_request lets the leaf do at an instant, every authority  *)
(* above it allows at that instant: none of them lacks the permission and  *)
(* none has expired.  "A child may only shorten it", says the comment of   *)
(* expires_at (runtime_contracts/protocol/security.py:161).  Expiry is     *)
(* judged as an instant here, and as text when it was delegated, so it     *)
(* holds where the order of the texts is that of their instants.           *)
(***************************************************************************)
UseIsWithinEveryAuthority ==
    used.at = "authorize_request" =>
        \A i \in DOMAIN chain :
            ~Expired(chain[i]) /\ Permits(chain[i], used.permission)
=============================================================================

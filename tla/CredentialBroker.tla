-------------------------- MODULE CredentialBroker --------------------------
(***************************************************************************)
(* The local credential broker over a file secret store                    *)
(* (runtime_contracts/secrets_local/broker.py, LocalCredentialBroker;      *)
(* runtime_contracts/protocol/secrets.py, authorize_request).              *)
(*                                                                         *)
(* A caller is granted a credential for one mission and one capability,    *)
(* keeps the grant object, and redeems it for the secret as often as it    *)
(* likes until the grant is revoked or found expired.  The broker keeps    *)
(* its grants in memory and numbers them from 1; grant objects are plain   *)
(* data, so they outlive the broker that made them.  The clock is a wall   *)
(* clock: it may be set back.  A refused call changes nothing, and renew   *)
(* only returns another lease; neither is an action.                       *)
(***************************************************************************)
EXTENDS FileSecretStore, Integers, FiniteSets

CONSTANTS
    Requests,       \* credential requests, the requirement's fields included
    Authorities,    \* authority contexts they may be made under
    Assurance,      \* assurance_level of the broker
    DefaultTTL,     \* default_ttl_seconds
    None,           \* an optional field that is not set
    Wildcard,       \* the permission that stands for all
    MaxClock,       \* bound: readings of the clock
    MaxGrants,      \* bound: grants of all brokers together
    MaxLives        \* bound: brokers, one after the other

ASSUME BoundsAssumption ==
    MaxClock \in Nat /\ MaxGrants \in Nat /\ MaxLives \in Nat /\ DefaultTTL \in Nat
ASSUME RequestsAssumption ==
    \A q \in Requests :
        /\ q.secret_ref \in Refs \cup {None}
        /\ q.max_ttl \in Nat \cup {None}
        /\ q.requested_ttl \in Nat \cup {None}
ASSUME AuthoritiesAssumption == \A a \in Authorities : a.expires \in Nat \cup {None}
ASSUME NoneAssumption == None \notin Nat \cup Refs

VARIABLES
    clock,      \* what the broker's clock reads
    life,       \* which broker this is
    n,          \* _n: how many grants it has numbered
    active,     \* _active: by grant id
    issued,     \* every grant object that callers hold (history)
    dead,       \* those revoked or found expired by their broker (history)
    released    \* what the last redemption gave out (history)

brokerVars == <<life, n, active, issued, dead>>
vars == <<storeVars, clock, brokerVars, released>>

-----------------------------------------------------------------------------
Permits(a, scope) == Wildcard \in a.scope \/ scope \in a.scope

\* Mutant: the namespace of the secret is not compared with the tenant.
Authorized_AnyNamespace(q, a) ==
    /\ q.production_broker_required => Assurance = "production"
    /\ a.expires # None => clock < a.expires
    /\ q.authority_context_id \in {a.authority_id, a.chain_ref}
    /\ q.tenant_id # None /\ q.tenant_id = a.tenant
    /\ \A s \in q.required_scopes : Permits(a, s)
    /\ q.max_ttl # None /\ q.requested_ttl # None => q.requested_ttl =< q.max_ttl

\* authorize_request: the verdict is ALLOW.
Authorized(q, a) ==
    /\ q.production_broker_required => Assurance = "production"
    /\ a.expires # None => clock < a.expires
    /\ q.authority_context_id \in {a.authority_id, a.chain_ref}
    /\ q.tenant_id # None /\ q.tenant_id = a.tenant
    /\ q.secret_ref # None => q.secret_ref.namespace \in {None, q.tenant_id}
    /\ \A s \in q.required_scopes : Permits(a, s)
    /\ q.max_ttl # None /\ q.requested_ttl # None => q.requested_ttl =< q.max_ttl

\* An optional number that Python takes for false.
Unset(ttl) == ttl \in {None, 0}

\* requested or max or default, and never above max.
TTL(q) ==
    LET ttl == IF ~Unset(q.requested_ttl) THEN q.requested_ttl
               ELSE IF ~Unset(q.max_ttl) THEN q.max_ttl ELSE DefaultTTL
    IN  IF q.max_ttl # None /\ q.max_ttl < ttl THEN q.max_ttl ELSE ttl

\* The hash of the secret at the time of the grant; none without a secret.
MaterialHash(q) ==
    IF q.secret_ref = None THEN None
    ELSE IF Readable(q.secret_ref) THEN content[q.secret_ref] ELSE None

\* The grant objects this broker made.
Own == {g \in issued : g.life = life}

Without(ids) == [id \in DOMAIN active \ ids |-> active[id]]

-----------------------------------------------------------------------------
Init ==
    /\ StoreInit
    /\ clock = 0
    /\ life = 1
    /\ n = 0
    /\ active = << >>
    /\ issued = {}
    /\ dead = {}
    /\ released = None

\* Time passes, or somebody sets the clock.
SetClock(t) ==
    /\ clock' = t
    /\ released' = None
    /\ UNCHANGED <<storeVars, brokerVars>>

\* Mutant: a grant is numbered by how many are active.
Grant_NumbersActive(q, a) ==
    LET g == [grant_id |-> Cardinality(DOMAIN active) + 1, life |-> life, request |-> q,
              authority |-> a, material_hash |-> MaterialHash(q),
              issued_at |-> clock, expires_at |-> clock + TTL(q)]
    IN  /\ Cardinality(issued) < MaxGrants
        /\ Authorized(q, a)
        /\ n' = n + 1
        /\ active' = [id \in DOMAIN active \cup {g.grant_id} |->
                        IF id = g.grant_id THEN g ELSE active[id]]
        /\ issued' = issued \cup {g}
        /\ released' = None
        /\ UNCHANGED <<storeVars, clock, life, dead>>

\* grant.  The _Active entry holds the grant, and with it the secret, the
\* mission, the capability and the expiry.
Grant(q, a) ==
    LET g == [grant_id |-> n + 1, life |-> life, request |-> q, authority |-> a,
              material_hash |-> MaterialHash(q),
              issued_at |-> clock, expires_at |-> clock + TTL(q)]
    IN  /\ Cardinality(issued) < MaxGrants
        /\ Authorized(q, a)
        /\ n' = n + 1
        /\ active' = [id \in DOMAIN active \cup {g.grant_id} |->
                        IF id = g.grant_id THEN g ELSE active[id]]
        /\ issued' = issued \cup {g}
        /\ released' = None
        /\ UNCHANGED <<storeVars, clock, life, dead>>

\* The first two checks of redeem: the grant is active, and for this caller.
Bound(g, capability, mission) ==
    /\ g.grant_id \in DOMAIN active
    /\ active[g.grant_id].request.capability_id = capability
    /\ active[g.grant_id].request.mission_id = mission

\* redeem that gives out the secret as it is now.
Redeem(g, capability, mission) ==
    LET entry == active[g.grant_id]
        ref == entry.request.secret_ref
    IN  /\ Bound(g, capability, mission)
        /\ clock < entry.expires_at
        /\ ref # None
        /\ Readable(ref)
        /\ released' = [grant |-> g, capability |-> capability, mission |-> mission,
                        secret |-> ref, value |-> content[ref]]
        /\ UNCHANGED <<storeVars, clock, brokerVars>>

\* redeem that finds the grant expired and drops it.
RedeemExpired(g, capability, mission) ==
    /\ Bound(g, capability, mission)
    /\ clock >= active[g.grant_id].expires_at
    /\ active' = Without({g.grant_id})
    /\ dead' = dead \cup {active[g.grant_id]}
    /\ released' = None
    /\ UNCHANGED <<storeVars, clock, life, n, issued>>

\* revoke_grant takes an id, whichever broker the object with it came from.
RevokeGrant(id) ==
    /\ id \in DOMAIN active
    /\ active' = Without({id})
    /\ dead' = dead \cup {g \in Own : g.grant_id = id}
    /\ released' = None
    /\ UNCHANGED <<storeVars, clock, life, n, issued>>

RevokeMission(mission) ==
    LET ids == {id \in DOMAIN active : active[id].request.mission_id = mission} IN
    /\ ids # {}
    /\ active' = Without(ids)
    /\ dead' = dead \cup {g \in Own : g.request.mission_id = mission}
    /\ released' = None
    /\ UNCHANGED <<storeVars, clock, life, n, issued>>

\* The process of the broker ends and another one is constructed.
Restart ==
    /\ life < MaxLives
    /\ life' = life + 1
    /\ n' = 0
    /\ active' = << >>
    /\ released' = None
    /\ UNCHANGED <<storeVars, clock, issued, dead>>

Store ==
    /\ StoreNext
    /\ released' = None
    /\ UNCHANGED <<clock, brokerVars>>

Capabilities == {q.capability_id : q \in Requests}
Missions == {q.mission_id : q \in Requests}

Next ==
    \/ \E t \in 0..MaxClock : SetClock(t)
    \/ \E q \in Requests, a \in Authorities : Grant(q, a)
    \/ \E g \in issued, c \in Capabilities, m \in Missions :
          Redeem(g, c, m) \/ RedeemExpired(g, c, m)
    \/ \E id \in 1..MaxGrants : RevokeGrant(id)
    \/ \E m \in Missions : RevokeMission(m)
    \/ Restart
    \/ Store

Spec == Init /\ [][Next]_vars

-----------------------------------------------------------------------------
\* Type invariant: what is active was issued by this broker, under its own id.
TypeOK ==
    /\ StoreTypeOK
    /\ clock \in 0..MaxClock /\ life \in Nat /\ n \in Nat
    /\ DOMAIN active \subseteq 1..n
    /\ \A id \in DOMAIN active : active[id] \in Own /\ active[id].grant_id = id
    /\ \A g \in issued : g.request \in Requests /\ g.authority \in Authorities
    /\ dead \subseteq issued
    /\ released # None => released.grant \in issued /\ released.secret \in Refs

(***************************************************************************)
(* Every redemption is covered by a grant of this broker that is neither   *)
(* revoked nor expired: it was authorized for the mission and capability   *)
(* that redeem, for the secret given out, by an authority of the tenant    *)
(* the secret belongs to.  It holds of a grant object left over from an    *)
(* earlier broker too, whose id now names another grant.                   *)
(***************************************************************************)
Covers(g) ==
    /\ clock < g.expires_at
    /\ g.request.mission_id = released.mission
    /\ g.request.capability_id = released.capability
    /\ g.request.secret_ref = released.secret
    /\ released.secret.namespace \in {None, g.authority.tenant}

ReleaseIsCovered == released # None => \E g \in Own \ dead : Covers(g)

(***************************************************************************)
(* A grant object once revoked, alone or with its mission, or once found   *)
(* expired is never redeemed again at its broker, whatever is granted      *)
(* afterwards and however the clock is set back.                           *)
(***************************************************************************)
DeadNeverRedeems == released # None => released.grant \notin Own \cap dead

(***************************************************************************)
(* At its own broker a grant object gives out its own secret, within the   *)
(* longest lifetime its requirement allows.                                *)
(***************************************************************************)
RedeemsItsOwn ==
    released # None /\ released.grant \in Own =>
        LET g == released.grant IN
        /\ released.secret = g.request.secret_ref
        /\ g.request.max_ttl # None => clock < g.issued_at + g.request.max_ttl

(***************************************************************************)
(* What a redemption gives out is the secret as last put, rotations after  *)
(* the grant included, unless a put of it is under way or stopped before   *)
(* its write; a removed secret is not given out at all.                    *)
(***************************************************************************)
MaterialIsCurrent ==
    released # None /\ Settled(released.secret) =>
        released.value = latest[released.secret]
=============================================================================

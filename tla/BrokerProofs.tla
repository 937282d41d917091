---------------------------- MODULE BrokerProofs ----------------------------
(***************************************************************************)
(* The safety of the credential broker, for every set of requests,         *)
(* authorities and secrets and every bound.                                *)
(*                                                                         *)
(* A redemption looks a grant object up by its id alone.  What makes this  *)
(* safe is that ids are unique among the objects of one broker and that    *)
(* the dictionary holds no dead one; IInv says so.                         *)
(***************************************************************************)
EXTENDS CredentialBroker, TLAPS

\* What is known of every grant object callers hold.
WellIssued(g) ==
    /\ g.request \in Requests /\ g.authority \in Authorities
    /\ g.grant_id \in Nat \ {0} /\ g.life \in Nat /\ g.life =< life
    /\ g.life = life => g.grant_id =< n
    /\ g.expires_at \in Nat /\ g.issued_at \in Nat
    /\ g.request.max_ttl # None => g.expires_at =< g.issued_at + g.request.max_ttl
    /\ g.request.secret_ref # None =>
          g.request.secret_ref.namespace \in {None, g.authority.tenant}

UniqueIds == \A g, h \in Own : g.grant_id = h.grant_id => g = h

ActiveIsAlive ==
    \A id \in DOMAIN active :
        active[id] \in Own \ dead /\ active[id].grant_id = id

IssueInv ==
    /\ clock \in 0..MaxClock /\ life \in Nat /\ n \in Nat
    /\ \A g \in issued : WellIssued(g)
    /\ dead \subseteq issued
    /\ UniqueIds
    /\ ActiveIsAlive

ReleaseTyped == released # None => released.grant \in issued /\ released.secret \in Refs

ReleaseInv == ReleaseTyped /\ ReleaseIsCovered /\ DeadNeverRedeems /\ RedeemsItsOwn


-----------------------------------------------------------------------------
\* The lifetime of a grant never exceeds the limit of its requirement.
LEMMA TTLWithinLimit ==
    ASSUME NEW q \in Requests
    PROVE  /\ TTL(q) \in Nat
           /\ q.max_ttl # None => TTL(q) =< q.max_ttl
<1>1. q.max_ttl \in Nat \cup {None} /\ q.requested_ttl \in Nat \cup {None}
    BY RequestsAssumption
<1>2. DefaultTTL \in Nat
    BY BoundsAssumption
<1>3. None \notin Nat
    BY NoneAssumption
<1> QED
    BY <1>1, <1>2, <1>3 DEF TTL, Unset

LEMMA InitIssueInv == Init => IssueInv
    BY BoundsAssumption DEF Init, IssueInv, UniqueIds, ActiveIsAlive, Own, WellIssued

\* A grant takes an id nobody of this broker has.
LEMMA GrantKeepsIssueInv ==
    ASSUME IssueInv, NEW q \in Requests, NEW a \in Authorities, Grant(q, a)
    PROVE  IssueInv'
<1>0. PICK g : g = [grant_id |-> n + 1, life |-> life, request |-> q, authority |-> a,
                    material_hash |-> MaterialHash(q),
                    issued_at |-> clock, expires_at |-> clock + TTL(q)]
    OBVIOUS
<1>1. /\ issued' = issued \cup {g} /\ n' = n + 1
      /\ UNCHANGED <<clock, life, dead>>
      /\ active' = [id \in DOMAIN active \cup {n + 1} |->
                       IF id = n + 1 THEN g ELSE active[id]]
      /\ Authorized(q, a)
    BY <1>0 DEF Grant
<1>2. /\ clock \in 0..MaxClock /\ clock \in Nat
      /\ life \in Nat /\ n \in Nat /\ dead \subseteq issued
    BY BoundsAssumption DEF IssueInv
<1>3. TTL(q) \in Nat /\ (q.max_ttl # None => TTL(q) =< q.max_ttl)
    BY TTLWithinLimit
<1>4. q.secret_ref # None => q.secret_ref.namespace \in {None, a.tenant}
    BY <1>1 DEF Authorized
<1>5. WellIssued(g)'
  <2>1. q.max_ttl # None => clock + TTL(q) =< clock + q.max_ttl
    BY <1>2, <1>3, RequestsAssumption
  <2> QED
    BY <1>0, <1>1, <1>2, <1>3, <1>4, <2>1 DEF WellIssued
<1>6. \A h \in issued : WellIssued(h)'
    BY <1>1, <1>2 DEF IssueInv, WellIssued
<1>7. g \notin issued
    BY <1>0, <1>2 DEF IssueInv, WellIssued
<1>8. Own' = Own \cup {g}
    BY <1>0, <1>1 DEF Own
<1>9. \A h \in Own : h.grant_id # n + 1
    BY <1>2 DEF IssueInv, WellIssued, Own
<1>10. UniqueIds'
    BY <1>0, <1>8, <1>9 DEF IssueInv, UniqueIds
<1>11. ActiveIsAlive'
  <2> SUFFICES ASSUME NEW id \in DOMAIN active'
               PROVE  (active[id] \in Own \ dead /\ active[id].grant_id = id)'
    BY DEF ActiveIsAlive
  <2>1. CASE id = n + 1
    BY <2>1, <1>0, <1>1, <1>2, <1>7, <1>8
  <2>2. CASE id # n + 1
    BY <2>2, <1>1, <1>8 DEF IssueInv, ActiveIsAlive
  <2> QED
    BY <2>1, <2>2
<1> QED
    BY <1>1, <1>2, <1>5, <1>6, <1>10, <1>11 DEF IssueInv

\* Taking ids out of the dictionary, and burying at least their objects and no
\* active one, keeps the rest alive.
LEMMA DropKeepsIssueInv ==
    ASSUME IssueInv, NEW ids, NEW buried \in SUBSET Own,
           active' = Without(ids), dead' = dead \cup buried,
           \A id \in DOMAIN active : active[id] \in buried => id \in ids,
           UNCHANGED <<clock, life, n, issued>>
    PROVE  IssueInv'
<1>1. Own' = Own
    BY DEF Own
<1>2. dead' \subseteq issued'
    BY DEF IssueInv, Own
<1>3. \A g \in issued' : WellIssued(g)'
    BY DEF IssueInv, WellIssued
<1>4. UniqueIds'
    BY <1>1 DEF IssueInv, UniqueIds
<1>5. ActiveIsAlive'
    BY <1>1 DEF IssueInv, ActiveIsAlive, Without
<1> QED
    BY <1>2, <1>3, <1>4, <1>5 DEF IssueInv

\* What the dictionary and the grant objects know is kept by every step.
LEMMA NextIssueInv == IssueInv /\ [Next]_vars => IssueInv'
<1> SUFFICES ASSUME IssueInv, [Next]_vars PROVE IssueInv'
    OBVIOUS
<1>0. CASE UNCHANGED <<clock, life, n, active, issued, dead>>
    BY <1>0 DEF IssueInv, UniqueIds, ActiveIsAlive, Own, WellIssued
<1>1. ASSUME NEW t \in 0..MaxClock, SetClock(t)
      PROVE  IssueInv'
    BY <1>1 DEF SetClock, brokerVars, IssueInv, UniqueIds, ActiveIsAlive, Own, WellIssued
<1>2. ASSUME NEW q \in Requests, NEW a \in Authorities, Grant(q, a)
      PROVE  IssueInv'
    BY <1>2, GrantKeepsIssueInv
<1>3. ASSUME NEW g \in issued, NEW c, NEW m, Redeem(g, c, m)
      PROVE  IssueInv'
    BY <1>3, <1>0 DEF Redeem, brokerVars
<1>4. ASSUME NEW g \in issued, NEW c, NEW m, RedeemExpired(g, c, m)
      PROVE  IssueInv'
  <2> DEFINE ids == {g.grant_id}
             buried == {active[g.grant_id]}
  <2>1. g.grant_id \in DOMAIN active /\ active[g.grant_id] \in Own
    BY <1>4 DEF RedeemExpired, Bound, IssueInv, ActiveIsAlive
  <2>2. \A id \in DOMAIN active : active[id] \in buried => id \in ids
    BY <2>1 DEF IssueInv, ActiveIsAlive
  <2>3. /\ active' = Without(ids) /\ dead' = dead \cup buried
        /\ UNCHANGED <<clock, life, n, issued>>
    BY <1>4 DEF RedeemExpired
  <2>4. buried \in SUBSET Own
    BY <2>1
  <2> HIDE DEF ids, buried
  <2> QED
    BY <2>2, <2>3, <2>4, DropKeepsIssueInv
<1>5. ASSUME NEW id, RevokeGrant(id)
      PROVE  IssueInv'
  <2> DEFINE buried == {g \in Own : g.grant_id = id}
  <2>1. \A i \in DOMAIN active : active[i] \in buried => i \in {id}
    BY DEF IssueInv, ActiveIsAlive
  <2> QED
    BY <1>5, <2>1, DropKeepsIssueInv DEF RevokeGrant
<1>6. ASSUME NEW m, RevokeMission(m)
      PROVE  IssueInv'
  <2> DEFINE buried == {g \in Own : g.request.mission_id = m}
             ids == {id \in DOMAIN active : active[id].request.mission_id = m}
  <2>1. \A i \in DOMAIN active : active[i] \in buried => i \in ids
    OBVIOUS
  <2> QED
    BY <1>6, <2>1, DropKeepsIssueInv DEF RevokeMission
<1>7. ASSUME Restart
      PROVE  IssueInv'
  <2>1. life' = life + 1 /\ n' = 0 /\ active' = << >> /\ UNCHANGED <<clock, issued, dead>>
    BY <1>7 DEF Restart
  <2>2. Own' = {}
    BY <2>1 DEF Own, IssueInv, WellIssued
  <2>3. \A g \in issued : WellIssued(g)'
    BY <2>1 DEF IssueInv, WellIssued
  <2>4. DOMAIN active' = {}
    BY <2>1
  <2> QED
    BY <2>1, <2>2, <2>3, <2>4 DEF IssueInv, UniqueIds, ActiveIsAlive
<1>8. ASSUME Store
      PROVE  IssueInv'
    BY <1>8, <1>0 DEF Store, brokerVars
<1>9. CASE UNCHANGED vars
    BY <1>9, <1>0 DEF vars, brokerVars
<1> QED
    BY <1>1, <1>2, <1>3, <1>4, <1>5, <1>6, <1>7, <1>8, <1>9 DEF Next

-----------------------------------------------------------------------------
\* A redemption is made by the object the dictionary holds under its id, when
\* the object is of this broker at all.
LEMMA RedeemReleases ==
    ASSUME IssueInv, NEW g \in issued, NEW c, NEW m, Redeem(g, c, m)
    PROVE  ReleaseInv'
<1>0. PICK entry : entry = active[g.grant_id]
    OBVIOUS
<1>1. /\ entry \in Own \ dead /\ entry.grant_id = g.grant_id
      /\ entry.request.capability_id = c /\ entry.request.mission_id = m
      /\ clock < entry.expires_at /\ entry.request.secret_ref # None
    BY <1>0 DEF Redeem, Bound, IssueInv, ActiveIsAlive
<1>2. /\ released' = [grant |-> g, capability |-> c, mission |-> m,
                      secret |-> entry.request.secret_ref,
                      value |-> content[entry.request.secret_ref]]
      /\ UNCHANGED <<clock, life, issued, dead>>
    BY <1>0 DEF Redeem, brokerVars
<1>3. Own' = Own
    BY <1>2 DEF Own
<1>4. WellIssued(entry)
    BY <1>1 DEF IssueInv, Own
<1>5. ReleaseIsCovered'
  <2>1. Covers(entry)'
    BY <1>1, <1>2, <1>4 DEF Covers, WellIssued
  <2> QED
    BY <1>1, <1>2, <1>3, <2>1 DEF ReleaseIsCovered
<1>6. g \in Own => g = entry
    BY <1>1 DEF IssueInv, UniqueIds
<1>7. DeadNeverRedeems'
    BY <1>1, <1>2, <1>3, <1>6 DEF DeadNeverRedeems
<1>8. RedeemsItsOwn'
  <2> SUFFICES ASSUME g \in Own
               PROVE  /\ entry.request.secret_ref = g.request.secret_ref
                      /\ g.request.max_ttl # None => clock < g.issued_at + g.request.max_ttl
    BY <1>2, <1>3 DEF RedeemsItsOwn
  <2>1. g = entry
    BY <1>6
  <2>2. g.request.max_ttl \in Nat \cup {None}
    BY <2>1, <1>4, RequestsAssumption DEF WellIssued
  <2> QED
    BY <2>1, <2>2, <1>1, <1>4, BoundsAssumption DEF WellIssued, IssueInv
<1>9. ReleaseTyped'
    BY <1>1, <1>2, <1>4, RequestsAssumption DEF ReleaseTyped, WellIssued
<1> QED
    BY <1>5, <1>7, <1>8, <1>9 DEF ReleaseInv

\* Every other step takes the record of the last redemption back.
LEMMA NextReleaseInv == IssueInv /\ ReleaseInv /\ [Next]_vars => ReleaseInv'
<1> SUFFICES ASSUME IssueInv, ReleaseInv, [Next]_vars PROVE ReleaseInv'
    OBVIOUS
<1>1. CASE released' = None
    BY <1>1 DEF ReleaseInv, ReleaseTyped, ReleaseIsCovered, DeadNeverRedeems, RedeemsItsOwn
<1>2. CASE \E g \in issued, c \in Capabilities, m \in Missions : Redeem(g, c, m)
    BY <1>2, RedeemReleases
<1>3. CASE UNCHANGED vars
    BY <1>3 DEF vars, brokerVars, ReleaseInv, ReleaseTyped, ReleaseIsCovered, Covers, DeadNeverRedeems,
                RedeemsItsOwn, Own
<1> QED
    BY <1>1, <1>2, <1>3
    DEF Next, SetClock, Grant, RedeemExpired, RevokeGrant, RevokeMission, Restart, Store

-----------------------------------------------------------------------------
\* A secret nobody is putting holds the value last put, and a file that is not
\* there was removed or never put.
StoreInv ==
    /\ StoreTypeOK
    /\ \A r \in Refs :
          /\ Settled(r) => content[r] = latest[r]
          /\ content[r] = Missing => latest[r] = Missing

\* put in its two steps, its failure in between and revoke keep StoreInv.
LEMMA StoreNextStoreInv == StoreInv /\ StoreNext => StoreInv'
<1> SUFFICES ASSUME StoreInv, StoreNext PROVE StoreInv'
    OBVIOUS
<1> USE DEF StoreInv, StoreTypeOK, Settled, Readable
<1>1. PICK r \in Refs : \/ \E v \in Values : PutOpen(r, v)
                        \/ PutWrite(r) \/ PutStops(r) \/ RevokeSecret(r)
    BY DEF StoreNext
<1>2. ASSUME NEW v \in Values, PutOpen(r, v) PROVE StoreInv'
    BY <1>2, ContentAssumption DEF PutOpen
<1>3. CASE PutWrite(r)
    BY <1>3, ContentAssumption DEF PutWrite
<1>4. CASE PutStops(r)
    BY <1>4, ContentAssumption DEF PutStops
<1>5. CASE RevokeSecret(r)
    BY <1>5, ContentAssumption DEF RevokeSecret
<1> QED
    BY <1>1, <1>2, <1>3, <1>4, <1>5

\* The broker only reads the store.
LEMMA NextStoreInv == StoreInv /\ [Next]_vars => StoreInv'
<1> SUFFICES ASSUME StoreInv, [Next]_vars PROVE StoreInv'
    OBVIOUS
<1>1. CASE UNCHANGED storeVars
    BY <1>1 DEF storeVars, StoreInv, StoreTypeOK, Settled
<1>2. CASE StoreNext
    BY <1>2, StoreNextStoreInv
<1> QED
    BY <1>1, <1>2 DEF Next, vars, SetClock, Grant, Redeem, RedeemExpired, RevokeGrant,
                      RevokeMission, Restart, Store

\* A redemption reads the secret its grant names.
LEMMA NextMaterial ==
    IssueInv /\ StoreInv /\ MaterialIsCurrent /\ [Next]_vars => MaterialIsCurrent'
<1> SUFFICES ASSUME IssueInv, StoreInv, MaterialIsCurrent, [Next]_vars
             PROVE  MaterialIsCurrent'
    OBVIOUS
<1>1. CASE released' = None
    BY <1>1 DEF MaterialIsCurrent
<1>2. ASSUME NEW g \in issued, NEW c, NEW m, Redeem(g, c, m)
      PROVE  MaterialIsCurrent'
  <2>1. PICK ref : /\ ref = active[g.grant_id].request.secret_ref
                   /\ ref # None /\ released'.secret = ref
                   /\ released'.value = content[ref]
                   /\ g.grant_id \in DOMAIN active
                   /\ UNCHANGED storeVars
    BY <1>2 DEF Redeem, Bound
  <2>2. active[g.grant_id].request \in Requests
    BY <2>1 DEF IssueInv, ActiveIsAlive, Own, WellIssued
  <2>3. ref \in Refs
    BY <2>1, <2>2, RequestsAssumption
  <2> QED
    BY <2>1, <2>3 DEF MaterialIsCurrent, StoreInv, Settled, storeVars
<1>3. CASE UNCHANGED vars
    BY <1>3 DEF vars, storeVars, MaterialIsCurrent, Settled
<1> QED
    BY <1>1, <1>2, <1>3
    DEF Next, SetClock, Grant, RedeemExpired, RevokeGrant, RevokeMission, Restart, Store

-----------------------------------------------------------------------------
\* The grants, the secrets and the last redemption together.
IInv == IssueInv /\ StoreInv /\ ReleaseInv /\ MaterialIsCurrent

LEMMA InitIInv == Init => IInv
<1> SUFFICES ASSUME Init PROVE IInv
    OBVIOUS
<1>1. IssueInv
    BY InitIssueInv
<1>2. ReleaseInv
    BY DEF Init, ReleaseInv, ReleaseTyped, ReleaseIsCovered, DeadNeverRedeems, RedeemsItsOwn
<1>3. StoreInv
    BY ContentAssumption DEF Init, StoreInit, StoreInv, StoreTypeOK, Settled
<1>4. MaterialIsCurrent
    BY DEF Init, MaterialIsCurrent
<1> QED
    BY <1>1, <1>2, <1>3, <1>4 DEF IInv

LEMMA NextIInv == IInv /\ [Next]_vars => IInv'
    BY NextIssueInv, NextStoreInv, NextReleaseInv, NextMaterial DEF IInv

THEOREM InvariantHolds == Spec => []IInv
    BY InitIInv, NextIInv, PTL DEF Spec

\* The type invariant of the broker and its store.
THEOREM TypeCorrect == Spec => []TypeOK
<1>1. IInv => TypeOK
  <2> SUFFICES ASSUME IInv PROVE TypeOK
    OBVIOUS
  <2>1. DOMAIN active \subseteq 1..n
    BY DEF IInv, IssueInv, ActiveIsAlive, Own, WellIssued
  <2>2. \A id \in DOMAIN active : active[id] \in Own /\ active[id].grant_id = id
    BY DEF IInv, IssueInv, ActiveIsAlive
  <2>3. \A g \in issued : g.request \in Requests /\ g.authority \in Authorities
    BY DEF IInv, IssueInv, WellIssued
  <2> QED
    BY <2>1, <2>2, <2>3 DEF IInv, IssueInv, StoreInv, ReleaseInv, ReleaseTyped, TypeOK
<1> QED
    BY <1>1, InvariantHolds, PTL

\* Every secret given out is covered by a live grant of this broker.
THEOREM EveryReleaseIsCovered == Spec => []ReleaseIsCovered
    BY InvariantHolds, PTL DEF IInv, ReleaseInv

\* A revoked or expired grant object is never redeemed at its broker again.
THEOREM DeadGrantsStayDead == Spec => []DeadNeverRedeems
    BY InvariantHolds, PTL DEF IInv, ReleaseInv

\* A grant object gives out its own secret, within the limit on its lifetime.
THEOREM GrantsGiveTheirOwn == Spec => []RedeemsItsOwn
    BY InvariantHolds, PTL DEF IInv, ReleaseInv

\* What is given out is the secret as last put, unless a put was cut short.
THEOREM ReleasesAreCurrent == Spec => []MaterialIsCurrent
    BY InvariantHolds, PTL DEF IInv
=============================================================================

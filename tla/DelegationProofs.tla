-------------------------- MODULE DelegationProofs --------------------------
(***************************************************************************)
(* Delegation narrows, for every set of permissions, limits and contexts   *)
(* and chains of any length.                                               *)
(*                                                                         *)
(* verify_chain compares neighbours only.  The invariant relates every two *)
(* contexts it has been through; a turn of its loop extends it by one      *)
(* link, as being within an authority is transitive.                       *)
(***************************************************************************)
EXTENDS Delegation, TLAPS

Typed(a) ==
    /\ a.scope \subseteq Permissions
    /\ a.constraints \subseteq Constraints
    /\ a.max_cost \in Costs \cup {NoLimit}
    /\ a.expires_at \in Expiries \cup {Never}

ChainTyped ==
    /\ Len(chain) \in Nat \ {0}
    /\ DOMAIN chain = 1..Len(chain)
    /\ \A i \in DOMAIN chain : Typed(chain[i])
    /\ link \in 0..Len(chain)
    /\ verdict \in {"open", "verifying", "accepted", "refused"}
    /\ clock \in Nat

\* Between any two of the contexts verify_chain has been through.
WithinSoFar ==
    /\ verdict \in {"verifying", "accepted"} =>
          \A i, j \in 1..link : i < j => WithinAuthority(chain[j], chain[i])
    /\ verdict = "verifying" => link >= 1
    /\ verdict = "accepted" => link = Len(chain)

\* What narrow made holds at every link, before anybody looks.
NarrowedHolds ==
    narrowed =>
        /\ verdict # "refused"
        /\ chain[1].parent = {}
        /\ \A i \in DOMAIN chain : chain[i].depth = i - 1
        /\ \A i \in 1..(Len(chain) - 1) : LinkHolds(chain[i], chain[i + 1])

IInv == ChainTyped /\ WithinSoFar /\ NarrowedHolds

-----------------------------------------------------------------------------
\* A context made outside narrow has fields of the right kind.
LEMMA MadeTyped ==
    ASSUME NEW t \in Terms, NEW parent, NEW depth
    PROVE  Typed(Made(t, parent, depth)) /\ Made(t, parent, depth).depth = depth
                                         /\ Made(t, parent, depth).parent = parent
    BY TermsAssumption DEF Typed, Made

LEMMA ChildTyped ==
    ASSUME NEW t \in Terms, NEW a, Typed(a)
    PROVE  Typed(Child(a, t))
    BY TermsAssumption DEF Typed, Child, Given

\* Narrow's rules are those of verify_chain.
LEMMA NarrowedLinkHolds ==
    ASSUME NEW t \in Terms, NEW a, Narrows(a, t)
    PROVE  LinkHolds(a, Child(a, t)) /\ Child(a, t).depth = a.depth + 1
    BY DEF Narrows, LinkHolds, Child

\* A link that holds is a context within another.
LEMMA LinkIsWithin ==
    ASSUME NEW a, NEW child, Typed(a), Typed(child), LinkHolds(a, child)
    PROVE  WithinAuthority(child, a)
    BY DEF LinkHolds, WithinAuthority, CoversScope, Permits, Typed

\* Being within an authority is transitive, limits that are not set included.
LEMMA WithinIsTransitive ==
    ASSUME NEW a, NEW b, NEW c, Typed(a), Typed(b), Typed(c),
           WithinAuthority(b, a), WithinAuthority(c, b)
    PROVE  WithinAuthority(c, a)
<1>1. \A p \in Permissions : Permits(c, p) => Permits(a, p)
    BY DEF WithinAuthority
<1>2. a.constraints \subseteq c.constraints
    BY DEF WithinAuthority
<1>3. WithinBudget(c.max_cost, a)
    <2>1. \A x \in {a, b, c} : x.max_cost \in Nat \cup {NoLimit}
        BY CostsAssumption DEF Typed
    <2> QED BY <2>1 DEF WithinAuthority, WithinBudget
<1>4. WithinLifetime(c.expires_at, a)
    <2>1. \A x \in {a, b, c} : x.expires_at # Never => TextRank[x.expires_at] \in Nat
        BY ExpiriesAssumption DEF Typed
    <2> QED BY <2>1 DEF WithinAuthority, WithinLifetime
<1> QED BY <1>1, <1>2, <1>3, <1>4 DEF WithinAuthority

\* One more context at the end of a chain that nobody has looked at yet.
LEMMA ExtendKeepsTyped ==
    ASSUME ChainTyped, NEW a, Typed(a), Extend(a)
    PROVE  /\ ChainTyped'
           /\ Len(chain') = Len(chain) + 1
           /\ \A i \in DOMAIN chain : chain'[i] = chain[i]
           /\ chain'[Len(chain) + 1] = a
           /\ verdict' = "open"
<1>1. /\ chain' = Append(chain, a) /\ Len(chain) \in Nat
      /\ UNCHANGED <<link, verdict, clock>> /\ verdict = "open"
    BY DEF Extend, ChainTyped
<1>2. /\ Len(chain') = Len(chain) + 1
      /\ DOMAIN chain' = 1..(Len(chain) + 1)
      /\ \A i \in DOMAIN chain : chain'[i] = chain[i]
      /\ chain'[Len(chain) + 1] = a
    BY <1>1 DEF ChainTyped
<1>3. \A i \in DOMAIN chain' : Typed(chain'[i])
    BY <1>2 DEF ChainTyped
<1> QED BY <1>1, <1>2, <1>3 DEF ChainTyped

-----------------------------------------------------------------------------
LEMMA InitIInv == Init => IInv
<1> SUFFICES ASSUME Init PROVE IInv
    OBVIOUS
<1>1. PICK t \in Terms : \E parent \in {{}, {Made(t, {}, 0)}} : chain = <<Made(t, parent, 0)>>
    BY DEF Init
<1>2. PICK parent \in {{}, {Made(t, {}, 0)}} : chain = <<Made(t, parent, 0)>>
    BY <1>1
<1>3. Typed(chain[1]) /\ chain[1].depth = 0 /\ Len(chain) = 1 /\ DOMAIN chain = 1..1
    BY <1>2, MadeTyped
<1>4. ChainTyped
    BY <1>3 DEF Init, ChainTyped
<1>5. NarrowedHolds
    <2>1. narrowed => chain[1].parent = {}
        BY Zenon DEF Init
    <2>2. /\ \A i \in DOMAIN chain : chain[i].depth = i - 1
          /\ \A i \in 1..(Len(chain) - 1) : LinkHolds(chain[i], chain[i + 1])
        BY <1>3
    <2>3. verdict # "refused"
        BY DEF Init
    <2> QED BY <2>1, <2>2, <2>3 DEF NarrowedHolds
<1> QED BY <1>4, <1>5 DEF Init, IInv, WithinSoFar

LEMMA NarrowKeepsIInv ==
    ASSUME IInv, NEW t \in Terms, Narrow(t)
    PROVE  IInv'
<1>1. Len(chain) \in DOMAIN chain /\ Typed(Leaf) /\ Len(chain) \in Nat \ {0}
    BY DEF IInv, ChainTyped, Leaf
<1>2. Typed(Child(Leaf, t)) /\ LinkHolds(Leaf, Child(Leaf, t))
      /\ Child(Leaf, t).depth = Leaf.depth + 1
    BY <1>1, ChildTyped, NarrowedLinkHolds DEF Narrow
<1>3. PICK a : a = Child(Leaf, t)
    OBVIOUS
<1>4. Extend(a) /\ narrowed' = narrowed
    BY <1>3 DEF Narrow
<1>5. /\ ChainTyped'
      /\ Len(chain') = Len(chain) + 1
      /\ \A i \in DOMAIN chain : chain'[i] = chain[i]
      /\ chain'[Len(chain) + 1] = a
      /\ verdict' = "open"
    BY <1>2, <1>3, <1>4, ExtendKeepsTyped DEF IInv
<1>6. ASSUME narrowed
      PROVE  /\ chain'[1].parent = {}
             /\ \A i \in DOMAIN chain' : chain'[i].depth = i - 1
             /\ \A i \in 1..(Len(chain') - 1) : LinkHolds(chain'[i], chain'[i + 1])
    <2>1. DOMAIN chain = 1..Len(chain) /\ DOMAIN chain' = 1..(Len(chain) + 1)
        BY <1>5 DEF IInv, ChainTyped
    <2>2. /\ chain[1].parent = {} /\ \A i \in DOMAIN chain : chain[i].depth = i - 1
          /\ \A i \in 1..(Len(chain) - 1) : LinkHolds(chain[i], chain[i + 1])
        BY <1>6 DEF IInv, NarrowedHolds
    <2>3. a.depth = Len(chain) /\ LinkHolds(chain[Len(chain)], a)
        BY <1>1, <1>2, <1>3, <2>2 DEF Leaf
    <2>4. \A i \in DOMAIN chain' : chain'[i].depth = i - 1
        BY <1>1, <1>5, <2>1, <2>2, <2>3
    <2>5. \A i \in 1..(Len(chain') - 1) : LinkHolds(chain'[i], chain'[i + 1])
        <3> SUFFICES ASSUME NEW i \in 1..Len(chain)
                     PROVE  LinkHolds(chain'[i], chain'[i + 1])
            BY <1>1, <1>5
        <3>1. CASE i = Len(chain)
            BY <3>1, <1>1, <1>5, <2>3
        <3>2. CASE i # Len(chain)
            <4>1. i \in 1..(Len(chain) - 1) /\ i + 1 \in 1..Len(chain)
                BY <3>2, <1>1
            <4>2. chain'[i] = chain[i] /\ chain'[i + 1] = chain[i + 1]
                BY <4>1, <2>1, <1>5
            <4> QED BY <4>1, <4>2, <2>2
        <3> QED BY <3>1, <3>2
    <2>6. chain'[1] = chain[1]
        BY <1>1, <1>5, <2>1
    <2> QED BY <2>2, <2>4, <2>5, <2>6
<1> QED BY <1>4, <1>5, <1>6 DEF IInv, WithinSoFar, NarrowedHolds

LEMMA VerifyLinkKeepsIInv == ASSUME IInv, VerifyLink PROVE IInv'
<1>1. /\ UNCHANGED <<chain, narrowed, clock>> /\ verdict = "verifying"
      /\ link \in 1..(Len(chain) - 1) /\ Len(chain) \in Nat
      /\ DOMAIN chain = 1..Len(chain)
    BY DEF VerifyLink, IInv, ChainTyped, WithinSoFar
<1>2. CASE LinkHolds(chain[link], chain[link + 1])
    <2>1. link' = link + 1 /\ verdict' = "verifying"
        BY <1>1, <1>2 DEF VerifyLink
    <2>2. \A i \in 1..(link + 1) : Typed(chain[i])
        BY <1>1 DEF IInv, ChainTyped
    <2>3. WithinAuthority(chain[link + 1], chain[link])
        BY <1>1, <1>2, <2>2, LinkIsWithin
    <2>4. \A i, j \in 1..link : i < j => WithinAuthority(chain[j], chain[i])
        BY <1>1 DEF IInv, WithinSoFar
    <2>5. ASSUME NEW i \in 1..link PROVE WithinAuthority(chain[link + 1], chain[i])
        <3>1. CASE i = link
            BY <3>1, <2>3
        <3>2. CASE i # link
            <4>1. WithinAuthority(chain[link], chain[i])
                BY <1>1, <2>4, <3>2
            <4>2. Typed(chain[i]) /\ Typed(chain[link]) /\ Typed(chain[link + 1])
                BY <1>1, <2>2
            <4> QED BY <2>3, <4>1, <4>2, WithinIsTransitive
        <3> QED BY <3>1, <3>2
    <2>6. \A i, j \in 1..link' : i < j => WithinAuthority(chain'[j], chain'[i])
        <3> SUFFICES ASSUME NEW i \in 1..(link + 1), NEW j \in 1..(link + 1), i < j
                     PROVE  WithinAuthority(chain[j], chain[i])
            BY <1>1, <2>1
        <3>1. CASE j = link + 1
            BY <3>1, <1>1, <2>5
        <3>2. CASE j # link + 1
            BY <3>2, <1>1, <2>4
        <3> QED BY <3>1, <3>2
    <2>7. WithinSoFar'
        BY <1>1, <2>1, <2>6 DEF WithinSoFar
    <2> QED BY <1>1, <2>1, <2>7 DEF IInv, ChainTyped, NarrowedHolds
<1>3. CASE ~LinkHolds(chain[link], chain[link + 1])
    <2>1. verdict' = "refused" /\ link' = link
        BY <1>1, <1>3 DEF VerifyLink
    <2>2. ~narrowed
        BY <1>1, <1>3 DEF IInv, NarrowedHolds
    <2> QED BY <1>1, <2>1, <2>2 DEF IInv, ChainTyped, WithinSoFar, NarrowedHolds
<1> QED BY <1>2, <1>3

LEMMA NextIInv == ASSUME IInv, [Next]_vars PROVE IInv'
<1>1. ASSUME NEW t \in Terms, Narrow(t) PROVE IInv'
    BY <1>1, NarrowKeepsIInv
<1>2. ASSUME NEW t \in Terms, NEW parent \in Parents, Forge(t, parent) PROVE IInv'
    <2>1. ChainTyped' /\ verdict' = "open"
        BY <1>2, MadeTyped, ExtendKeepsTyped DEF Forge, IInv
    <2> QED BY <1>2, <2>1 DEF Forge, IInv, WithinSoFar, NarrowedHolds
<1>3. CASE Present
    BY <1>3 DEF Present, IInv, ChainTyped, WithinSoFar, NarrowedHolds
<1>4. CASE VerifyLink
    BY <1>4, VerifyLinkKeepsIInv
<1>5. CASE Accept
    BY <1>5 DEF Accept, IInv, ChainTyped, WithinSoFar, NarrowedHolds
<1>6. CASE UNCHANGED <<chain, narrowed, link, verdict>> /\ clock' \in {clock, clock + 1}
    <2>1. ChainTyped'
        BY <1>6 DEF IInv, ChainTyped
    <2>2. WithinSoFar' /\ NarrowedHolds'
        BY <1>6 DEF IInv, WithinSoFar, NarrowedHolds
    <2> QED BY <2>1, <2>2 DEF IInv
<1> QED BY <1>1, <1>2, <1>3, <1>4, <1>5, <1>6
        DEF Next, Authorize, Lease, Use, Tick, vars

THEOREM IInvHolds == Spec => []IInv
    BY InitIInv, NextIInv, PTL DEF Spec

(***************************************************************************)
(* In an accepted chain every context is within every one above it, for    *)
(* chains of any length.                                                   *)
(***************************************************************************)
THEOREM DelegationOnlyNarrows == Spec => []NothingWidens
<1>1. IInv => NothingWidens
    BY DEF IInv, ChainTyped, WithinSoFar, NothingWidens
<1> QED BY <1>1, IInvHolds, PTL

(***************************************************************************)
(* A chain that narrow made is never refused, and its leaf says how long   *)
(* it is.                                                                  *)
(***************************************************************************)
THEOREM NarrowedChainsVerify == Spec => []NarrowedVerifies
<1>1. IInv => NarrowedVerifies
    BY DEF IInv, ChainTyped, NarrowedHolds, NarrowedVerifies, Leaf
<1> QED BY <1>1, IInvHolds, PTL

-----------------------------------------------------------------------------
\* All expiries are written in one notation: their text order is their time order.
OneNotation ==
    \A e, f \in Expiries : TextRank[e] =< TextRank[f] => Instant[e] =< Instant[f]

\* The last use was let through: the leaf permitted it and had not expired.
UseInv ==
    used.at = "authorize_request" =>
        verdict = "accepted" /\ used.permission \in Permissions
                             /\ Permits(Leaf, used.permission) /\ ~Expired(Leaf)

LEMMA UseInvHolds == Spec => []UseInv
<1>1. Init => UseInv
    BY DEF Init, UseInv, NotUsed
<1>2. ASSUME UseInv, IInv, [Next]_vars PROVE UseInv'
    <2>1. ASSUME NEW p \in Permissions, Authorize(p) PROVE UseInv'
        BY <2>1 DEF Authorize, Use, UseInv, Leaf, Expired
    <2>2. ASSUME NEW p \in Permissions, Lease(p) PROVE UseInv'
        BY <2>2 DEF Lease, Use, UseInv
    <2>3. CASE Tick
        BY <2>3 DEF Tick, UseInv, NotUsed
    <2>4. CASE verdict # "accepted" /\ UNCHANGED <<clock, used>>
        BY <1>2, <2>4 DEF UseInv
    <2>5. CASE UNCHANGED vars
        BY <1>2, <2>5 DEF vars, UseInv, Leaf, Expired
    <2> QED BY <1>2, <2>1, <2>2, <2>3, <2>4, <2>5
            DEF Next, Narrow, Forge, Extend, Present, VerifyLink, Accept
<1> QED BY <1>1, <1>2, IInvHolds, PTL DEF Spec

(***************************************************************************)
(* Where expiries are written in one notation, whatever authorize_request  *)
(* lets a leaf do, every authority above it allows at that instant.        *)
(***************************************************************************)
THEOREM UseStaysWithin ==
    ASSUME OneNotation
    PROVE  Spec => []UseIsWithinEveryAuthority
<1>1. ASSUME IInv, UseInv PROVE UseIsWithinEveryAuthority
    <2> SUFFICES ASSUME used.at = "authorize_request", NEW i \in DOMAIN chain
                 PROVE  ~Expired(chain[i]) /\ Permits(chain[i], used.permission)
        BY DEF UseIsWithinEveryAuthority
    <2>1. /\ verdict = "accepted" /\ used.permission \in Permissions
          /\ Permits(Leaf, used.permission) /\ ~Expired(Leaf)
          /\ Len(chain) \in Nat \ {0} /\ DOMAIN chain = 1..Len(chain) /\ clock \in Nat
          /\ Typed(chain[i]) /\ Typed(Leaf)
        BY <1>1 DEF UseInv, IInv, ChainTyped, Leaf
    <2>2. CASE i = Len(chain)
        BY <2>1, <2>2 DEF Leaf
    <2>3. CASE i # Len(chain)
        <3>1. WithinAuthority(Leaf, chain[i])
            BY <1>1, <2>1, <2>3 DEF IInv, WithinSoFar, Leaf
        <3>2. Permits(chain[i], used.permission)
            BY <2>1, <3>1 DEF WithinAuthority
        <3>3. ASSUME chain[i].expires_at # Never
              PROVE  /\ Leaf.expires_at # Never
                     /\ Instant[Leaf.expires_at] =< Instant[chain[i].expires_at]
            BY <2>1, <3>1, <3>3, OneNotation DEF WithinAuthority, WithinLifetime, Typed, OneNotation
        <3>4. ~Expired(chain[i])
            <4> SUFFICES ASSUME chain[i].expires_at # Never, clock >= Instant[chain[i].expires_at]
                         PROVE  FALSE
                BY DEF Expired
            <4>1. /\ clock \in Nat
                  /\ Instant[chain[i].expires_at] \in Nat /\ Instant[Leaf.expires_at] \in Nat
                  /\ ~(clock >= Instant[Leaf.expires_at])
                BY <2>1, <3>3, ExpiriesAssumption DEF Expired, Typed
            <4> QED BY <3>3, <4>1
        <3> QED BY <3>2, <3>4
    <2> QED BY <2>2, <2>3
<1> QED BY <1>1, IInvHolds, UseInvHolds, PTL
=============================================================================

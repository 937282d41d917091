--------------------------- MODULE DecisionProofs ---------------------------
(***************************************************************************)
(* What can be relied on where a decision is prepared: of the intent that  *)
(* says what was asked, sealed, stored and restored, for every set of      *)
(* contents and every edit of the store; and of the evidence that is       *)
(* bought for it, for every registry, price and failure.                   *)
(*                                                                         *)
(* A record carries the intent it was written from as history.  The        *)
(* invariant of the first says what the store may have done to it: an      *)
(* unedited record is the storage form of that intent, and the hash of an  *)
(* edited one is still that of the intent, or gone.  The invariant of the  *)
(* second says how far down the sorted list the calls are, what each was   *)
(* allowed, and that the bills add up.                                     *)
(***************************************************************************)
EXTENDS VerifiedIntent, Acquisition, FiniteSetTheorems, WellFoundedInduction, TLAPS

Closed(i) == i.state # "DRAFT" => Unsealable(i.content) = {}

Sound(i) == Constructible(i.content) /\ i.state \in States

IsIntent(i) == i = [content |-> i.content, state |-> i.state]

\* The storage form of what it was written from, or an edit of it.
RecordHolds ==
    record # NoRecord =>
        /\ IsIntent(record.original) /\ Sound(record.original)
        /\ record.json = [hash |-> record.json.hash, state |-> record.json.state,
                          content |-> record.json.content]
        /\ record = [json |-> record.json, original |-> record.original,
                     edited |-> record.edited]
        /\ record.json.hash \subseteq {CanonicalForm(record.original.content)}
        /\ ~record.edited => record.json = ToJson(record.original)

\* How the last reading ended, and what it left.
OutcomeHolds ==
    outcome # "" =>
        /\ record # NoRecord
        /\ outcome = Reading(record.json)
        /\ outcome = "restored" =>
              held = [content |-> record.json.content, state |-> record.json.state]

\* What was not constructed as sealed is closed once it is, and so is its plan.
SealHolds ==
    ~given => Closed(held) /\ (plan # NoPlan => Unsealable(plan.intent) = {})

IInv == IsIntent(held) /\ Sound(held) /\ RecordHolds /\ OutcomeHolds /\ SealHolds

-----------------------------------------------------------------------------
\* What is read is sound and closed, whatever was done to the record.
LEMMA ReadingIsSound ==
    ASSUME NEW r, Reading(r) = "restored", r.state \in States
    PROVE  /\ Sound([content |-> r.content, state |-> r.state])
           /\ Closed([content |-> r.content, state |-> r.state])
    BY DEF Reading, Sound, Closed, Constructible

\* A sound intent is read back from its storage form exactly when it is closed.
LEMMA SoundIsRead ==
    ASSUME NEW i, Sound(i)
    PROVE  /\ Closed(i) => Reading(ToJson(i)) = "restored"
           /\ ~Closed(i) => Reading(ToJson(i)) = "CorruptIntent"
           /\ ToJson(i).content = i.content /\ ToJson(i).state = i.state
    BY DEF Reading, ToJson, Sound, Closed, Constructible, States

LEMMA InitIInv == Init => IInv
<1> SUFFICES ASSUME Init PROVE IInv
    OBVIOUS
<1>1. PICK c \in Contents : Constructible(c) /\ held = [content |-> c, state |-> "DRAFT"]
    BY DEF Init
<1>2. held.content = c /\ held.state = "DRAFT"
    BY <1>1
<1>3. IsIntent(held)
    BY <1>1, <1>2 DEF IsIntent
<1>4. Sound(held) /\ Closed(held)
    BY <1>1, <1>2 DEF Sound, Closed, States
<1>5. record = NoRecord /\ outcome = "" /\ plan = NoPlan
    BY DEF Init
<1> QED BY <1>3, <1>4, <1>5 DEF IInv, RecordHolds, OutcomeHolds, SealHolds

-----------------------------------------------------------------------------
StateHolds == record # NoRecord => record.json.state \in States

LEMMA StateHoldsAlways == Spec => [](IInv /\ StateHolds)
<1>1. Init => IInv /\ StateHolds
    BY InitIInv DEF Init, StateHolds
<1>2. ASSUME IInv, StateHolds, [Next]_vars PROVE IInv' /\ StateHolds'
    <2>1. ASSUME NEW c \in Contents, NEW s \in States, Construct(c, s)
          PROVE  IInv' /\ StateHolds'
        <3>1. held' = [content |-> c, state |-> s] /\ Constructible(c)
            BY <2>1 DEF Construct
        <3>2. IsIntent(held') /\ Sound(held')
            BY <3>1 DEF IsIntent, Sound
        <3>5. given' = (s # "DRAFT")
            BY <2>1 DEF Construct
        <3>6. held'.state = s
            BY <3>1
        <3>4. ~given' => Closed(held')
            BY <3>5, <3>6 DEF Closed
        <3>3. record' = record /\ outcome' = "" /\ plan' = NoPlan
            BY <2>1 DEF Construct
        <3> QED BY <1>2, <3>2, <3>3, <3>4
                DEF IInv, RecordHolds, OutcomeHolds, SealHolds, StateHolds
    <2>2. CASE Seal
        <3>1. held' = [content |-> held.content, state |-> "VERIFIED"]
            BY <1>2, <2>2 DEF Seal, IInv, IsIntent
        <3>2. IsIntent(held') /\ Sound(held') /\ Closed(held')
            BY <1>2, <2>2, <3>1 DEF Seal, IInv, IsIntent, Sound, Closed, States
        <3>3. record' = record /\ outcome' = "" /\ plan' = NoPlan
            BY <2>2 DEF Seal
        <3> QED BY <1>2, <3>2, <3>3
                DEF IInv, RecordHolds, OutcomeHolds, SealHolds, StateHolds
    <2>3. ASSUME NEW s \in {"STALE", "INVALIDATED"}, Doubt(s) PROVE IInv' /\ StateHolds'
        <3>1. held' = [content |-> held.content, state |-> s]
            BY <1>2, <2>3 DEF Doubt, IInv, IsIntent
        <3>2. held.state # "DRAFT"
            BY <2>3 DEF Doubt
        <3>3. IsIntent(held') /\ Sound(held')
            BY <1>2, <3>1, <3>2 DEF IInv, IsIntent, Sound, States
        <3>5. ~given' => Closed(held')
            BY <1>2, <2>3, <3>1, <3>2 DEF Doubt, IInv, SealHolds, Closed
        <3>4. record' = record /\ outcome' = "" /\ plan' = NoPlan
            BY <2>3 DEF Doubt
        <3> QED BY <1>2, <3>3, <3>4, <3>5
                DEF IInv, RecordHolds, OutcomeHolds, SealHolds, StateHolds
    <2>4. CASE Store
        <3>1. /\ record' = [json |-> ToJson(held), original |-> held, edited |-> FALSE]
              /\ held' = held /\ given' = given /\ outcome' = "" /\ plan' = NoPlan
            BY <2>4 DEF Store
        <3>2. /\ record'.json = ToJson(held) /\ record'.original = held
              /\ record'.edited = FALSE
            BY <3>1
        <3>3. /\ ToJson(held).hash = {CanonicalForm(held.content)}
              /\ ToJson(held) = [hash |-> ToJson(held).hash, state |-> ToJson(held).state,
                                 content |-> ToJson(held).content]
              /\ ToJson(held).state = held.state
            BY DEF ToJson
        <3>4. RecordHolds'
            BY <1>2, <3>1, <3>2, <3>3 DEF RecordHolds, IInv
        <3>5. StateHolds'
            BY <1>2, <3>2, <3>3 DEF StateHolds, IInv, Sound
        <3> QED BY <1>2, <3>1, <3>4, <3>5 DEF IInv, OutcomeHolds, SealHolds
    <2>5. ASSUME NEW c \in Contents, NEW s \in States, NEW keepsHash \in BOOLEAN,
                 Edit(c, s, keepsHash)
          PROVE  IInv' /\ StateHolds'
        <3>1. /\ record # NoRecord
              /\ held' = held /\ given' = given /\ outcome' = "" /\ plan' = NoPlan
            BY <2>5 DEF Edit
        <3>2. PICK h : h = IF keepsHash THEN record.json.hash ELSE {}
            OBVIOUS
        <3>3. record' = [json |-> [hash |-> h, state |-> s, content |-> c],
                         original |-> record.original, edited |-> TRUE]
            BY <1>2, <2>5, <3>1, <3>2 DEF Edit, IInv, RecordHolds
        <3>4. /\ record'.json = [hash |-> h, state |-> s, content |-> c]
              /\ record'.original = record.original /\ record'.edited = TRUE
            BY <3>3
        <3>5. h \subseteq {CanonicalForm(record.original.content)}
            BY <1>2, <3>1, <3>2 DEF IInv, RecordHolds
        <3>6. RecordHolds'
            BY <1>2, <3>1, <3>3, <3>4, <3>5 DEF IInv, RecordHolds
        <3>7. StateHolds'
            BY <3>4 DEF StateHolds
        <3> QED BY <1>2, <3>1, <3>6, <3>7 DEF IInv, OutcomeHolds, SealHolds
    <2>6. CASE Restore
        <3>1. /\ record # NoRecord /\ record' = record /\ plan' = NoPlan
              /\ outcome' = Reading(record.json)
              /\ held' = IF outcome' = "restored"
                         THEN [content |-> record.json.content, state |-> record.json.state]
                         ELSE held
            BY <2>6 DEF Restore
        <3>2. IsIntent(held') /\ Sound(held')
            <4>1. CASE Reading(record.json) = "restored"
                <5>1. record.json.state \in States
                    BY <1>2, <3>1 DEF StateHolds
                <5>2. Sound([content |-> record.json.content, state |-> record.json.state])
                    BY <4>1, <5>1, ReadingIsSound
                <5> QED BY <3>1, <4>1, <5>2 DEF IsIntent
            <4>2. CASE Reading(record.json) # "restored"
                BY <1>2, <3>1, <4>2 DEF IInv
            <4> QED BY <4>1, <4>2
        <3>4. ~given' => Closed(held')
            <4>1. CASE Reading(record.json) = "restored"
                BY <1>2, <3>1, <4>1, ReadingIsSound DEF StateHolds
            <4>2. CASE Reading(record.json) # "restored"
                <5>1. given' = (given /\ outcome' # "restored") /\ outcome' # "restored"
                    BY <2>6, <3>1, <4>2 DEF Restore
                <5>2. ~given' => ~given
                    BY <5>1
                <5> QED BY <1>2, <3>1, <4>2, <5>2 DEF IInv, SealHolds
            <4> QED BY <4>1, <4>2
        <3>3. OutcomeHolds'
            BY <3>1 DEF OutcomeHolds
        <3> QED BY <1>2, <3>1, <3>2, <3>3, <3>4 DEF IInv, RecordHolds, SealHolds, StateHolds
    <2>7. CASE Compile
        <3>1. plan'.intent = held.content /\ (~given => Unsealable(held.content) = {})
            BY <1>2, <2>7 DEF Compile, IInv, SealHolds, Closed
        <3> QED BY <1>2, <2>7, <3>1
                DEF Compile, IInv, RecordHolds, OutcomeHolds, SealHolds, StateHolds
    <2>8. CASE UNCHANGED vars
        BY <1>2, <2>8 DEF vars, IInv, RecordHolds, OutcomeHolds, SealHolds, StateHolds
    <2> QED BY <1>2, <2>1, <2>2, <2>3, <2>4, <2>5, <2>6, <2>7, <2>8 DEF Next
<1> QED BY <1>1, <1>2, PTL DEF Spec

-----------------------------------------------------------------------------
(***************************************************************************)
(* Whatever says it was sealed, and was not told so by a constructor's     *)
(* caller, is closed, edits of the store and the storage of intents that   *)
(* were constructed as sealed included; and so is what is compiled of it.  *)
(***************************************************************************)
THEOREM SealsHold == Spec => []SealedIsClosed
<1>1. IInv => SealedIsClosed
    BY DEF IInv, Closed, SealHolds, SealedIsClosed, Unsealable
<1> QED BY <1>1, StateHoldsAlways, PTL

(***************************************************************************)
(* Every intent that can exist is read back from its own storage form, as  *)
(* the object it was, unless it was constructed as sealed with something   *)
(* open; then it is refused.                                               *)
(***************************************************************************)
THEOREM StorageIsLossless == Spec => []RoundTripIsLossless
<1>1. ASSUME IInv PROVE RoundTripIsLossless
    <2> SUFFICES ASSUME outcome # "", ~record.edited
                 PROVE  IF Closed(record.original)
                        THEN outcome = "restored" /\ held = record.original
                        ELSE outcome = "CorruptIntent"
        BY DEF RoundTripIsLossless, Closed, Unsealable
    <2>1. /\ outcome = Reading(record.json) /\ record.json = ToJson(record.original)
          /\ Sound(record.original) /\ IsIntent(record.original)
        BY <1>1 DEF IInv, OutcomeHolds, RecordHolds
    <2>2. CASE Closed(record.original)
        <3>1. /\ outcome = "restored" /\ record.json.content = record.original.content
              /\ record.json.state = record.original.state
            BY <2>1, <2>2, SoundIsRead
        <3> QED BY <1>1, <2>1, <2>2, <3>1 DEF IInv, OutcomeHolds, IsIntent
    <2>3. CASE ~Closed(record.original)
        BY <2>1, <2>3, SoundIsRead
    <2> QED BY <2>2, <2>3
<1> QED BY <1>1, StateHoldsAlways, PTL

\* Contents of one canonical form ask the same.
LEMMA OneFormAsksTheSame ==
    ASSUME NEW a, NEW b, CanonicalForm(a) = CanonicalForm(b)
    PROVE  /\ DOMAIN a.fields = DOMAIN b.fields
           /\ \A d \in DOMAIN a.fields :
                 /\ a.fields[d].value = b.fields[d].value
                 /\ a.fields[d].author = b.fields[d].author
           /\ a.amendments = b.amendments /\ a.relations = b.relations
           /\ {u.dimension : u \in {v \in a.unresolved : v.result_changing}} \subseteq
                 {u.dimension : u \in b.unresolved}
<1>1. PICK fa : fa = [d \in DOMAIN a.fields |-> [value |-> a.fields[d].value,
                                                 author |-> a.fields[d].author]]
    OBVIOUS
<1>2. PICK fb : fb = [d \in DOMAIN b.fields |-> [value |-> b.fields[d].value,
                                                 author |-> b.fields[d].author]]
    OBVIOUS
<1>3. CanonicalForm(a).fields = fa /\ CanonicalForm(b).fields = fb
    BY <1>1, <1>2 DEF CanonicalForm
<1>4. fa = fb
    BY <1>3
<1>5. DOMAIN a.fields = DOMAIN b.fields
    BY <1>1, <1>2, <1>4
<1>6. ASSUME NEW d \in DOMAIN a.fields
      PROVE  /\ a.fields[d].value = b.fields[d].value
             /\ a.fields[d].author = b.fields[d].author
    <2>1. /\ fa[d] = [value |-> a.fields[d].value, author |-> a.fields[d].author]
          /\ fb[d] = [value |-> b.fields[d].value, author |-> b.fields[d].author]
        BY <1>1, <1>2, <1>5
    <2> QED BY <2>1, <1>4
<1>7. a.amendments = b.amendments /\ a.relations = b.relations
    BY DEF CanonicalForm
<1>8. {[dimension |-> u.dimension, reason |-> u.reason] :
          u \in {v \in a.unresolved : v.result_changing \/ v.reason # "NOT_ASKED"}} =
      {[dimension |-> u.dimension, reason |-> u.reason] :
          u \in {v \in b.unresolved : v.result_changing \/ v.reason # "NOT_ASKED"}}
    BY DEF CanonicalForm
<1>9. ASSUME NEW u \in a.unresolved, u.result_changing
      PROVE  \E w \in b.unresolved : w.dimension = u.dimension
    <2>1. [dimension |-> u.dimension, reason |-> u.reason] \in
             {[dimension |-> w.dimension, reason |-> w.reason] :
                 w \in {v \in b.unresolved : v.result_changing \/ v.reason # "NOT_ASKED"}}
        BY <1>8, <1>9
    <2>2. PICK w \in b.unresolved :
             [dimension |-> u.dimension, reason |-> u.reason] =
                [dimension |-> w.dimension, reason |-> w.reason]
        BY <2>1
    <2>3. w.dimension = u.dimension
        BY <2>2
    <2> QED BY <2>3
<1> QED BY <1>5, <1>6, <1>7, <1>9

(***************************************************************************)
(* A record that kept its hash is only read as the request that was        *)
(* stored, for every edit of everything else in it.                        *)
(***************************************************************************)
THEOREM HashPinsTheRequest == Spec => []RestoredAsksTheSame
<1>1. ASSUME IInv PROVE RestoredAsksTheSame
    <2> SUFFICES ASSUME outcome = "restored", record.json.hash # {}
                 PROVE  RestoredAsksTheSame
        BY DEF RestoredAsksTheSame
    <2>1. /\ Reading(record.json) = "restored" /\ held.content = record.json.content
          /\ record.json.hash = {CanonicalForm(record.original.content)}
        BY <1>1 DEF IInv, OutcomeHolds, RecordHolds
    <2>2. record.json.hash \subseteq {CanonicalForm(held.content)}
        BY <2>1 DEF Reading
    <2>3. CanonicalForm(held.content) = CanonicalForm(record.original.content)
        BY <2>1, <2>2
    <2>4. CanonicalForm(record.original.content) = CanonicalForm(held.content)
        BY <2>3
    <2>5. /\ DOMAIN held.content.fields = DOMAIN record.original.content.fields
          /\ \A d \in DOMAIN held.content.fields :
                /\ held.content.fields[d].value = record.original.content.fields[d].value
                /\ held.content.fields[d].author = record.original.content.fields[d].author
          /\ held.content.amendments = record.original.content.amendments
          /\ held.content.relations = record.original.content.relations
          /\ {u.dimension : u \in {v \in held.content.unresolved : v.result_changing}}
                \subseteq {u.dimension : u \in record.original.content.unresolved}
        BY <2>3, OneFormAsksTheSame
    <2>6. {u.dimension : u \in {v \in record.original.content.unresolved : v.result_changing}}
             \subseteq {u.dimension : u \in held.content.unresolved}
        BY <2>4, OneFormAsksTheSame
    <2> QED BY <2>5, <2>6 DEF RestoredAsksTheSame
<1> QED BY <1>1, StateHoldsAlways, PTL

\* A set of naturals that is not empty has a least element.
LEMMA LeastNumber ==
    ASSUME NEW S, S \subseteq Nat, S # {}
    PROVE  \E n \in S : \A m \in S : n <= m
  <1>1. PICK n \in S : \A m \in S : <<m, n>> \notin OpToRel(<, Nat)
    BY WFMin, NatLessThanWellFounded, Zenon
  <1>2. \A m \in S : ~(m < n)
    BY <1>1, Zenon DEF OpToRel
  <1> QED  BY <1>2

-----------------------------------------------------------------------------
(***************************************************************************)
(* The acquisition of what a decision needs.                               *)
(***************************************************************************)

\* The order of the match: by price, and by the registry where prices agree.
LEMMA CheaperIsAnOrder ==
    ASSUME price \in [Range(Providers) -> Money]
    PROVE  \A i, j, k \in DOMAIN Providers :
              /\ ~Cheaper(i, i)
              /\ Cheaper(i, j) /\ Cheaper(j, k) => Cheaper(i, k)
              /\ i # j => Cheaper(i, j) \/ Cheaper(j, i)
  <1>1. \A i \in DOMAIN Providers : i \in Nat /\ price[Providers[i]] \in Nat
    BY ProvidersAssumption, MoneyAssumption DEF Range
  <1> QED  BY <1>1 DEF Cheaper

LEMMA EntitledIsFinite ==
    /\ IsFiniteSet(Entitled) /\ Cardinality(Entitled) \in Nat
    /\ Entitled \subseteq DOMAIN Providers
  <1>1. PICK n \in Nat : DOMAIN Providers = 1..n
    BY ProvidersAssumption
  <1>2. IsFiniteSet(1..n)
    BY FS_Interval
  <1>3. Entitled \subseteq DOMAIN Providers
    BY DEF Entitled
  <1> QED  BY <1>1, <1>2, <1>3, FS_Subset, FS_CardinalityType

\* The turn of an entitled provider is a number of its own, and a cheaper one
\* has a lower.
LEMMA TurnIsARank ==
    ASSUME price \in [Range(Providers) -> Money], NEW n, n = Cardinality(Entitled)
    PROVE  /\ \A i \in Entitled : Turn(i) \in 1..n
           /\ \A i, j \in Entitled : Cheaper(i, j) => Turn(i) < Turn(j)
           /\ \A i, j \in Entitled : Turn(i) = Turn(j) => i = j
           /\ \A k \in 1..n : \E i \in Entitled : Turn(i) = k
  <1> DEFINE Below(i) == {j \in Entitled : Cheaper(j, i)}
  <1>1. \A i, j, k \in Entitled :
              /\ ~Cheaper(i, i)
              /\ Cheaper(i, j) /\ Cheaper(j, k) => Cheaper(i, k)
              /\ i # j => Cheaper(i, j) \/ Cheaper(j, i)
    BY CheaperIsAnOrder, EntitledIsFinite
  <1>2. \A i \in Entitled : Turn(i) = Cardinality(Below(i)) + 1
    BY DEF Turn
  <1>3. IsFiniteSet(Entitled) /\ n \in Nat
    BY EntitledIsFinite
  <1>4. \A i \in Entitled : Below(i) \subseteq Entitled \ {i}
    BY <1>1
  <1>5. \A i, j \in Entitled : Cheaper(i, j) => i \in Below(j) /\ Below(i) \subseteq Below(j) \ {i}
    BY <1>1
  <1> HIDE DEF Below
  <1>6. \A i \in Entitled : /\ IsFiniteSet(Below(i)) /\ Cardinality(Below(i)) \in Nat
                            /\ Cardinality(Below(i)) <= n - 1
    <2> SUFFICES ASSUME NEW i \in Entitled
                 PROVE  /\ IsFiniteSet(Below(i)) /\ Cardinality(Below(i)) \in Nat
                        /\ Cardinality(Below(i)) <= n - 1
      OBVIOUS
    <2>1. IsFiniteSet(Entitled \ {i}) /\ Cardinality(Entitled \ {i}) = n - 1
      BY <1>3, FS_RemoveElement
    <2> QED  BY <1>4, <2>1, FS_Subset, FS_CardinalityType
  <1>7. ASSUME NEW i \in Entitled, NEW j \in Entitled, Cheaper(i, j)
        PROVE  Cardinality(Below(i)) < Cardinality(Below(j))
    <2>1. /\ IsFiniteSet(Below(j) \ {i})
          /\ Cardinality(Below(j) \ {i}) = Cardinality(Below(j)) - 1
      BY <1>5, <1>6, <1>7, FS_RemoveElement
    <2>2. Cardinality(Below(i)) <= Cardinality(Below(j) \ {i})
      BY <1>5, <1>7, <2>1, FS_Subset
    <2> QED  BY <1>6, <2>1, <2>2
  <1>8. ASSUME NEW i \in Entitled
        PROVE  Turn(i) \in 1..n
    <2>1. PICK below : below = Cardinality(Below(i))
      OBVIOUS
    <2>2. below \in Nat /\ below <= n - 1 /\ Turn(i) = below + 1
      BY <1>2, <1>6, <2>1
    <2> QED  BY <1>3, <2>2
  <1>9. \A i, j \in Entitled : Cheaper(i, j) => Turn(i) < Turn(j)
    BY <1>2, <1>6, <1>7
  <1>10. \A i, j \in Entitled : Turn(i) = Turn(j) => i = j
    BY <1>1, <1>3, <1>8, <1>9
  <1>11. PICK f : f = [i \in Entitled |-> Turn(i)]
    OBVIOUS
  <1>12. f \in Injection(Entitled, 1..n)
    BY <1>8, <1>10, <1>11 DEF Injection, IsInjective
  <1>13. f \in Surjection(Entitled, 1..n)
    <2>1. IsFiniteSet(1..n) /\ Cardinality(1..n) = n
      BY <1>3, FS_Interval
    <2> QED  BY <1>12, <2>1, FS_Injection
  <1>14. \A k \in 1..n : \E i \in Entitled : Turn(i) = k
    BY <1>11, <1>13 DEF Surjection
  <1> QED  BY <1>8, <1>9, <1>10, <1>14

\* What is matched are providers, each once, in the order of their prices.
Sorted(providers, prices) ==
    /\ providers \in Seq(Range(Providers))
    /\ \A k, l \in DOMAIN providers : k < l =>
          /\ providers[k] # providers[l]
          /\ prices[providers[k]] <= prices[providers[l]]

LEMMA MatchSorts ==
    ASSUME price \in [Range(Providers) -> Money]
    PROVE  Sorted(Match, price)
  <1>1. PICK n : n = Cardinality(Entitled)
    OBVIOUS
  <1>2. n \in Nat /\ Entitled \subseteq DOMAIN Providers
    BY <1>1, EntitledIsFinite
  <1>3. /\ \A i, j \in Entitled : Cheaper(i, j) => Turn(i) < Turn(j)
        /\ \A k \in 1..n : \E i \in Entitled : Turn(i) = k
    BY <1>1, TurnIsARank
  <1>4. PICK p : p = [k \in 1..n |-> CHOOSE i \in Entitled : Turn(i) = k]
    OBVIOUS
  <1>5. \A k \in 1..n : p[k] \in Entitled /\ Turn(p[k]) = k
    BY <1>3, <1>4
  <1>6. DOMAIN Match = 1..n /\ \A k \in 1..n : Match[k] = Providers[p[k]]
    BY <1>1, <1>4 DEF Match
  <1>7. Match \in [1..n -> Range(Providers)]
    <2>1. \A k \in 1..n : Match[k] \in Range(Providers)
      BY <1>2, <1>5, <1>6 DEF Range
    <2>2. Match = [k \in 1..n |-> Match[k]]
      BY <1>1, <1>6 DEF Match
    <2> QED  BY <2>1, <2>2
  <1>8. ASSUME NEW k \in 1..n, NEW l \in 1..n, k < l
        PROVE  Match[k] # Match[l] /\ price[Match[k]] <= price[Match[l]]
    <2>1. /\ p[k] \in Entitled /\ p[l] \in Entitled
          /\ Turn(p[k]) = k /\ Turn(p[l]) = l
      BY <1>5
    <2>2. /\ p[k] \in DOMAIN Providers /\ p[l] \in DOMAIN Providers
          /\ p[k] # p[l]
      BY <1>2, <1>8, <2>1
    <2>3. Providers[p[k]] # Providers[p[l]]
      BY <2>2, ProvidersAssumption DEF IsInjective
    <2>4. ~Cheaper(p[l], p[k])
      <3>1. Cheaper(p[l], p[k]) => Turn(p[l]) < Turn(p[k])
        BY <1>3, <2>1
      <3> QED  BY <1>8, <2>1, <3>1
    <2>5. Cheaper(p[k], p[l])
      BY <2>2, <2>4, CheaperIsAnOrder
    <2>6. price[Providers[p[k]]] \in Nat /\ price[Providers[p[l]]] \in Nat
      BY <2>2, MoneyAssumption DEF Range
    <2> QED  BY <1>6, <2>3, <2>5, <2>6 DEF Cheaper
  <1>9. Match \in Seq(Range(Providers))
    BY <1>2, <1>7
  <1> QED  BY <1>6, <1>8, <1>9 DEF Sorted

-----------------------------------------------------------------------------
CallRecords ==
    [provider : Range(Providers), bill : Money, outcome : {"found"} \cup Retryable \cup Final,
     request : {ToEvidenceRequest(d) : d \in Needs}, artifacts : SUBSET Range(Providers),
     estimate : Money]

AcquisitionTypes ==
    /\ need \in Needs
    /\ price \in [Range(Providers) -> Money] /\ matched \in [Range(Providers) -> Money]
    /\ candidates \in Seq(Range(Providers)) /\ calls \in Seq(CallRecords)
    /\ spent \in Nat

\* The calls went down the list of the match, one each, and on after a failure
\* that is retried.
LadderHolds ==
    /\ Sorted(candidates, matched)
    /\ Len(calls) <= Len(candidates)
    /\ \A i \in DOMAIN calls : calls[i].provider = candidates[i]
    /\ \A i \in DOMAIN calls : i < Len(calls) => calls[i].outcome \in Retryable
    /\ phase = "asked" => calls = << >> /\ pos = 1 /\ spent = 0
    /\ phase = "walking" => /\ pos = Len(calls) + 1
                            /\ \A i \in DOMAIN calls : calls[i].outcome \in Retryable

HasPurpose == need.capability \in PiiCapabilities => ToEvidenceRequest(need).purpose # ""

\* What was asked was asked under the need and its ceiling.
RequestsHold ==
    /\ \A i \in DOMAIN calls :
          /\ calls[i].request = ToEvidenceRequest(need)
          /\ calls[i].estimate <= need.max_cost
          /\ HasPurpose
    /\ need.max_cost = 0 /\ (\A i \in DOMAIN calls : calls[i].bill <= calls[i].estimate) =>
          spent = 0

\* The bills add up to what is spent; what was found is what is returned.
Adds(sum) ==
    /\ sum[0] = 0
    /\ \A k \in 1..Len(calls) : sum[k] = sum[k - 1] + calls[k].bill

Balanced == \E sum \in [0..Len(calls) -> Nat] : Adds(sum) /\ sum[Len(calls)] = spent

FindingsHold ==
    /\ \A i \in DOMAIN calls : calls[i].artifacts \subseteq result.artifacts
    /\ \A a \in result.artifacts : \E i \in DOMAIN calls : a \in calls[i].artifacts
    /\ phase \in {"asked", "walking"} => result.artifacts = {}
    /\ phase \in {"done", "answered"} =>
          /\ result.cost = spent /\ row.cost = spent
          /\ \/ row.evidence_received = TRUE /\ result.artifacts = {row.provider}
             \/ row.evidence_received = FALSE /\ result.artifacts = {}

AnswerHolds ==
    phase = "answered" =>
        /\ answer.total_cost = spent
        /\ answer.evidence_event_ids = result.artifacts
        /\ answer.provider_receipts = Receipts

AcquisitionInv ==
    /\ AcquisitionTypes /\ LadderHolds /\ RequestsHold
    /\ Balanced /\ FindingsHold /\ AnswerHolds

-----------------------------------------------------------------------------
LEMMA InitAcquisitionInv == AcquisitionInit => AcquisitionInv
  <1> SUFFICES ASSUME AcquisitionInit PROVE AcquisitionInv
    OBVIOUS
  <1>1. calls = << >> /\ candidates = << >> /\ spent = 0 /\ matched = price /\ phase = "asked"
    BY DEF AcquisitionInit
  <1>2. /\ calls \in Seq(CallRecords) /\ Len(calls) = 0 /\ DOMAIN calls = {}
        /\ candidates \in Seq(Range(Providers)) /\ Len(candidates) = 0 /\ DOMAIN candidates = {}
    BY <1>1
  <1>3. AcquisitionTypes
    <2>1. need \in Needs /\ price \in [Range(Providers) -> Money]
      BY DEF AcquisitionInit
    <2> QED  BY <1>1, <1>2, <2>1 DEF AcquisitionTypes
  <1>4. LadderHolds
    <2>1. pos = 1
      BY DEF AcquisitionInit
    <2> QED  BY <1>1, <1>2, <2>1 DEF LadderHolds, Sorted
  <1>5. RequestsHold
    BY <1>1, <1>2 DEF RequestsHold
  <1>6. Balanced
    <2>1. PICK sum : sum = [k \in 0..0 |-> 0]
      OBVIOUS
    <2>2. sum \in [0..Len(calls) -> Nat] /\ Adds(sum) /\ sum[Len(calls)] = spent
      BY <1>1, <1>2, <2>1 DEF Adds
    <2> QED  BY <2>2 DEF Balanced
  <1>7. FindingsHold
    <2>1. result = None
      BY DEF AcquisitionInit
    <2>2. result.artifacts = {}
      BY <2>1 DEF None
    <2> QED  BY <1>1, <1>2, <2>2 DEF FindingsHold
  <1>8. AnswerHolds
    BY <1>1 DEF AnswerHolds
  <1> QED  BY <1>3, <1>4, <1>5, <1>6, <1>7, <1>8 DEF AcquisitionInv

\* A call is of the provider whose turn it is, within the ceiling at that moment,
\* and is one more.
LEMMA CallIsOneMore ==
    ASSUME AcquisitionTypes, LadderHolds, NEW bill \in Money, NEW artifacts,
           NEW end \in {"found"} \cup Retryable \cup Final,
           artifacts \in SUBSET Range(Providers), Call(bill, end, artifacts)
    PROVE  /\ AcquisitionTypes' /\ HasPurpose
           /\ Len(calls) + 1 \in DOMAIN candidates
           /\ phase = "walking"
           /\ \E c \in CallRecords :
                /\ calls' = Append(calls, c)
                /\ c.provider = candidates[Len(calls) + 1]
                /\ c.request = ToEvidenceRequest(need)
                /\ c.estimate <= need.max_cost
                /\ c.bill = bill /\ c.outcome = end /\ c.artifacts = artifacts
           /\ spent' = spent + bill
           /\ UNCHANGED <<need, matched, candidates, answer>>
  <1>1. pos = Len(calls) + 1 /\ pos \in DOMAIN candidates /\ phase = "walking"
    BY DEF Call, LadderHolds
  <1>2. PICK p : p = candidates[pos]
    OBVIOUS
  <1>3. p \in Range(Providers)
    BY <1>1, <1>2 DEF AcquisitionTypes
  <1>4. PICK request : request = ToEvidenceRequest(need)
    OBVIOUS
  <1>5. Gate(p) = "acquire"
    BY <1>2 DEF Call
  <1>6. /\ ~(request.capability \in PiiCapabilities /\ request.purpose = "")
        /\ ~(price[p] > request.max_cost)
    BY <1>4, <1>5 DEF Gate
  <1>7. request.capability = need.capability /\ request.max_cost = need.max_cost
    BY <1>4, Zenon DEF ToEvidenceRequest
  <1>8. HasPurpose
    BY <1>4, <1>6, <1>7, Zenon DEF HasPurpose
  <1>9. price[p] \in Money /\ price[p] \in Nat
    BY <1>3, MoneyAssumption DEF AcquisitionTypes
  <1>10. price[p] <= need.max_cost
    <2>1. need.max_cost \in Nat
      BY NeedsAssumption DEF AcquisitionTypes
    <2>2. ~(price[p] > need.max_cost)
      BY <1>6, <1>7, Zenon
    <2> QED  BY <1>9, <2>1, <2>2
  <1>11. PICK c : c = [provider |-> p, bill |-> bill, outcome |-> end, request |-> request,
                       artifacts |-> artifacts, estimate |-> price[p]]
    OBVIOUS
  <1>12. /\ c.provider = p /\ c.bill = bill /\ c.outcome = end /\ c.request = request
         /\ c.artifacts = artifacts /\ c.estimate = price[p]
    BY <1>11
  <1>13. c \in CallRecords
    BY <1>3, <1>4, <1>9, <1>11 DEF CallRecords, AcquisitionTypes
  <1>14. /\ calls' = Append(calls, c) /\ spent' = spent + bill
         /\ UNCHANGED <<need, price, matched, candidates, answer>>
    BY <1>2, <1>4, <1>11 DEF Call
  <1>15. AcquisitionTypes'
    BY <1>13, <1>14, MoneyAssumption DEF AcquisitionTypes
  <1> QED  BY <1>1, <1>2, <1>4, <1>8, <1>10, <1>12, <1>13, <1>14, <1>15

\* What one more call leaves as it was, and adds.
LEMMA CallKeepsAccounts ==
    ASSUME AcquisitionInv, NEW bill \in Money, NEW artifacts,
           NEW end \in {"found"} \cup Retryable \cup Final,
           artifacts \in SUBSET Range(Providers), Call(bill, end, artifacts)
    PROVE  AcquisitionTypes' /\ RequestsHold' /\ Balanced'
  <1>1. PICK n : n = Len(calls)
    OBVIOUS
  <1>2. /\ AcquisitionTypes' /\ HasPurpose /\ spent' = spent + bill /\ need' = need
    BY CallIsOneMore DEF AcquisitionInv
  <1>3. PICK c \in CallRecords :
                /\ calls' = Append(calls, c)
                /\ c.request = ToEvidenceRequest(need)
                /\ c.estimate <= need.max_cost
                /\ c.bill = bill
    BY CallIsOneMore DEF AcquisitionInv
  <1>4. /\ n \in Nat /\ DOMAIN calls = 1..n /\ Len(calls') = n + 1 /\ DOMAIN calls' = 1..(n + 1)
        /\ \A i \in 1..n : calls'[i] = calls[i]
        /\ calls'[n + 1] = c
    BY <1>1, <1>3 DEF AcquisitionInv, AcquisitionTypes
  <1>5. HasPurpose' /\ ToEvidenceRequest(need)' = ToEvidenceRequest(need)
    BY <1>2 DEF HasPurpose
  <1>6. bill \in Nat /\ spent \in Nat /\ need.max_cost \in Nat /\ c.estimate \in Nat
    BY MoneyAssumption, NeedsAssumption DEF AcquisitionInv, AcquisitionTypes, CallRecords
  <1>7. RequestsHold'
    <2>1. ASSUME NEW i \in DOMAIN calls'
          PROVE  /\ calls'[i].request = ToEvidenceRequest(need)
                 /\ calls'[i].estimate <= need.max_cost
      <3>1. CASE i \in 1..n
        BY <1>4, <3>1 DEF AcquisitionInv, RequestsHold
      <3>2. CASE i = n + 1
        BY <1>3, <1>4, <3>2
      <3> QED  BY <1>4, <3>1, <3>2
    <2>2. ASSUME need.max_cost = 0,
                 \A i \in DOMAIN calls' : calls'[i].bill <= calls'[i].estimate
          PROVE  spent' = 0
      <3>1. spent = 0
        BY <1>4, <2>2 DEF AcquisitionInv, RequestsHold
      <3>2. bill = 0
        BY <1>3, <1>4, <1>6, <2>2
      <3> QED  BY <1>2, <3>1, <3>2
    <2> QED  BY <1>2, <1>5, <2>1, <2>2 DEF RequestsHold
  <1>8. Balanced'
    <2>1. PICK sum \in [0..n -> Nat] : Adds(sum) /\ sum[n] = spent
      BY <1>1 DEF AcquisitionInv, Balanced
    <2>2. PICK more : more = [k \in 0..(n + 1) |-> IF k = n + 1 THEN spent' ELSE sum[k]]
      OBVIOUS
    <2>3. more \in [0..(n + 1) -> Nat]
      BY <1>2, <1>4, <1>6, <2>2
    <2>4. \A k \in 0..n : more[k] = sum[k]
      BY <1>4, <2>2
    <2>5. more[n + 1] = spent'
      BY <1>4, <2>2
    <2>6. Adds(more)'
      <3>1. more[0] = 0
        BY <1>4, <2>1, <2>4 DEF Adds
      <3>2. ASSUME NEW k \in 1..(n + 1)
            PROVE  more[k] = more[k - 1] + calls'[k].bill
        <4>1. CASE k \in 1..n
          <5>1. more[k] = sum[k] /\ more[k - 1] = sum[k - 1]
            BY <1>4, <2>4, <4>1
          <5> QED  BY <1>1, <1>4, <2>1, <4>1, <5>1 DEF Adds
        <4>2. CASE k = n + 1
          <5>1. n \in 0..n /\ (n + 1) - 1 = n
            BY <1>4
          <5>2. more[n] = spent
            BY <2>1, <2>4, <5>1
          <5> QED  BY <1>2, <1>3, <1>4, <2>5, <4>2, <5>1, <5>2
        <4> QED  BY <1>4, <4>1, <4>2
      <3> QED  BY <1>4, <3>1, <3>2 DEF Adds
    <2> QED  BY <1>4, <2>3, <2>5, <2>6 DEF Balanced
  <1> QED  BY <1>2, <1>7, <1>8

\* The records a ladder ends with.
LEMMA FailedIs ==
    ASSUME NEW failure, NEW cost
    PROVE  Failed(failure, cost).cost = cost /\ Failed(failure, cost).artifacts = {}
    BY Zenon DEF Failed

LEMMA FoundIs ==
    ASSUME NEW artifacts, NEW cost
    PROVE  Found(artifacts, cost).cost = cost /\ Found(artifacts, cost).artifacts = artifacts
    BY Zenon DEF Found

\* A ladder that ends with nothing found, without or after a failing call.
LEMMA EmptyEnd ==
    ASSUME NEW failure, NEW asked, NEW cost,
           Finish(Failed(failure, cost), EvidenceRecord("", asked, FALSE, cost))
    PROVE  /\ phase' = "done" /\ result'.cost = cost /\ row'.cost = cost
           /\ result'.artifacts = {} /\ row'.evidence_received = FALSE
  <1>1. /\ phase' = "done" /\ result' = Failed(failure, cost)
        /\ row' = EvidenceRecord("", asked, FALSE, cost)
    BY Zenon DEF Finish
  <1>2. result'.cost = cost /\ result'.artifacts = {}
    BY <1>1, FailedIs, Zenon
  <1>3. row'.cost = cost /\ row'.evidence_received = FALSE
    BY <1>1, Zenon DEF EvidenceRecord
  <1> QED  BY <1>1, <1>2, <1>3, Zenon

\* The ladder ends without another call: the calls are as they were.
LEMMA EndKeepsInv ==
    ASSUME AcquisitionInv, phase \in {"asked", "walking"}, phase' = "done",
           result'.cost = spent, row'.cost = spent, result'.artifacts = {},
           row'.evidence_received = FALSE,
           Sorted(candidates, matched)', AcquisitionTypes', Len(calls) <= Len(candidates'),
           \A i \in DOMAIN calls : calls[i].provider = candidates'[i],
           UNCHANGED <<need, calls, spent>>
    PROVE  AcquisitionInv'
  <1>1. LadderHolds'
    BY DEF AcquisitionInv, LadderHolds
  <1>2. RequestsHold'
    BY DEF AcquisitionInv, RequestsHold, HasPurpose
  <1>3. Balanced'
    BY DEF AcquisitionInv, Balanced, Adds
  <1>4. FindingsHold'
    <2>1. result.artifacts = {}
      BY DEF AcquisitionInv, FindingsHold
    <2>2. \A i \in DOMAIN calls : calls[i].artifacts = {}
      BY <2>1 DEF AcquisitionInv, FindingsHold
    <2> QED  BY <2>2, Zenon DEF FindingsHold
  <1>5. AnswerHolds'
    BY DEF AnswerHolds
  <1> QED  BY <1>1, <1>2, <1>3, <1>4, <1>5 DEF AcquisitionInv

LEMMA StartKeepsInv == ASSUME AcquisitionInv, Start PROVE AcquisitionInv'
  <1>1. /\ phase = "asked" /\ matched' = price /\ candidates' = Match
        /\ UNCHANGED <<need, price, pos, spent, calls, answer>>
    BY DEF Start
  <1>2. Sorted(Match, price)
    BY MatchSorts DEF AcquisitionInv, AcquisitionTypes
  <1>3. Sorted(candidates, matched)'
    BY <1>1, <1>2, Zenon
  <1>4. AcquisitionTypes'
    BY <1>1, <1>2 DEF AcquisitionInv, AcquisitionTypes, Sorted
  <1>5. calls = << >> /\ pos = 1 /\ spent = 0
    BY <1>1 DEF AcquisitionInv, LadderHolds
  <1>6. Len(calls) = 0 /\ DOMAIN calls = {} /\ Len(candidates') \in Nat
    BY <1>4, <1>5 DEF AcquisitionTypes
  <1>7. CASE Match = << >>
    <2>1. Finish(Failed("not_entitled", 0), EvidenceRecord("", FALSE, FALSE, 0))
      BY <1>7, Zenon DEF Start
    <2>2. /\ phase' = "done" /\ result'.cost = 0 /\ row'.cost = 0
          /\ result'.artifacts = {} /\ row'.evidence_received = FALSE
      BY <2>1, EmptyEnd, Zenon
    <2>3. Len(calls) <= Len(candidates') /\ \A i \in DOMAIN calls : calls[i].provider = candidates'[i]
      BY <1>6
    <2>4. phase \in {"asked", "walking"} /\ result'.cost = spent /\ row'.cost = spent
          /\ UNCHANGED <<need, calls, spent>>
      BY <1>1, <1>5, <2>2
    <2> QED  BY <1>3, <1>4, <2>2, <2>3, <2>4, EndKeepsInv, Zenon
  <1>8. CASE Match # << >>
    <2>1. phase' = "walking" /\ UNCHANGED <<result, row>>
      BY <1>8, Zenon DEF Start
    <2>2. LadderHolds'
      BY <1>1, <1>3, <1>5, <1>6, <2>1 DEF LadderHolds
    <2>3. RequestsHold'
      BY <1>1, <1>5, <1>6 DEF RequestsHold
    <2>4. Balanced'
      BY <1>1 DEF AcquisitionInv, Balanced, Adds
    <2>5. FindingsHold' /\ AnswerHolds'
      BY <1>1, <2>1 DEF AcquisitionInv, FindingsHold, AnswerHolds
    <2> QED  BY <1>4, <2>2, <2>3, <2>4, <2>5 DEF AcquisitionInv
  <1> QED  BY <1>7, <1>8

LEMMA StopKeepsInv == ASSUME AcquisitionInv, GateStops \/ Exhausted PROVE AcquisitionInv'
  <1>1. /\ phase = "walking"
        /\ UNCHANGED <<need, price, matched, candidates, spent, calls, answer>>
    BY DEF GateStops, Exhausted
  <1>2. /\ phase' = "done" /\ result'.cost = spent /\ row'.cost = spent
        /\ result'.artifacts = {} /\ row'.evidence_received = FALSE
    <2>1. CASE GateStops
      <3>1. Finish(Failed("budget_exceeded", spent), EvidenceRecord("", FALSE, FALSE, spent))
        BY <2>1, Zenon DEF GateStops
      <3> QED  BY <3>1, EmptyEnd, Zenon
    <2>2. CASE Exhausted
      <3>1. Finish(Failed(lastFailure, spent), EvidenceRecord("", TRUE, FALSE, spent))
        BY <2>2, Zenon DEF Exhausted
      <3> QED  BY <3>1, EmptyEnd, Zenon
    <2> QED  BY <2>1, <2>2
  <1>3. /\ Sorted(candidates, matched)' /\ AcquisitionTypes' /\ Len(calls) <= Len(candidates')
        /\ \A i \in DOMAIN calls : calls[i].provider = candidates'[i]
    BY <1>1 DEF AcquisitionInv, AcquisitionTypes, LadderHolds, Sorted
  <1> QED  BY <1>1, <1>2, <1>3, EndKeepsInv, Zenon

\* What a call leaves true of the ladder, where it is not walked on without a
\* failure that is retried.
LEMMA CallKeepsLadder ==
    ASSUME AcquisitionInv, NEW bill \in Money, NEW artifacts,
           NEW end \in {"found"} \cup Retryable \cup Final,
           artifacts \in SUBSET Range(Providers), Call(bill, end, artifacts),
           phase' = "done" \/ (phase' = "walking" /\ end \in Retryable /\ pos' = pos + 1)
    PROVE  /\ LadderHolds' /\ AnswerHolds'
           /\ \A i \in DOMAIN calls' : calls'[i].artifacts \subseteq artifacts
           /\ \E i \in DOMAIN calls' : calls'[i].artifacts = artifacts
  <1>1. PICK n : n = Len(calls)
    OBVIOUS
  <1>2. /\ AcquisitionTypes' /\ n + 1 \in DOMAIN candidates /\ phase = "walking"
        /\ UNCHANGED <<need, matched, candidates, answer>>
    BY <1>1, CallIsOneMore DEF AcquisitionInv
  <1>3. PICK c \in CallRecords :
                /\ calls' = Append(calls, c)
                /\ c.provider = candidates[n + 1]
                /\ c.outcome = end /\ c.artifacts = artifacts
    BY <1>1, CallIsOneMore DEF AcquisitionInv
  <1>4. /\ n \in Nat /\ DOMAIN calls = 1..n /\ Len(calls') = n + 1 /\ DOMAIN calls' = 1..(n + 1)
        /\ \A i \in 1..n : calls'[i] = calls[i]
        /\ calls'[n + 1] = c
    BY <1>1, <1>3 DEF AcquisitionInv, AcquisitionTypes
  <1>5. \A i \in 1..n : /\ calls[i].provider = candidates[i]
                         /\ calls[i].outcome \in Retryable /\ calls[i].artifacts = {}
    BY <1>2, <1>4 DEF AcquisitionInv, LadderHolds, FindingsHold
  <1>6. \A i \in 1..(n + 1) : i = n + 1 \/ i \in 1..n
    BY <1>4
  <1>7. LadderHolds'
    <2>1. Sorted(candidates, matched)'
      BY <1>2 DEF AcquisitionInv, LadderHolds, Sorted
    <2>2. n + 1 <= Len(candidates)
      BY <1>2, <1>4 DEF AcquisitionInv, AcquisitionTypes
    <2>3. \A i \in DOMAIN calls' : calls'[i].provider = candidates[i]
      BY <1>3, <1>4, <1>5, <1>6
    <2>4. \A i \in DOMAIN calls' : i < n + 1 => calls'[i].outcome \in Retryable
      BY <1>4, <1>5, <1>6
    <2>5. phase' = "walking" =>
             /\ pos' = (n + 1) + 1
             /\ \A i \in DOMAIN calls' : calls'[i].outcome \in Retryable
      <3>1. pos = n + 1
        BY <1>1, <1>2 DEF AcquisitionInv, LadderHolds
      <3> QED  BY <1>3, <1>4, <1>5, <1>6, <3>1
    <2> QED  BY <1>2, <1>4, <2>1, <2>2, <2>3, <2>4, <2>5 DEF LadderHolds
  <1>8. AnswerHolds'
    BY DEF AnswerHolds
  <1>9. /\ \A i \in DOMAIN calls' : calls'[i].artifacts \subseteq artifacts
        /\ \E i \in DOMAIN calls' : calls'[i].artifacts = artifacts
    <2>1. n + 1 \in DOMAIN calls'
      BY <1>4
    <2> QED  BY <1>3, <1>4, <1>5, <1>6, <2>1
  <1> QED  BY <1>7, <1>8, <1>9

LEMMA CallFindsKeepsInv ==
    ASSUME AcquisitionInv, NEW bill \in Money, CallFinds(bill) PROVE AcquisitionInv'
  <1>1. PICK p : p = candidates[pos]
    OBVIOUS
  <1>2. PICK cost : cost = spent + bill
    OBVIOUS
  <1>3. /\ Call(bill, "found", {p})
        /\ Finish(Found({p}, cost), EvidenceRecord(p, TRUE, TRUE, cost))
    BY <1>1, <1>2, Zenon DEF CallFinds
  <1>4. {p} \in SUBSET Range(Providers)
    BY <1>1, <1>3 DEF Call, AcquisitionInv, AcquisitionTypes
  <1>5. /\ phase' = "done" /\ result' = Found({p}, cost)
        /\ row' = EvidenceRecord(p, TRUE, TRUE, cost)
    BY <1>3, Zenon DEF Finish
  <1>6. /\ result'.cost = cost /\ result'.artifacts = {p} /\ row'.cost = cost
        /\ row'.provider = p /\ row'.evidence_received = TRUE
    <2>1. result'.cost = cost /\ result'.artifacts = {p}
      BY <1>5, FoundIs, Zenon
    <2>2. row'.cost = cost /\ row'.provider = p /\ row'.evidence_received = TRUE
      BY <1>5, Zenon DEF EvidenceRecord
    <2> QED  BY <2>1, <2>2, Zenon
  <1>7. AcquisitionTypes' /\ RequestsHold' /\ Balanced'
    BY <1>3, <1>4, CallKeepsAccounts
  <1>8. /\ LadderHolds' /\ AnswerHolds'
        /\ \A i \in DOMAIN calls' : calls'[i].artifacts \subseteq {p}
        /\ \E i \in DOMAIN calls' : calls'[i].artifacts = {p}
    BY <1>3, <1>4, <1>5, CallKeepsLadder
  <1>9. spent' = cost
    BY <1>2, <1>3 DEF Call
  <1>10. FindingsHold'
    <2>1. phase' \notin {"asked", "walking"}
      BY <1>5
    <2>2. \A a \in {p} : \E i \in DOMAIN calls' : a \in calls'[i].artifacts
      BY <1>8, Zenon
    <2> QED  BY <1>6, <1>8, <1>9, <2>1, <2>2, Zenon DEF FindingsHold
  <1> QED  BY <1>7, <1>8, <1>10 DEF AcquisitionInv

LEMMA CallFailsKeepsInv ==
    ASSUME AcquisitionInv, NEW bill \in Money, NEW failure \in Retryable \cup Final,
           CallFails(bill, failure)
    PROVE  AcquisitionInv'
  <1>1. PICK cost : cost = spent + bill
    OBVIOUS
  <1>2. PICK artifacts : artifacts = {}
    OBVIOUS
  <1>3. Call(bill, failure, artifacts)
    BY <1>2, Zenon DEF CallFails
  <1>4. artifacts \in SUBSET Range(Providers) /\ failure \in {"found"} \cup Retryable \cup Final
    BY <1>2
  <1>5. AcquisitionTypes' /\ RequestsHold' /\ Balanced'
    BY <1>3, <1>4, CallKeepsAccounts
  <1>6. spent' = cost /\ phase = "walking"
    BY <1>1, <1>3 DEF Call
  <1>7. CASE failure \in Retryable
    <2>1. pos' = pos + 1 /\ UNCHANGED <<phase, result, row>>
      BY <1>7, Zenon DEF CallFails
    <2>2. /\ LadderHolds' /\ AnswerHolds'
          /\ \A i \in DOMAIN calls' : calls'[i].artifacts \subseteq artifacts
      BY <1>3, <1>4, <1>6, <1>7, <2>1, CallKeepsLadder
    <2>3. result.artifacts = {}
      BY <1>6 DEF AcquisitionInv, FindingsHold
    <2>4. FindingsHold'
      BY <1>2, <1>6, <2>1, <2>2, <2>3 DEF FindingsHold
    <2> QED  BY <1>5, <2>2, <2>4 DEF AcquisitionInv
  <1>8. CASE failure \notin Retryable
    <2>1. Finish(Failed(failure, cost), EvidenceRecord("", TRUE, FALSE, cost))
      BY <1>1, <1>8, Zenon DEF CallFails
    <2>2. /\ phase' = "done" /\ result'.cost = cost /\ row'.cost = cost
          /\ result'.artifacts = {} /\ row'.evidence_received = FALSE
      BY <2>1, EmptyEnd, Zenon
    <2>3. /\ LadderHolds' /\ AnswerHolds'
          /\ \A i \in DOMAIN calls' : calls'[i].artifacts \subseteq artifacts
      BY <1>3, <1>4, <2>2, CallKeepsLadder
    <2>4. FindingsHold'
      <3>1. phase' \notin {"asked", "walking"}
        BY <2>2
      <3>2. \A i \in DOMAIN calls' : calls'[i].artifacts \subseteq {}
        BY <1>2, <2>3
      <3> QED  BY <1>6, <2>2, <3>1, <3>2, Zenon DEF FindingsHold
    <2> QED  BY <1>5, <2>3, <2>4 DEF AcquisitionInv
  <1> QED  BY <1>7, <1>8

\* A receipt bears the bill of its call and what it found.
LEMMA ReceiptsAre ==
    /\ DOMAIN Receipts = DOMAIN calls
    /\ \A i \in DOMAIN calls : /\ Receipts[i].cost = calls[i].bill
                              /\ Receipts[i].artifact_id = calls[i].artifacts
  <1>1. PICK receipts : receipts = Receipts
    OBVIOUS
  <1>2. DOMAIN receipts = DOMAIN calls
    BY <1>1, Zenon DEF Receipts
  <1>3. ASSUME NEW i \in DOMAIN calls
        PROVE  receipts[i].cost = calls[i].bill /\ receipts[i].artifact_id = calls[i].artifacts
    <2>1. PICK found : found = (calls[i].outcome = "found")
      OBVIOUS
    <2>2. PICK r : r = [provider |-> calls[i].provider, cost |-> calls[i].bill,
                        ok |-> found, artifact_id |-> calls[i].artifacts]
      OBVIOUS
    <2>3. receipts[i] = r
      BY <1>1, <2>1, <2>2, Zenon DEF Receipts
    <2>4. r.cost = calls[i].bill /\ r.artifact_id = calls[i].artifacts
      BY <2>2, Zenon
    <2> QED  BY <2>3, <2>4, Zenon
  <1> QED  BY <1>1, <1>2, <1>3, Zenon

\* The costs of the receipts are summed one by one.
LEMMA TotalIsSpent ==
    ASSUME AcquisitionTypes, Balanced
    PROVE  TotalCost(Receipts) = spent
  <1>1. PICK n \in Nat : n = Len(calls) /\ DOMAIN calls = 1..n
    BY DEF AcquisitionTypes
  <1>2. PICK receipts : receipts = Receipts
    OBVIOUS
  <1>3. DOMAIN receipts = 1..n /\ \A k \in 1..n : receipts[k].cost = calls[k].bill
    BY <1>1, <1>2, ReceiptsAre
  <1>4. Len(receipts) = n
    BY <1>1, <1>3
  <1> DEFINE Step(f, k) == IF k = 0 THEN 0 ELSE f[k - 1] + receipts[k].cost
             Runs(f) == f = [k \in 0..n |-> Step(f, k)]
  <1>5. PICK sum \in [0..n -> Nat] : Adds(sum) /\ sum[n] = spent
    BY <1>1 DEF Balanced
  <1>6. \A k \in 0..n : sum[k] = Step(sum, k)
    BY <1>1, <1>3, <1>5 DEF Adds
  <1>7. Runs(sum)
    <2> HIDE DEF Step
    <2> QED  BY <1>5, <1>6
  <1>8. PICK total : total = CHOOSE f : Runs(f)
    OBVIOUS
  <1>9. Runs(total)
    <2> HIDE DEF Runs
    <2> QED  BY <1>7, <1>8
  <1>10. \A k \in 0..n : total[k] = Step(total, k)
    <2> HIDE DEF Step
    <2> QED  BY <1>9
  <1>11. \A k \in 0..n : total[k] = sum[k]
    <2> DEFINE Off == {k \in 0..n : total[k] # sum[k]}
    <2> SUFFICES ASSUME Off # {} PROVE FALSE
      OBVIOUS
    <2>1. Off \subseteq Nat
      OBVIOUS
    <2>2. PICK k \in Off : \A l \in Off : k <= l
      <3> HIDE DEF Off
      <3> QED  BY <2>1, LeastNumber
    <2>3. k \in 0..n /\ total[k] # sum[k]
      OBVIOUS
    <2>4. CASE k = 0
      BY <1>6, <1>10, <2>3, <2>4
    <2>5. CASE k # 0
      <3>1. k - 1 \in 0..n /\ ~(k <= k - 1)
        BY <2>3, <2>5
      <3>2. k - 1 \notin Off
        <4> HIDE DEF Off
        <4> QED  BY <2>2, <3>1
      <3>3. total[k - 1] = sum[k - 1]
        BY <3>1, <3>2
      <3> QED  BY <1>6, <1>10, <2>3, <2>5, <3>3
    <2> QED  BY <2>4, <2>5
  <1>12. TotalCost(receipts) = total[n]
    BY <1>4, <1>8, Zenon DEF TotalCost
  <1>13. n \in 0..n
    BY <1>1
  <1> QED  BY <1>2, <1>5, <1>11, <1>12, <1>13

LEMMA AggregateKeepsInv == ASSUME AcquisitionInv, Aggregate PROVE AcquisitionInv'
  <1>1. /\ phase = "done" /\ phase' = "answered"
        /\ UNCHANGED <<need, price, matched, candidates, spent, calls, result, row>>
    BY DEF Aggregate
  <1>2. AcquisitionTypes' /\ LadderHolds' /\ RequestsHold'
    BY <1>1 DEF AcquisitionInv, AcquisitionTypes, LadderHolds, Sorted, RequestsHold, HasPurpose
  <1>3. Balanced' /\ FindingsHold'
    BY <1>1 DEF AcquisitionInv, Balanced, Adds, FindingsHold
  <1>4. PICK total : total = TotalCost(Receipts)
    OBVIOUS
  <1>5. PICK gaps : gaps = ~result.ok
    OBVIOUS
  <1>6. answer' = [evidence_event_ids |-> result.artifacts, provider_receipts |-> Receipts,
                   unresolved_gaps |-> gaps, total_cost |-> total]
    BY <1>4, <1>5, Zenon DEF Aggregate
  <1>7. /\ answer'.evidence_event_ids = result.artifacts
        /\ answer'.provider_receipts = Receipts /\ answer'.total_cost = total
    BY <1>6, Zenon
  <1>8. total = spent
    BY <1>4, TotalIsSpent DEF AcquisitionInv
  <1>9. Receipts' = Receipts
    BY <1>1, Zenon DEF Receipts
  <1>10. AnswerHolds'
    BY <1>1, <1>7, <1>8, <1>9, Zenon DEF AnswerHolds
  <1> QED  BY <1>2, <1>3, <1>10 DEF AcquisitionInv

LEMMA WalkKeepsInv ==
    ASSUME AcquisitionInv, UNCHANGED <<need, walk>>, price' \in [Range(Providers) -> Money]
    PROVE  AcquisitionInv'
  <1>1. UNCHANGED <<need, phase, matched, candidates, pos, spent, calls, result, row, answer>>
    BY DEF walk
  <1>2. AcquisitionTypes' /\ LadderHolds' /\ RequestsHold'
    BY <1>1 DEF AcquisitionInv, AcquisitionTypes, LadderHolds, Sorted, RequestsHold, HasPurpose
  <1>3. Balanced' /\ FindingsHold'
    BY <1>1 DEF AcquisitionInv, Balanced, Adds, FindingsHold
  <1>4. AnswerHolds'
    BY <1>1, Zenon DEF AcquisitionInv, AnswerHolds, Receipts
  <1> QED  BY <1>2, <1>3, <1>4 DEF AcquisitionInv

THEOREM AcquisitionInvariant == AcquisitionSpec => []AcquisitionInv
  <1>1. ASSUME AcquisitionInv, [AcquisitionNext]_acquisitionVars
        PROVE  AcquisitionInv'
    <2>1. CASE Start
      BY <1>1, <2>1, StartKeepsInv
    <2>2. CASE GateStops \/ Exhausted
      BY <1>1, <2>2, StopKeepsInv
    <2>3. CASE Aggregate
      BY <1>1, <2>3, AggregateKeepsInv
    <2>4. CASE \E bill \in Money : CallFinds(bill)
      BY <1>1, <2>4, CallFindsKeepsInv
    <2>5. CASE \E bill \in Money : \E failure \in Retryable \cup Final : CallFails(bill, failure)
      BY <1>1, <2>5, CallFailsKeepsInv
    <2>6. CASE \E p \in Range(Providers) : Withdraw(p)
      BY <1>1, <2>6, WalkKeepsInv DEF Withdraw, AcquisitionInv, AcquisitionTypes
    <2>7. CASE \E p \in Range(Providers) : \E money \in Money : Reprice(p, money)
      <3>1. PICK p \in Range(Providers) : \E money \in Money : Reprice(p, money)
        BY <2>7
      <3>2. PICK money \in Money : Reprice(p, money)
        BY <3>1
      <3>3. price' \in [Range(Providers) -> Money] /\ UNCHANGED <<need, walk>>
        BY <1>1, <3>2 DEF Reprice, AcquisitionInv, AcquisitionTypes
      <3> QED  BY <1>1, <3>3, WalkKeepsInv
    <2>8. CASE UNCHANGED acquisitionVars
      <3>1. UNCHANGED <<need, walk>> /\ price' = price
        BY <2>8 DEF acquisitionVars, walk
      <3> QED  BY <1>1, <3>1, WalkKeepsInv DEF AcquisitionInv, AcquisitionTypes
    <2> QED  BY <1>1, <2>1, <2>2, <2>3, <2>4, <2>5, <2>6, <2>7, <2>8, Zenon DEF AcquisitionNext
  <1> QED  BY <1>1, InitAcquisitionInv, PTL DEF AcquisitionSpec

\* For every registry, need, price and failure: a provider sees no prohibited
\* field, a lookup of a person has a purpose, and no call was estimated above the
\* ceiling when it was made (gated_acquire, decide_acquire).
THEOREM AcquisitionRespectsTheNeed == AcquisitionSpec => []CallsRespectTheNeed
  <1>1. ASSUME AcquisitionInv PROVE CallsRespectTheNeed
    <2>1. ASSUME NEW i \in DOMAIN calls
          PROVE  /\ calls[i].request.fields \cap need.prohibited_fields = {}
                 /\ need.capability \in PiiCapabilities => calls[i].request.purpose # ""
                 /\ calls[i].estimate <= need.max_cost
      <3>1. /\ calls[i].request = ToEvidenceRequest(need)
            /\ calls[i].estimate <= need.max_cost /\ HasPurpose
        BY <1>1 DEF AcquisitionInv, RequestsHold
      <3>2. ToEvidenceRequest(need).fields = need.fields \ need.prohibited_fields
        BY Zenon DEF ToEvidenceRequest
      <3>3. calls[i].request.fields \cap need.prohibited_fields = {}
        BY <3>1, <3>2
      <3>4. need.capability \in PiiCapabilities => calls[i].request.purpose # ""
        BY <3>1, Zenon DEF HasPurpose
      <3> QED  BY <3>1, <3>3, <3>4, Zenon
    <2>2. need.max_cost = 0 /\ (\A i \in DOMAIN calls : calls[i].bill <= calls[i].estimate) =>
             spent = 0
      BY <1>1 DEF AcquisitionInv, RequestsHold
    <2> QED  BY <2>1, <2>2, Zenon DEF CallsRespectTheNeed
  <1> QED  BY <1>1, AcquisitionInvariant, PTL

\* For every registry and whatever prices do: who was cheaper at the match was
\* asked before, nobody is asked twice, and only a retried failure leads on (match,
\* the loop of gated_acquire).
THEOREM AcquisitionIsCheapestFirst == AcquisitionSpec => []CheapestFirst
  <1>1. ASSUME AcquisitionInv PROVE CheapestFirst
    <2> SUFFICES ASSUME NEW i \in DOMAIN calls
                 PROVE  /\ i < Len(calls) => calls[i].outcome \in Retryable
                        /\ \A q \in Range(candidates) :
                              matched[q] < matched[calls[i].provider] =>
                                  \E j \in 1..(i - 1) : calls[j].provider = q
                        /\ \A j \in 1..(i - 1) : calls[j].provider # calls[i].provider
      BY DEF CheapestFirst
    <2>1. PICK n \in Nat : n = Len(calls) /\ DOMAIN calls = 1..n
      BY <1>1 DEF AcquisitionInv, AcquisitionTypes
    <2>2. PICK m \in Nat : DOMAIN candidates = 1..m /\ n <= m
      BY <1>1, <2>1 DEF AcquisitionInv, AcquisitionTypes, LadderHolds
    <2>3. \A j \in 1..n : calls[j].provider = candidates[j]
      BY <1>1, <2>1 DEF AcquisitionInv, LadderHolds
    <2>4. \A k, l \in 1..m : k < l =>
             candidates[k] # candidates[l] /\ matched[candidates[k]] <= matched[candidates[l]]
      BY <1>1, <2>2 DEF AcquisitionInv, LadderHolds, Sorted
    <2>5. ASSUME NEW q \in Range(candidates), matched[q] < matched[calls[i].provider]
          PROVE  \E j \in 1..(i - 1) : calls[j].provider = q
      <3>1. PICK k \in 1..m : candidates[k] = q
        BY <2>2 DEF Range
      <3>2. i \in 1..m /\ matched[candidates[k]] \in Nat /\ matched[candidates[i]] \in Nat
        <4>1. i \in 1..m
          BY <2>1, <2>2
        <4>2. \A l \in 1..m : candidates[l] \in Range(Providers)
          BY <1>1, <2>2 DEF AcquisitionInv, AcquisitionTypes
        <4>3. \A p \in Range(Providers) : matched[p] \in Nat
          BY <1>1, MoneyAssumption DEF AcquisitionInv, AcquisitionTypes
        <4> QED  BY <3>1, <4>1, <4>2, <4>3
      <3>3. ~(i < k) /\ i # k
        BY <2>1, <2>3, <2>4, <2>5, <3>1, <3>2
      <3>4. k \in 1..(i - 1) /\ k \in 1..n
        BY <2>1, <3>1, <3>3
      <3> QED  BY <2>3, <3>1, <3>4
    <2>6. ASSUME NEW j \in 1..(i - 1)
          PROVE  calls[j].provider # calls[i].provider
      <3>1. j \in 1..m /\ i \in 1..m /\ j < i /\ j \in 1..n /\ i \in 1..n
        BY <2>1, <2>2
      <3> QED  BY <2>3, <2>4, <3>1
    <2>7. i < Len(calls) => calls[i].outcome \in Retryable
      BY <1>1 DEF AcquisitionInv, LadderHolds
    <2> QED  BY <2>5, <2>6, <2>7
  <1> QED  BY <1>1, AcquisitionInvariant, PTL

\* For every bill of every provider, failed ones included: result, ledger row and
\* receipts account for all that was spent, and name whose artifacts were returned
\* (gated_acquire, IntelligenceResult.from_artifacts).
THEOREM AcquisitionIsAccounted == AcquisitionSpec => []EverySpendIsAccounted
  <1>1. ASSUME AcquisitionInv PROVE EverySpendIsAccounted
    <2>1. ASSUME phase \in {"done", "answered"}
          PROVE  /\ result.cost = row.cost
                 /\ row.evidence_received = (result.artifacts # {})
                 /\ result.artifacts # {} => result.artifacts = {row.provider}
      <3>1. result.cost = spent /\ row.cost = spent
        BY <1>1, <2>1 DEF AcquisitionInv, FindingsHold
      <3>2. \/ row.evidence_received = TRUE /\ result.artifacts = {row.provider}
            \/ row.evidence_received = FALSE /\ result.artifacts = {}
        BY <1>1, <2>1, Zenon DEF AcquisitionInv, FindingsHold
      <3>3. CASE row.evidence_received = TRUE /\ result.artifacts = {row.provider}
        <4>1. {row.provider} # {}
          OBVIOUS
        <4> QED  BY <3>1, <3>3, <4>1, Zenon
      <3>4. CASE row.evidence_received = FALSE /\ result.artifacts = {}
        BY <3>1, <3>4, Zenon
      <3> QED  BY <3>2, <3>3, <3>4, Zenon
    <2>2. ASSUME phase = "answered"
          PROVE  /\ answer.total_cost = result.cost
                 /\ answer.evidence_event_ids =
                       UNION {answer.provider_receipts[i].artifact_id :
                                 i \in DOMAIN answer.provider_receipts}
      <3>1. /\ answer.total_cost = spent /\ answer.evidence_event_ids = result.artifacts
            /\ answer.provider_receipts = Receipts
        BY <1>1, <2>2, Zenon DEF AcquisitionInv, AnswerHolds
      <3>2. result.cost = spent
        BY <1>1, <2>2 DEF AcquisitionInv, FindingsHold
      <3>3. PICK receipts : receipts = Receipts /\ answer.provider_receipts = receipts
        BY <3>1
      <3>4. /\ DOMAIN receipts = DOMAIN calls
            /\ \A i \in DOMAIN calls : receipts[i].artifact_id = calls[i].artifacts
        BY <3>3, ReceiptsAre
      <3>5. result.artifacts = UNION {answer.provider_receipts[i].artifact_id :
                                        i \in DOMAIN answer.provider_receipts}
        <4>1. /\ \A i \in DOMAIN calls : calls[i].artifacts \subseteq result.artifacts
              /\ \A a \in result.artifacts : \E i \in DOMAIN calls : a \in calls[i].artifacts
          BY <1>1 DEF AcquisitionInv, FindingsHold
        <4> QED  BY <3>3, <3>4, <4>1
      <3> QED  BY <3>1, <3>2, <3>5, Zenon
    <2> QED  BY <2>1, <2>2, Zenon DEF EverySpendIsAccounted
  <1> QED  BY <1>1, AcquisitionInvariant, PTL
=============================================================================

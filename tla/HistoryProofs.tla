--------------------------- MODULE HistoryProofs ---------------------------
(***************************************************************************)
(* What the keepers and readers of a history guarantee: the causal order of *)
(* a list of events, the ledger of an investigation, and the evidence store *)
(* with the consumer of its feed, for every program, every length of       *)
(* history, whatever the queues alter or a death leaves on the file.       *)
(***************************************************************************)
EXTENDS Ledger, CausalOrder, EvidenceFeed, FiniteSetTheorems, TLAPS

-----------------------------------------------------------------------------
\* The ids that are in the result.
Output == {events[out[m]].id : m \in DOMAIN out}

\* What still keeps an id back: a parent of one of its events that is in the
\* history and not in the result.
Unsatisfied(c) ==
    {e \in (DOMAIN events) \X (Indices \ Output) :
        events[e[1]].id = c /\ e[2] \in events[e[1]].parents}

OrderTypeOK ==
    /\ events \in Seq(HistoryEvent)
    /\ indeg \in [Indices -> Nat]
    /\ ready \subseteq Indices
    /\ out \in Seq(DOMAIN events)
    /\ verdict \in {"running", "returned", "raised"}

\* The counters count what is unsatisfied; the heap holds what no counter keeps
\* back and is not yet in the result.
CountersCount ==
    \A c \in Indices :
        /\ indeg[c] = Cardinality(Unsatisfied(c))
        /\ indeg[c] = 0 <=> c \in ready \cup Output
        /\ ~(c \in ready /\ c \in Output)

\* The verdict is on the whole result.
VerdictIsOnAll ==
    verdict # "running" =>
        /\ ready = {}
        /\ verdict = "returned" <=> Len(out) = Len(events)

OrderIInv == OrderTypeOK /\ CountersCount /\ ParentsFirst /\ VerdictIsOnAll

-----------------------------------------------------------------------------
\* The indices of a history are a finite set, and so is what an id waits for.
LEMMA HistoryIsFinite ==
    ASSUME events \in Seq(HistoryEvent)
    PROVE  /\ IsFiniteSet(DOMAIN events) /\ IsFiniteSet(Indices)
           /\ \A S \in SUBSET ((DOMAIN events) \X Indices) : IsFiniteSet(S)
  <1>1. IsFiniteSet(DOMAIN events)
    <2>1. DOMAIN events = 1..Len(events) /\ Len(events) \in Nat
      OBVIOUS
    <2> QED  BY <2>1, FS_Interval
  <1>2. IsFiniteSet(Indices)
    <2>1. [k \in DOMAIN events |-> events[k].id] \in Surjection(DOMAIN events, Indices)
      BY DEF Surjection, Indices
    <2> QED  BY <1>1, <2>1, FS_Surjection
  <1>3. IsFiniteSet((DOMAIN events) \X Indices)
    BY <1>1, <1>2, FS_Product
  <1> QED  BY <1>1, <1>2, <1>3, FS_Subset

\* A set of naturals that is not empty has a least element, and a greatest one
\* when it is bounded.
LEMMA Least ==
    ASSUME NEW S, S \subseteq Nat, S # {}
    PROVE  \E n \in S : \A m \in S : n <= m
  <1>1. PICK n \in S : \A m \in S : <<m, n>> \notin OpToRel(<, Nat)
    BY WFMin, NatLessThanWellFounded, Zenon
  <1>2. \A m \in S : ~(m < n)
    BY <1>1, Zenon DEF OpToRel
  <1> QED  BY <1>2

LEMMA Greatest ==
    ASSUME NEW S, S \subseteq Nat, S # {}, NEW bound \in Nat, \A m \in S : m <= bound
    PROVE  \E n \in S : \A m \in S : m <= n
  <1> DEFINE Gaps == {bound - m : m \in S}
  <1>1. Gaps \subseteq Nat /\ Gaps # {}
    <2>1. \A m \in S : bound - m \in Nat
      OBVIOUS
    <2> QED  BY <2>1
  <1>2. PICK g \in Gaps : \A h \in Gaps : g <= h
    <2> HIDE DEF Gaps
    <2> QED  BY <1>1, Least
  <1>3. PICK n \in S : g = bound - n
    BY <1>2
  <1>4. ASSUME NEW m \in S
        PROVE  m <= n
    <2>1. bound - n <= bound - m
      BY <1>2, <1>3
    <2> QED  BY <2>1
  <1> QED  BY <1>4

\* by_id gives an event of the id.
LEMMA ByIdIsOfIt ==
    ASSUME events \in Seq(HistoryEvent), NEW i \in Indices
    PROVE  ById(i) \in DOMAIN events /\ events[ById(i)].id = i
  <1> DEFINE S == {k \in DOMAIN events : events[k].id = i}
  <1>1. /\ S # {} /\ S \subseteq Nat /\ Len(events) \in Nat
        /\ \A l \in S : l <= Len(events)
    BY DEF Indices
  <1>2. \E k \in S : \A l \in S : l <= k
    <2> HIDE DEF S
    <2> QED  BY <1>1, Greatest
  <1>3. \E k \in DOMAIN events :
           /\ events[k].id = i
           /\ \A l \in DOMAIN events : events[l].id = i => l =< k
    BY <1>2
  <1> QED  BY <1>3, Zenon DEF ById

-----------------------------------------------------------------------------
\* The first counts are of all the parents in the history.
LEMMA InitOrderIInv == OrderInit => OrderIInv
  <1> SUFFICES ASSUME OrderInit
               PROVE  OrderIInv
    OBVIOUS
  <1>1. events \in Seq(HistoryEvent)
    BY HistoryAssumption DEF OrderInit, BoundedSeq, SeqOf
  <1>2. out = << >> /\ Output = {} /\ verdict = "running"
    BY DEF OrderInit, Output
  <1>3. \A c \in Indices : Unmet(c) = Cardinality(Unsatisfied(c))
    <2>1. Indices \ Output = Indices
      BY <1>2
    <2> QED  BY <2>1 DEF Unmet, Unsatisfied
  <1>4. \A c \in Indices : IsFiniteSet(Unsatisfied(c))
    <2>1. \A c \in Indices : Unsatisfied(c) \in SUBSET ((DOMAIN events) \X Indices)
      BY DEF Unsatisfied
    <2> QED  BY <1>1, <2>1, HistoryIsFinite
  <1>5. indeg \in [Indices -> Nat] /\ ready \subseteq Indices
    BY <1>3, <1>4, FS_CardinalityType DEF OrderInit
  <1>6. OrderTypeOK
    BY <1>1, <1>2, <1>5 DEF OrderTypeOK
  <1>7. CountersCount
    BY <1>2, <1>3 DEF OrderInit, CountersCount
  <1>8. ParentsFirst /\ VerdictIsOnAll
    BY <1>2 DEF ParentsFirst, VerdictIsOnAll
  <1> QED  BY <1>6, <1>7, <1>8 DEF OrderIInv

\* Popping an id satisfies, for every other, its links to that id.
LEMMA PopSatisfies ==
    ASSUME OrderTypeOK, NEW i \in Indices \ Output, NEW c \in Indices, NEW Rest,
           Rest = {e \in Unsatisfied(c) : e[2] # i}
    PROVE  /\ Links(i, c) \in Nat
           /\ IsFiniteSet(Rest) /\ Cardinality(Rest) = Cardinality(Unsatisfied(c)) - Links(i, c)
  <1> DEFINE Linked == {k \in DOMAIN events : events[k].id = c /\ i \in events[k].parents}
             Pairs == {e \in Unsatisfied(c) : e[2] = i}
  <1>1. /\ IsFiniteSet(Unsatisfied(c)) /\ IsFiniteSet(Pairs) /\ IsFiniteSet(Rest)
        /\ IsFiniteSet(Linked)
    <2>1. Unsatisfied(c) \in SUBSET ((DOMAIN events) \X Indices)
      BY DEF Unsatisfied
    <2>2. Pairs \subseteq Unsatisfied(c) /\ Rest \subseteq Unsatisfied(c)
      OBVIOUS
    <2>3. Linked \subseteq DOMAIN events
      OBVIOUS
    <2> HIDE DEF Pairs, Linked
    <2> QED  BY <2>1, <2>2, <2>3, HistoryIsFinite, FS_Subset DEF OrderTypeOK
  <1>2. Cardinality(Pairs) = Cardinality(Linked)
    <2> DEFINE f == [k \in Linked |-> <<k, i>>]
    <2>1. f \in Bijection(Linked, Pairs)
      <3>1. \A k \in Linked : <<k, i>> \in Pairs
        BY DEF Unsatisfied
      <3>2. \A e \in Pairs : e = <<e[1], i>> /\ e[1] \in Linked
        BY DEF Unsatisfied
      <3> HIDE DEF Linked, Pairs
      <3>3. f \in [Linked -> Pairs] /\ \A k \in Linked : f[k] = <<k, i>>
        BY <3>1
      <3>4. \A k, l \in Linked : f[k] = f[l] => k = l
        BY <3>3
      <3>5. \A e \in Pairs : \E k \in Linked : f[k] = e
        BY <3>2, <3>3
      <3> HIDE DEF f
      <3> QED  BY <3>3, <3>4, <3>5 DEF Bijection, Injection, Surjection, IsInjective
    <2>2. ExistsBijection(Linked, Pairs)
      BY <2>1 DEF ExistsBijection
    <2> HIDE DEF Linked, Pairs
    <2> QED  BY <1>1, <2>2, FS_Bijection
  <1>3. /\ Unsatisfied(c) = Rest \cup Pairs /\ Rest \cap Pairs = {}
    OBVIOUS
  <1>4. Links(i, c) = Cardinality(Linked)
    BY DEF Links
  <1> HIDE DEF Linked, Pairs
  <1>5. /\ Cardinality(Unsatisfied(c)) = Cardinality(Rest) + Cardinality(Pairs)
    <2>1. Cardinality(Rest \cap Pairs) = 0
      BY <1>3, FS_EmptySet
    <2>2. Cardinality(Rest \cup Pairs)
            = Cardinality(Rest) + Cardinality(Pairs) - Cardinality(Rest \cap Pairs)
      BY <1>1, FS_Union
    <2>3. Cardinality(Rest) \in Nat /\ Cardinality(Pairs) \in Nat
      BY <1>1, FS_CardinalityType
    <2>4. Cardinality(Unsatisfied(c)) = Cardinality(Rest \cup Pairs)
      BY <1>3, Zenon
    <2> QED  BY <2>1, <2>2, <2>3, <2>4
  <1> QED  BY <1>1, <1>2, <1>4, <1>5, FS_CardinalityType

\* One turn of the loop: a lowest ready id goes into the result, and what it was
\* the last parent of becomes ready.
LEMMA PopKeepsOrderIInv ==
    ASSUME OrderIInv, NEW i, Pop(i)
    PROVE  OrderIInv'
  <1> USE DEF OrderIInv
  <1>1. /\ verdict = "running" /\ i \in ready /\ out' = Append(out, ById(i))
        /\ indeg' = [c \in Indices |-> indeg[c] - Links(i, c)]
        /\ ready' = (ready \ {i}) \cup {c \in Indices : indeg[c] > 0 /\ indeg'[c] = 0}
        /\ events' = events /\ verdict' = verdict
    BY DEF Pop, Popped
  <1>2. /\ i \in Indices /\ i \notin Output /\ indeg[i] = 0
        /\ ById(i) \in DOMAIN events /\ events[ById(i)].id = i
    BY <1>1, ByIdIsOfIt DEF OrderTypeOK, CountersCount
  <1>3. Indices' = Indices
    BY <1>1 DEF Indices
  <1>4. /\ out' \in Seq(DOMAIN events) /\ Len(out') = Len(out) + 1 /\ Len(out) \in Nat
        /\ DOMAIN out = 1..Len(out) /\ DOMAIN out' = 1..(Len(out) + 1)
        /\ out'[Len(out) + 1] = ById(i)
        /\ \A m \in DOMAIN out : out'[m] = out[m]
    BY <1>1, <1>2 DEF OrderTypeOK
  <1>5. Output' = Output \cup {i}
    <2>1. DOMAIN out' = DOMAIN out \cup {Len(out) + 1}
      BY <1>4
    <2>2. \A m \in DOMAIN out : events[out'[m]].id = events[out[m]].id
      BY <1>4
    <2>3. events[out'[Len(out) + 1]].id = i
      BY <1>2, <1>4
    <2> QED  BY <1>1, <2>1, <2>2, <2>3 DEF Output
  <1>6. \A c \in Indices :
           /\ Links(i, c) \in Nat /\ indeg'[c] = indeg[c] - Links(i, c)
           /\ IsFiniteSet(Unsatisfied(c)')
           /\ Cardinality(Unsatisfied(c)') = Cardinality(Unsatisfied(c)) - Links(i, c)
    <2> SUFFICES ASSUME NEW c \in Indices
                 PROVE  /\ Links(i, c) \in Nat /\ indeg'[c] = indeg[c] - Links(i, c)
                        /\ IsFiniteSet(Unsatisfied(c)')
                        /\ Cardinality(Unsatisfied(c)') = Cardinality(Unsatisfied(c)) - Links(i, c)
      OBVIOUS
    <2>1. PICK Rest : Rest = {e \in Unsatisfied(c) : e[2] # i}
      OBVIOUS
    <2>2. Unsatisfied(c)' = Rest
      BY <1>1, <1>3, <1>5, <2>1 DEF Unsatisfied
    <2> QED  BY <1>1, <1>2, <2>1, <2>2, PopSatisfies
  <1>7. \A c \in Indices : /\ indeg'[c] \in Nat /\ indeg[c] \in Nat /\ indeg'[c] <= indeg[c]
                            /\ indeg'[c] = Cardinality(Unsatisfied(c)')
    BY <1>6, FS_CardinalityType DEF CountersCount, OrderTypeOK
  <1>8. OrderTypeOK'
    <2>1. indeg' \in [Indices -> Nat]
      BY <1>1, <1>7
    <2>2. ready' \subseteq Indices
      BY <1>1 DEF OrderTypeOK
    <2> QED  BY <1>1, <1>3, <1>4, <2>1, <2>2 DEF OrderTypeOK
  <1>9. CountersCount'
    <2> SUFFICES ASSUME NEW c \in Indices
                 PROVE  /\ indeg'[c] = 0 <=> c \in ready' \cup Output'
                        /\ ~(c \in ready' /\ c \in Output')
      BY <1>3, <1>7 DEF CountersCount
    <2>1. CASE c = i
      <3>1. indeg'[i] = 0
        BY <1>2, <1>7
      <3> QED  BY <1>1, <1>2, <1>5, <2>1, <3>1
    <2>2. CASE c # i /\ indeg[c] = 0
      <3>1. indeg'[c] = 0
        BY <1>7, <2>2
      <3> QED  BY <1>1, <1>5, <2>2, <3>1 DEF CountersCount
    <2>3. CASE c # i /\ indeg[c] # 0
      <3>1. indeg[c] > 0 /\ c \notin ready /\ c \notin Output
        BY <1>7, <2>3 DEF CountersCount
      <3> QED  BY <1>1, <1>5, <2>3, <3>1
    <2> QED  BY <2>1, <2>2, <2>3
  <1>10. ParentsFirst'
    <2> SUFFICES ASSUME NEW n \in DOMAIN out'
                 PROVE  (/\ \A p \in events[out[n]].parents \cap Indices :
                               \E m \in 1..(n - 1) : events[out[m]].id = p
                         /\ \A m \in 1..(n - 1) : out[m] # out[n])'
      BY Zenon DEF ParentsFirst
    <2>0. events' = events /\ Indices' = Indices
      BY <1>1, <1>3
    <2>1. CASE n \in DOMAIN out
      <3>1. \A m \in 1..(n - 1) : out'[m] = out[m]
        BY <1>4, <2>1
      <3>2. out'[n] = out[n]
        BY <1>4, <2>1
      <3> QED  BY <2>0, <2>1, <3>1, <3>2 DEF ParentsFirst
    <2>2. CASE n = Len(out) + 1
      <3>1. 1..(n - 1) = DOMAIN out /\ out'[n] = ById(i)
        BY <1>4, <2>2
      <3>2. Unsatisfied(i) = {}
        <4>1. IsFiniteSet(Unsatisfied(i)) /\ Cardinality(Unsatisfied(i)) = 0
          <5>1. Unsatisfied(i) \in SUBSET ((DOMAIN events) \X Indices)
            BY DEF Unsatisfied
          <5> QED  BY <1>2, <5>1, HistoryIsFinite DEF CountersCount, OrderTypeOK
        <4> QED  BY <4>1, FS_EmptySet
      <3>3. ASSUME NEW p \in events[ById(i)].parents \cap Indices
            PROVE  p \in Output
        <4>1. p \notin Output => <<ById(i), p>> \in Unsatisfied(i)
          BY <1>2 DEF Unsatisfied
        <4> QED  BY <3>2, <4>1
      <3>4. \A m \in DOMAIN out : out'[m] = out[m] /\ out[m] # ById(i)
        BY <1>2, <1>4 DEF Output
      <3>5. ASSUME NEW p \in events[out'[n]].parents \cap Indices
            PROVE  \E m \in 1..(n - 1) : events[out'[m]].id = p
        <4>1. PICK m \in DOMAIN out : p = events[out[m]].id
          BY <3>1, <3>3 DEF Output
        <4> QED  BY <3>1, <3>4, <4>1
      <3>6. \A m \in 1..(n - 1) : out'[m] # out'[n]
        BY <3>1, <3>4
      <3> QED  BY <2>0, <3>5, <3>6
    <2> QED  BY <1>4, <2>1, <2>2
  <1>11. VerdictIsOnAll'
    BY <1>1 DEF VerdictIsOnAll
  <1> QED  BY <1>8, <1>9, <1>10, <1>11

LEMMA FinishKeepsOrderIInv ==
    ASSUME OrderIInv, Finish
    PROVE  OrderIInv'
  <1> USE DEF OrderIInv
  <1>1. /\ ready = {} /\ UNCHANGED <<events, indeg, ready, out>>
        /\ verdict' = IF Len(out) = Len(events) THEN "returned" ELSE "raised"
    BY DEF Finish
  <1>2. VerdictIsOnAll'
    BY <1>1 DEF VerdictIsOnAll
  <1>3. Indices' = Indices /\ Output' = Output
    BY <1>1 DEF Indices, Output
  <1>6. OrderTypeOK'
    BY <1>1, <1>3 DEF OrderTypeOK
  <1>4. CountersCount'
    BY <1>1, <1>3 DEF CountersCount, Unsatisfied
  <1>5. ParentsFirst'
    BY <1>1, <1>3 DEF ParentsFirst
  <1> QED  BY <1>2, <1>4, <1>5, <1>6

THEOREM OrderSpecIInv == OrderSpec => []OrderIInv
  <1>1. OrderIInv /\ [OrderNext]_orderVars => OrderIInv'
    <2> SUFFICES ASSUME OrderIInv, [OrderNext]_orderVars
                 PROVE  OrderIInv'
      OBVIOUS
    <2>1. CASE UNCHANGED orderVars
      <3>1. UNCHANGED <<events, indeg, ready, out, verdict>>
        BY <2>1 DEF orderVars
      <3>2. Indices' = Indices /\ Output' = Output
        BY <3>1 DEF Indices, Output
      <3>3. OrderTypeOK' /\ VerdictIsOnAll'
        BY <3>1, <3>2 DEF OrderIInv, OrderTypeOK, VerdictIsOnAll
      <3>4. CountersCount'
        BY <3>1, <3>2 DEF OrderIInv, CountersCount, Unsatisfied
      <3>5. ParentsFirst'
        BY <3>1, <3>2 DEF OrderIInv, ParentsFirst
      <3> QED  BY <3>3, <3>4, <3>5 DEF OrderIInv
    <2> QED  BY <2>1, PopKeepsOrderIInv, FinishKeepsOrderIInv DEF OrderNext
  <1> QED  BY <1>1, InitOrderIInv, PTL DEF OrderSpec

\* The result is no longer than the history, and as long only when every event
\* is in it.
LEMMA OutIsInjective ==
    ASSUME OrderIInv
    PROVE  /\ \A n, m \in DOMAIN out : out[n] = out[m] => n = m
           /\ Len(out) = Len(events)
                <=> \A k \in DOMAIN events : \E n \in DOMAIN out : out[n] = k
  <1>1. /\ out \in [DOMAIN out -> DOMAIN events]
        /\ DOMAIN out = 1..Len(out) /\ DOMAIN events = 1..Len(events)
        /\ Len(out) \in Nat /\ Len(events) \in Nat
    BY DEF OrderIInv, OrderTypeOK
  <1>2. \A n, m \in DOMAIN out : m < n => out[m] # out[n]
    BY <1>1 DEF OrderIInv, ParentsFirst
  <1>3. \A n, m \in DOMAIN out : out[n] = out[m] => n = m
    BY <1>1, <1>2
  <1>4. out \in Injection(DOMAIN out, DOMAIN events)
    BY <1>1, <1>3 DEF Injection, IsInjective
  <1>5. /\ IsFiniteSet(DOMAIN events)
        /\ Cardinality(DOMAIN events) = Len(events)
        /\ Cardinality(DOMAIN out) = Len(out)
    <2>1. \A n \in Nat : IsFiniteSet(1..n) /\ Cardinality(1..n) = n
      <3>1. ASSUME NEW n \in Nat  PROVE  IsFiniteSet(1..n) /\ Cardinality(1..n) = n
        BY FS_Interval
      <3> QED  BY <3>1
    <2> QED  BY <1>1, <2>1
  <1>6. Cardinality(DOMAIN out) = Cardinality(DOMAIN events)
          <=> out \in Surjection(DOMAIN out, DOMAIN events)
    BY <1>4, <1>5, FS_Injection
  <1>7. out \in Surjection(DOMAIN out, DOMAIN events)
          <=> \A k \in DOMAIN events : \E n \in DOMAIN out : out[n] = k
    BY <1>1 DEF Surjection
  <1> QED  BY <1>3, <1>5, <1>6, <1>7

\* Nothing is output before one of its parents, and nothing twice, for any
\* history (causal_order, causal_order_events).
THEOREM OrderSpecParentsFirst == OrderSpec => []ParentsFirst
  <1>1. OrderIInv => ParentsFirst
    BY DEF OrderIInv
  <1> QED  BY <1>1, OrderSpecIInv, PTL

\* The place of an event in a whole result is an arrangement that respects the
\* parents.
LEMMA ReturnedIsLinear ==
    ASSUME OrderIInv, DistinctIds, verdict = "returned"
    PROVE  Linearizable /\ ToSet(out) = DOMAIN events
  <1>1. /\ \A n, m \in DOMAIN out : out[n] = out[m] => n = m
        /\ \A k \in DOMAIN events : \E n \in DOMAIN out : out[n] = k
    <2>1. Len(out) = Len(events)
      BY DEF OrderIInv, VerdictIsOnAll
    <2> QED  BY <2>1, OutIsInjective
  <1>2. /\ out \in [DOMAIN out -> DOMAIN events] /\ DOMAIN out = DOMAIN events
        /\ DOMAIN out = 1..Len(out) /\ Len(out) \in Nat
    <2>1. Len(out) = Len(events)
      BY DEF OrderIInv, VerdictIsOnAll
    <2> QED  BY <2>1 DEF OrderIInv, OrderTypeOK
  <1>3. PICK place : place = [k \in DOMAIN events |-> CHOOSE n \in DOMAIN out : out[n] = k]
    OBVIOUS
  <1>4. \A k \in DOMAIN events : place[k] \in DOMAIN out /\ out[place[k]] = k
    BY <1>1, <1>3
  <1>5. place \in [DOMAIN events -> DOMAIN events]
    BY <1>2, <1>3, <1>4
  <1>6. \A k, l \in DOMAIN events : place[k] = place[l] => k = l
    BY <1>4
  <1>7. ASSUME NEW k \in DOMAIN events, NEW l \in DOMAIN events, Precedes(k, l)
        PROVE  place[k] < place[l]
    <2>1. events[k].id \in events[out[place[l]]].parents \cap Indices
      BY <1>4, <1>7 DEF Precedes, Indices
    <2>2. PICK m \in 1..(place[l] - 1) : events[out[m]].id = events[k].id
      BY <1>4, <2>1 DEF OrderIInv, ParentsFirst
    <2>3. m \in DOMAIN out /\ m < place[l] /\ place[l] \in Nat
      BY <1>2, <1>4, <2>2
    <2>4. out[m] = k
      BY <1>2, <2>2, <2>3 DEF DistinctIds
    <2>5. place[k] = m
      BY <1>1, <1>4, <2>3, <2>4
    <2> QED  BY <2>3, <2>5
  <1>8. Linearizable
    BY <1>5, <1>6, <1>7, Zenon DEF Linearizable
  <1>9. ToSet(out) = DOMAIN events
    BY <1>1, <1>2 DEF ToSet
  <1> QED  BY <1>8, <1>9

\* When something is left over, the least of it in an arrangement would have
\* nothing to wait for.
LEMMA RaisedIsCyclic ==
    ASSUME OrderIInv, DistinctIds, verdict = "raised"
    PROVE  ~Linearizable
  <1> SUFFICES ASSUME NEW f \in [DOMAIN events -> DOMAIN events],
                      \A k, l \in DOMAIN events : Precedes(k, l) => f[k] < f[l]
               PROVE  FALSE
    BY DEF Linearizable
  <1> DEFINE Left == {k \in DOMAIN events : events[k].id \notin Output}
             Places == {f[k] : k \in Left}
  <1>1. DOMAIN events \subseteq Nat /\ ready = {} /\ Len(out) # Len(events)
    BY DEF OrderIInv, OrderTypeOK, VerdictIsOnAll
  <1>2. Left # {}
    <2>1. PICK k \in DOMAIN events : \A n \in DOMAIN out : out[n] # k
      BY <1>1, OutIsInjective
    <2>2. \A n \in DOMAIN out : out[n] \in DOMAIN events
      BY DEF OrderIInv, OrderTypeOK
    <2>3. events[k].id \notin Output
      BY <2>1, <2>2 DEF Output, DistinctIds
    <2> QED  BY <2>3
  <1>3. PICK k \in Left : \A l \in Left : f[k] <= f[l]
    <2>1. Places \subseteq Nat /\ Places # {}
      BY <1>1, <1>2
    <2>2. \E n \in Places : \A m \in Places : n <= m
      <3> HIDE DEF Places
      <3> QED  BY <2>1, Least
    <2> QED  BY <2>2
  <1>4. PICK e \in Unsatisfied(events[k].id) : TRUE
    <2>1. events[k].id \in Indices /\ events[k].id \notin ready \cup Output
      BY <1>1 DEF Indices
    <2>2. Cardinality(Unsatisfied(events[k].id)) # 0
      BY <2>1 DEF OrderIInv, CountersCount
    <2>3. Unsatisfied(events[k].id) # {}
      BY <2>2, FS_EmptySet
    <2> QED  BY <2>3
  <1>5. /\ e[1] \in DOMAIN events /\ events[e[1]].id = events[k].id
        /\ e[2] \in Indices \ Output /\ e[2] \in events[e[1]].parents
    BY <1>4 DEF Unsatisfied
  <1>6. e[1] = k
    BY <1>5 DEF DistinctIds
  <1>7. PICK l \in DOMAIN events : events[l].id = e[2]
    BY <1>5 DEF Indices
  <1>8. l \in Left /\ f[l] < f[k]
    BY <1>5, <1>6, <1>7 DEF Precedes
  <1>9. f[k] <= f[l] /\ f[k] \in Nat /\ f[l] \in Nat
    BY <1>1, <1>3, <1>8
  <1> QED  BY <1>8, <1>9

\* Over histories whose ids are distinct the call returns exactly when an
\* arrangement exists, and then returns every event; it raises only on a cycle
\* (causal_order, causal_order_events).
THEOREM OrderSpecRaisesOnlyOnCycle == OrderSpec => []RaisesOnlyOnCycle
  <1>1. OrderIInv => RaisesOnlyOnCycle
    BY ReturnedIsLinear, RaisedIsCyclic DEF RaisesOnlyOnCycle
  <1> QED  BY <1>1, OrderSpecIInv, PTL

-----------------------------------------------------------------------------
\* A permitted event follows one declared transition: it does not leave a
\* terminal state, and its outcome is the one the transition declares.
LEMMA PermittedFollowsTransition ==
    ASSUME NEW e, PermittedBy(e, Program)
    PROVE  /\ e.from_state \in Program.states \ Program.terminal
           /\ e.to_state \in Program.terminal => e.terminal_outcome \in DOMAIN Program.outcomes
           /\ \E t \in Program.transitions :
                 /\ e.transition_id = t.transition_id
                 /\ e.terminal_outcome = t.outcome
  <1>1. PICK t \in Permits(Program, e.from_state, e.to_state, e.transition_id) :
           /\ e.to_state \in Program.terminal <=> e.terminal_outcome # None
           /\ e.terminal_outcome # None => t.outcome = e.terminal_outcome
    BY DEF PermittedBy
  <1>2. /\ t \in Program.transitions
        /\ e.from_state \in t.from_states
        /\ t.to_state = e.to_state
        /\ t.transition_id = e.transition_id
    BY DEF Permits
  <1>3. TransitionFits(Program, t)
    BY <1>2, ProgramAssumption DEF WellFormed
  <1>4. e.from_state \in Program.states \ Program.terminal
    BY <1>2, <1>3 DEF TransitionFits
  <1>5. e.terminal_outcome = t.outcome
    <2>1. CASE e.terminal_outcome # None
      BY <1>1, <2>1
    <2>2. CASE e.terminal_outcome = None
      BY <1>1, <1>2, <1>3, <2>2 DEF TransitionFits
    <2> QED  BY <2>1, <2>2
  <1>6. e.to_state \in Program.terminal => e.terminal_outcome \in DOMAIN Program.outcomes
    BY <1>1, <1>3, <1>5 DEF TransitionFits
  <1> QED  BY <1>2, <1>4, <1>5, <1>6

-----------------------------------------------------------------------------
\* Everything that can arrive under an id.
Bodies == Event \cup UNION {Altered(e) : e \in Event}

Entry == [event_id : 1..MaxEvents, event : Bodies]

\* The inductive invariant: the types, unique ids, and every stored event passed
\* permitted_by; StoredIsPermitted is a consequence of the last.
IInv ==
    /\ TypeOK
    /\ Len(emitted) =< MaxEvents
    /\ stored \in Seq(Entry)
    /\ OneBodyPerId
    /\ \A i \in DOMAIN stored : PermittedBy(stored[i].event, Program)

\* An arrival of an emitted event, or of an altered copy, keeps the invariant:
\* submit accepts only an unknown id with a permitted body.
LEMMA ArriveKeepsIInv ==
    ASSUME IInv, NEW id \in DOMAIN emitted,
           NEW e \in {emitted[id]} \cup Altered(emitted[id]), Arrive(e, id)
    PROVE  IInv'
  <1> DEFINE entry == [event_id |-> id, event |-> e]
  <1>1. /\ stored \in Seq(Entry) /\ TypeOK /\ OneBodyPerId /\ Len(emitted) =< MaxEvents
        /\ emitted \in Seq(Event)
        /\ \A i \in DOMAIN stored : PermittedBy(stored[i].event, Program)
    BY DEF IInv, TypeOK
  <1>2. entry \in Entry
    <2>1. id \in 1..MaxEvents /\ emitted[id] \in Event
      BY <1>1, MaxEventsAssumption
    <2>2. e \in Bodies
      BY <2>1 DEF Bodies
    <2> QED  BY <2>1, <2>2 DEF Entry
  <1>3. outcome' \in SubmissionOutcome /\ emitted' = emitted
    BY DEF Arrive, Submit, SubmissionOutcome
  <1>4. CASE stored' = stored
    BY <1>1, <1>3, <1>4 DEF IInv, TypeOK, OneBodyPerId
  <1>5. CASE stored' # stored
    <2>1. stored' = Append(stored, entry) /\ Submit(e, id) = "ACCEPTED"
      BY <1>5 DEF Arrive
    <2>2. /\ \A i \in DOMAIN stored : stored[i].event_id # id
          /\ PermittedBy(e, Program)
      BY <2>1 DEF Submit, ToSet
    <2> HIDE DEF entry
    <2>3. /\ stored' \in Seq(Entry)
          /\ DOMAIN stored' = 1..(Len(stored) + 1)
          /\ \A i \in DOMAIN stored : stored'[i] = stored[i]
          /\ stored'[Len(stored) + 1] = entry
          /\ DOMAIN stored = 1..Len(stored)
          /\ Len(stored) \in Nat
      BY <1>1, <1>2, <2>1
    <2>4. entry.event_id = id /\ entry.event = e
      BY DEF entry
    <2>5. \A i \in DOMAIN stored' : i \in DOMAIN stored \/ i = Len(stored) + 1
      BY <2>3
    <2>6. TypeOK'
      BY <1>1, <1>3, <2>3, <2>4, <2>5 DEF TypeOK
    <2>7. OneBodyPerId'
      BY <1>1, <2>2, <2>3, <2>4, <2>5 DEF OneBodyPerId
    <2>8. \A i \in DOMAIN stored' : PermittedBy(stored'[i].event, Program)
      BY <1>1, <2>2, <2>3, <2>4, <2>5
    <2> QED  BY <1>1, <1>3, <2>3, <2>6, <2>7, <2>8 DEF IInv
  <1> QED  BY <1>4, <1>5

LEMMA InitIInv == Init => IInv
  <1> SUFFICES ASSUME Init  PROVE IInv
    OBVIOUS
  <1>1. \A S : << >> \in Seq(S)
    OBVIOUS
  <1> QED  BY <1>1, MaxEventsAssumption
           DEF Init, IInv, TypeOK, OneBodyPerId, SubmissionOutcome

\* A move of the runtime emits a well-typed event and leaves the ledger alone.
LEMMA AdvanceKeepsIInv ==
    ASSUME IInv, NEW t \in Program.transitions, Advance(t)
    PROVE  IInv'
  <1> DEFINE e == [transition_id |-> t.transition_id, from_state |-> CurrentState,
                   to_state |-> t.to_state, terminal_outcome |-> t.outcome,
                   sequence |-> Len(emitted), program_hash |-> Program.content_hash,
                   ownership |-> Handover(t.transition_id), leaks |-> FALSE]
  <1>1. emitted \in Seq(Event) /\ TypeOK
    BY DEF IInv, TypeOK
  <1>2. /\ CurrentState \in Program.states
        /\ t.to_state \in Program.states
        /\ t.outcome \in DOMAIN Program.outcomes \cup {None}
    BY ProgramAssumption DEF WellFormed, TransitionFits, Advance
  <1>3. e \in Event
    BY <1>1, <1>2 DEF Event
  <1>4. emitted' = Append(emitted, e) /\ Len(emitted) < MaxEvents
        /\ UNCHANGED <<stored, outcome>>
    BY DEF Advance
  <1> HIDE DEF e
  <1>5. /\ emitted' \in Seq(Event)
        /\ Len(emitted') = Len(emitted) + 1
        /\ \A i \in DOMAIN emitted : i \in DOMAIN emitted' /\ emitted'[i] = emitted[i]
    BY <1>1, <1>3, <1>4
  <1>6. TypeOK'
    BY <1>1, <1>4, <1>5 DEF TypeOK
  <1>7. Len(emitted') =< MaxEvents
    BY <1>1, <1>4, <1>5, MaxEventsAssumption
  <1> QED  BY <1>4, <1>6, <1>7 DEF IInv, OneBodyPerId

LEMMA NextIInv == IInv /\ [Next]_vars => IInv'
  <1> SUFFICES ASSUME IInv, [Next]_vars  PROVE IInv'
    OBVIOUS
  <1>1. ASSUME NEW t \in Program.transitions, Advance(t)  PROVE IInv'
    BY <1>1, AdvanceKeepsIInv
  <1>2. ASSUME NEW i \in 1..MaxEvents, Deliver(i)  PROVE IInv'
    BY <1>2, ArriveKeepsIInv DEF Deliver
  <1>3. ASSUME NEW i \in 1..MaxEvents, DeliverAltered(i)  PROVE IInv'
    BY <1>3, ArriveKeepsIInv DEF DeliverAltered
  <1>4. CASE UNCHANGED vars
    BY <1>4 DEF vars, IInv, TypeOK, OneBodyPerId
  <1> QED  BY <1>1, <1>2, <1>3, <1>4 DEF Next

THEOREM InvariantHolds == Spec => []IInv
  BY InitIInv, NextIInv, PTL DEF Spec

\* The type invariant of the ledger.
THEOREM TypeCorrect == Spec => []TypeOK
  BY InvariantHolds, PTL DEF IInv

\* A redelivery never rewrites history: an id is stored once, with one body.
THEOREM HistoryIsNotRewritten == Spec => []OneBodyPerId
  BY InvariantHolds, PTL DEF IInv

\* Nothing the pinned program does not permit enters the ledger.
THEOREM OnlyPermittedIsStored == Spec => []StoredIsPermitted
  <1>1. IInv => StoredIsPermitted
    BY PermittedFollowsTransition DEF IInv, StoredIsPermitted
  <1> QED  BY <1>1, InvariantHolds, PTL

\* What the runtime emits is one life of the program: consecutive numbers, and
\* each event leaves the state the one before it entered.
EmittedIsALife ==
    \A i \in DOMAIN emitted :
        /\ emitted[i].sequence = i - 1
        /\ PermittedBy(emitted[i], Program)
        /\ emitted[i].from_state = IF i = 1 THEN Program.initial_state
                                   ELSE emitted[i - 1].to_state

StoredIsNumbered == \A i \in DOMAIN stored : stored[i].event.sequence \in Nat

LifeInv == IInv /\ EmittedIsALife /\ StoredIsNumbered

\* A move emits the next event of the life.
LEMMA AdvanceKeepsLife ==
    ASSUME LifeInv, NEW t \in Program.transitions, Advance(t)
    PROVE  EmittedIsALife' /\ StoredIsNumbered'
  <1> DEFINE e == [transition_id |-> t.transition_id, from_state |-> CurrentState,
                   to_state |-> t.to_state, terminal_outcome |-> t.outcome,
                   sequence |-> Len(emitted), program_hash |-> Program.content_hash,
                   ownership |-> Handover(t.transition_id), leaks |-> FALSE]
  <1>1. /\ emitted' = Append(emitted, e) /\ stored' = stored
        /\ CurrentState \in t.from_states
    BY DEF Advance
  <1>2. PermittedBy(e, Program)
    <2>1. t \in Permits(Program, e.from_state, e.to_state, e.transition_id)
      BY <1>1 DEF Permits
    <2>2. TransitionFits(Program, t)
      BY ProgramAssumption DEF WellFormed
    <2> QED  BY <2>1, <2>2 DEF PermittedBy, TransitionFits
  <1>3. /\ e.sequence = Len(emitted)
        /\ e.from_state = IF emitted = << >> THEN Program.initial_state
                          ELSE emitted[Len(emitted)].to_state
    BY DEF CurrentState, Last
  <1> HIDE DEF e
  <1>4. /\ DOMAIN emitted = 1..Len(emitted) /\ Len(emitted) \in Nat
        /\ DOMAIN emitted' = 1..(Len(emitted) + 1)
        /\ emitted'[Len(emitted) + 1] = e
        /\ \A i \in DOMAIN emitted : emitted'[i] = emitted[i]
        /\ emitted = << >> <=> Len(emitted) = 0
    BY <1>1 DEF LifeInv, IInv, TypeOK
  <1>5. ASSUME NEW i \in DOMAIN emitted'
        PROVE  /\ emitted'[i].sequence = i - 1
               /\ PermittedBy(emitted'[i], Program)
               /\ emitted'[i].from_state = IF i = 1 THEN Program.initial_state
                                           ELSE emitted'[i - 1].to_state
    <2>1. CASE i \in DOMAIN emitted
      <3>1. i # 1 => i - 1 \in DOMAIN emitted
        BY <1>4, <2>1
      <3> QED  BY <1>4, <2>1, <3>1 DEF LifeInv, EmittedIsALife
    <2>2. CASE i = Len(emitted) + 1
      <3>1. i # 1 => i - 1 \in DOMAIN emitted /\ i - 1 = Len(emitted)
        BY <1>4, <2>2
      <3>2. i - 1 = Len(emitted) /\ (i = 1 <=> emitted = << >>)
        BY <1>4, <2>2
      <3> QED  BY <1>2, <1>3, <1>4, <2>2, <3>1, <3>2
    <2> QED  BY <1>4, <2>1, <2>2
  <1>6. EmittedIsALife'
    BY <1>5, Zenon DEF EmittedIsALife, PermittedBy
  <1>7. StoredIsNumbered'
    BY <1>1 DEF LifeInv, StoredIsNumbered
  <1> QED  BY <1>6, <1>7

\* What arrives is numbered: an emitted event is, an altered one was constructed.
LEMMA ArriveKeepsLife ==
    ASSUME LifeInv, NEW id \in DOMAIN emitted, NEW e, e.sequence \in Nat, Arrive(e, id)
    PROVE  EmittedIsALife' /\ StoredIsNumbered'
  <1>1. emitted' = emitted
    BY DEF Arrive
  <1>2. EmittedIsALife'
    BY <1>1 DEF LifeInv, EmittedIsALife
  <1>3. stored \in Seq(Entry)
    BY DEF LifeInv, IInv
  <1>4. CASE stored' = stored
    BY <1>2, <1>4 DEF LifeInv, StoredIsNumbered
  <1>5. CASE stored' = Append(stored, [event_id |-> id, event |-> e])
    <2>1. \A i \in DOMAIN stored' :
             \/ i \in DOMAIN stored /\ stored'[i] = stored[i]
             \/ stored'[i] = [event_id |-> id, event |-> e]
      BY <1>3, <1>5
    <2> QED  BY <1>2, <2>1 DEF LifeInv, StoredIsNumbered
  <1> QED  BY <1>4, <1>5 DEF Arrive

THEOREM LifeHolds == Spec => []LifeInv
  <1>1. Init => LifeInv
    BY InitIInv DEF Init, LifeInv, EmittedIsALife, StoredIsNumbered
  <1>2. LifeInv /\ [Next]_vars => LifeInv'
    <2> SUFFICES ASSUME LifeInv, [Next]_vars
                 PROVE  EmittedIsALife' /\ StoredIsNumbered'
      BY NextIInv DEF LifeInv
    <2>1. ASSUME NEW t \in Program.transitions, Advance(t)
          PROVE  EmittedIsALife' /\ StoredIsNumbered'
      BY <2>1, AdvanceKeepsLife
    <2>2. ASSUME NEW i \in 1..MaxEvents, Deliver(i)
          PROVE  EmittedIsALife' /\ StoredIsNumbered'
      <3>1. i \in DOMAIN emitted /\ emitted[i] \in Event
        BY <2>2 DEF Deliver, LifeInv, IInv, TypeOK
      <3> QED  BY <2>2, <3>1, ArriveKeepsLife DEF Deliver, Event
    <2>3. ASSUME NEW i \in 1..MaxEvents, DeliverAltered(i)
          PROVE  EmittedIsALife' /\ StoredIsNumbered'
      BY <2>3, ArriveKeepsLife DEF DeliverAltered
    <2>4. CASE UNCHANGED vars
      BY <2>4 DEF vars, LifeInv, EmittedIsALife, StoredIsNumbered
    <2> QED  BY <2>1, <2>2, <2>3, <2>4 DEF Next
  <1> QED  BY <1>1, <1>2, PTL DEF Spec


\* Sorting by sequence: the place of an event is a number of its own, and an
\* earlier event has a lower one.
LEMMA PlaceIsARank ==
    ASSUME NEW es, NEW n \in Nat, DOMAIN es = 1..n,
           \A i \in 1..n : es[i].sequence \in Nat
    PROVE  /\ \A i \in 1..n : Place(es, i) \in 1..n
           /\ \A i, j \in 1..n : Earlier(es, i, j) => Place(es, i) < Place(es, j)
           /\ \A i, j \in 1..n : Place(es, i) = Place(es, j) => i = j
           /\ \A k \in 1..n : \E i \in 1..n : Place(es, i) = k
  <1> DEFINE Below(i) == {j \in 1..n : Earlier(es, j, i)}
  <1>1. \A i, j, k \in 1..n :
           /\ ~Earlier(es, i, i)
           /\ Earlier(es, i, j) /\ Earlier(es, j, k) => Earlier(es, i, k)
           /\ i # j => Earlier(es, i, j) \/ Earlier(es, j, i)
    BY DEF Earlier
  <1>2. \A i \in 1..n : Place(es, i) = Cardinality(Below(i)) + 1
    BY DEF Place
  <1>3. IsFiniteSet(1..n) /\ Cardinality(1..n) = n
    BY FS_Interval
  <1>4. \A i \in 1..n : Below(i) \subseteq (1..n) \ {i}
    BY <1>1
  <1>5. \A i, j \in 1..n : Earlier(es, i, j) => i \in Below(j) /\ Below(i) \subseteq Below(j) \ {i}
    BY <1>1
  <1> HIDE DEF Below
  <1>6. \A i \in 1..n : /\ IsFiniteSet(Below(i)) /\ Cardinality(Below(i)) \in Nat
                        /\ Cardinality(Below(i)) <= n - 1
    <2> SUFFICES ASSUME NEW i \in 1..n
                 PROVE  /\ IsFiniteSet(Below(i)) /\ Cardinality(Below(i)) \in Nat
                        /\ Cardinality(Below(i)) <= n - 1
      OBVIOUS
    <2>1. IsFiniteSet((1..n) \ {i}) /\ Cardinality((1..n) \ {i}) = n - 1
      BY <1>3, FS_RemoveElement
    <2> QED  BY <1>4, <2>1, FS_Subset, FS_CardinalityType
  <1>7. ASSUME NEW i \in 1..n, NEW j \in 1..n, Earlier(es, i, j)
        PROVE  Cardinality(Below(i)) < Cardinality(Below(j))
    <2>1. /\ IsFiniteSet(Below(j) \ {i})
          /\ Cardinality(Below(j) \ {i}) = Cardinality(Below(j)) - 1
      BY <1>5, <1>6, <1>7, FS_RemoveElement
    <2>2. Cardinality(Below(i)) <= Cardinality(Below(j) \ {i})
      BY <1>5, <1>7, <2>1, FS_Subset
    <2> QED  BY <1>6, <2>1, <2>2
  <1>8. ASSUME NEW i \in 1..n
        PROVE  Place(es, i) \in 1..n
    <2>1. PICK below : below = Cardinality(Below(i))
      OBVIOUS
    <2>2. below \in Nat /\ below <= n - 1 /\ Place(es, i) = below + 1
      BY <1>2, <1>6, <2>1
    <2> QED  BY <2>2
  <1>9. \A i, j \in 1..n : Earlier(es, i, j) => Place(es, i) < Place(es, j)
    BY <1>2, <1>6, <1>7
  <1>10. \A i, j \in 1..n : Place(es, i) = Place(es, j) => i = j
    BY <1>1, <1>8, <1>9
  <1>11. PICK f : f = [i \in 1..n |-> Place(es, i)]
    OBVIOUS
  <1>12. f \in Injection(1..n, 1..n)
    BY <1>8, <1>10, <1>11 DEF Injection, IsInjective
  <1>13. f \in Surjection(1..n, 1..n)
    BY <1>3, <1>12, FS_Injection
  <1>14. \A k \in 1..n : \E i \in 1..n : Place(es, i) = k
    BY <1>11, <1>13 DEF Surjection
  <1> QED  BY <1>8, <1>9, <1>10, <1>14

\* BySequence rearranges the events, none dropped and none repeated, into the
\* order of their places.
LEMMA BySequenceSorts ==
    ASSUME NEW es, NEW n \in Nat, DOMAIN es = 1..n,
           \A i \in 1..n : es[i].sequence \in Nat
    PROVE  /\ DOMAIN BySequence(es) = 1..n
           /\ \E p \in [1..n -> 1..n] :
                /\ \A k \in 1..n : BySequence(es)[k] = es[p[k]]
                /\ \A k, l \in 1..n : p[k] = p[l] => k = l
                /\ \A i \in 1..n : \E k \in 1..n : p[k] = i
                /\ \A k, l \in 1..n : k < l => es[p[k]].sequence <= es[p[l]].sequence
  <1>1. /\ \A i \in 1..n : Place(es, i) \in 1..n
        /\ \A i, j \in 1..n : Earlier(es, i, j) => Place(es, i) < Place(es, j)
        /\ \A i, j \in 1..n : Place(es, i) = Place(es, j) => i = j
        /\ \A k \in 1..n : \E i \in 1..n : Place(es, i) = k
    BY PlaceIsARank, Zenon
  <1>2. PICK p : p = [k \in 1..n |-> CHOOSE i \in 1..n : Place(es, i) = k]
    OBVIOUS
  <1>3. \A k \in 1..n : p[k] \in 1..n /\ Place(es, p[k]) = k
    BY <1>1, <1>2
  <1>4. /\ p \in [1..n -> 1..n]
        /\ \A k, l \in 1..n : p[k] = p[l] => k = l
        /\ \A i \in 1..n : \E k \in 1..n : p[k] = i
    <2>1. p \in [1..n -> 1..n]
      BY <1>2, <1>3
    <2>2. \A k, l \in 1..n : p[k] = p[l] => k = l
      BY <1>3
    <2>3. ASSUME NEW i \in 1..n
          PROVE  \E k \in 1..n : p[k] = i
      <3>1. PICK k \in 1..n : k = Place(es, i)
        BY <1>1
      <3>2. p[k] = i
        BY <1>1, <1>3, <3>1
      <3> QED  BY <3>2
    <2> QED  BY <2>1, <2>2, <2>3
  <1>5. DOMAIN BySequence(es) = 1..n /\ \A k \in 1..n : BySequence(es)[k] = es[p[k]]
    BY <1>2 DEF BySequence
  <1>6. ASSUME NEW k \in 1..n, NEW l \in 1..n, k < l
        PROVE  es[p[k]].sequence <= es[p[l]].sequence
    <2>1. ~Earlier(es, p[l], p[k])
      <3>1. /\ p[k] \in 1..n /\ p[l] \in 1..n
            /\ Place(es, p[k]) = k /\ Place(es, p[l]) = l
        BY <1>3
      <3>2. Earlier(es, p[l], p[k]) => Place(es, p[l]) < Place(es, p[k])
        BY <1>1, <3>1, Zenon
      <3>3. ~(l < k)
        BY <1>6
      <3> QED  BY <3>1, <3>2, <3>3, Zenon
    <2> QED  BY <1>3, <2>1 DEF Earlier
  <1> QED  BY <1>4, <1>5, <1>6


\* Induction along a history: what holds at its start and is kept by each turn
\* holds after every turn.
LEMMA AlongHistory ==
    ASSUME NEW n \in Nat, NEW Good, 0 \in Good, \A m \in 1..n : m - 1 \in Good => m \in Good
    PROVE  \A m \in 0..n : m \in Good
  <1> DEFINE Bad == (0..n) \ Good
  <1> SUFFICES ASSUME Bad # {}
               PROVE  FALSE
    OBVIOUS
  <1>1. PICK m \in Bad : \A l \in Bad : m <= l
    <2>1. Bad \subseteq Nat
      OBVIOUS
    <2> HIDE DEF Bad
    <2> QED  BY <2>1, Least
  <1>2. m \in 1..n
    BY <1>1
  <1>3. m - 1 \in 0..n /\ m - 1 \notin Bad
    <2> m \in Nat /\ m - 1 \in 0..n /\ m - 1 < m
      BY <1>2
    <2> HIDE DEF Bad
    <2> QED  BY <1>1
  <1> QED  BY <1>1, <1>2, <1>3

\* The loop of replay_ledger: what is derived after each number of events is
\* one turn on from what was derived before it.
LEMMA ReplayedTurns ==
    ASSUME NEW es, NEW n \in Nat, Len(es) = n, NEW reading, NEW R, R = Replayed(es, reading)
    PROVE  /\ R[0] = ReplayStart
           /\ \A k \in 1..n : R[k] = ReplayStep(R[k - 1], BySequence(es)[k], reading)
  <1> DEFINE Turn(f, k) == IF k = 0 THEN ReplayStart
                           ELSE ReplayStep(f[k - 1], BySequence(es)[k], reading)
             Runs(f, m) == f = [k \in 0..m |-> Turn(f, k)]
             Turns == {m \in 0..n : \E f : Runs(f, m)}
  <1>1. R = CHOOSE f : Runs(f, n)
    BY DEF Replayed
  <1>2. 0 \in Turns
    <2>1. PICK f : f = [k \in 0..0 |-> ReplayStart]
      OBVIOUS
    <2>2. Runs(f, 0)
      BY <2>1
    <2> QED  BY <2>2
  <1>3. ASSUME NEW m \in 1..n, m - 1 \in Turns
        PROVE  m \in Turns
    <2>1. PICK f : Runs(f, m - 1)
      BY <1>3
    <2>2. PICK g : g = [k \in 0..m |-> Turn(f, k)]
      OBVIOUS
    <2>3. \A k \in 0..(m - 1) : g[k] = f[k]
      <3> HIDE DEF Turn
      <3> QED  BY <2>1, <2>2
    <2>4. \A k \in 0..m : Turn(f, k) = Turn(g, k)
      <3> SUFFICES ASSUME NEW k \in 0..m
                   PROVE  Turn(f, k) = Turn(g, k)
        OBVIOUS
      <3>1. k # 0 => g[k - 1] = f[k - 1]
        BY <2>3
      <3> QED  BY <3>1
    <2>5. Runs(g, m)
      <3> HIDE DEF Turn
      <3> QED  BY <2>2, <2>4
    <2> QED  BY <2>5
  <1>4. \A m \in 0..n : m \in Turns
    <2> HIDE DEF Turns
    <2> QED  BY <1>2, <1>3, AlongHistory
  <1>5. R = [k \in 0..n |-> Turn(R, k)]
    <2>1. \E f : Runs(f, n)
      BY <1>4
    <2> HIDE DEF Runs
    <2>2. Runs(R, n)
      BY <1>1, <2>1
    <2> QED  BY <2>2 DEF Runs
  <1> QED  BY <1>5

\* The loop of replay_states, likewise.
LEMMA StatesTurn ==
    ASSUME NEW es, NEW n \in Nat, Len(es) = n, NEW R, R = StatesAfter(es)
    PROVE  /\ R[0] = [current_state |-> Program.initial_state, is_terminal |-> FALSE,
                      raised |-> \E i, j \in DOMAIN es :
                                     i # j /\ es[i].sequence = es[j].sequence]
           /\ \A k \in 1..n : R[k] = Follow(R[k - 1], BySequence(es)[k])
  <1> DEFINE Start == [current_state |-> Program.initial_state, is_terminal |-> FALSE,
                      raised |-> \E i, j \in DOMAIN es :
                                     i # j /\ es[i].sequence = es[j].sequence]
             Turn(f, k) == IF k = 0 THEN Start
                           ELSE Follow(f[k - 1], BySequence(es)[k])
             Runs(f, m) == f = [k \in 0..m |-> Turn(f, k)]
             Turns == {m \in 0..n : \E f : Runs(f, m)}
  <1>1. R = CHOOSE f : Runs(f, n)
    BY DEF StatesAfter
  <1> HIDE DEF Start
  <1>2. 0 \in Turns
    <2>1. PICK f : f = [k \in 0..0 |-> Start]
      OBVIOUS
    <2>2. Runs(f, 0)
      BY <2>1
    <2> QED  BY <2>2
  <1>3. ASSUME NEW m \in 1..n, m - 1 \in Turns
        PROVE  m \in Turns
    <2>1. PICK f : Runs(f, m - 1)
      BY <1>3
    <2>2. PICK g : g = [k \in 0..m |-> Turn(f, k)]
      OBVIOUS
    <2>3. \A k \in 0..(m - 1) : g[k] = f[k]
      <3> HIDE DEF Turn
      <3> QED  BY <2>1, <2>2
    <2>4. \A k \in 0..m : Turn(f, k) = Turn(g, k)
      <3> SUFFICES ASSUME NEW k \in 0..m
                   PROVE  Turn(f, k) = Turn(g, k)
        OBVIOUS
      <3>1. k # 0 => g[k - 1] = f[k - 1]
        BY <2>3
      <3> QED  BY <3>1
    <2>5. Runs(g, m)
      <3> HIDE DEF Turn
      <3> QED  BY <2>2, <2>4
    <2> QED  BY <2>5
  <1>4. \A m \in 0..n : m \in Turns
    <2> HIDE DEF Turns
    <2> QED  BY <1>2, <1>3, AlongHistory
  <1>5. R = [k \in 0..n |-> Turn(R, k)]
    <2>1. \E f : Runs(f, n)
      BY <1>4
    <2> HIDE DEF Runs
    <2>2. Runs(R, n)
      BY <1>1, <2>1
    <2> QED  BY <2>2 DEF Runs
  <1>6. R[0] = Start /\ \A k \in 1..n : R[k] = Follow(R[k - 1], BySequence(es)[k])
    BY <1>5
  <1> QED  BY <1>6 DEF Start


ReplayFields == {"current_state", "is_terminal", "outcome", "assignment", "accepted",
                 "seen", "problems", "raised"}

\* An event is taken exactly when each of the checks of replay_ledger passes.
LEMMA FittingEvent ==
    ASSUME NEW r, NEW e
    PROVE  Problem(r, e) = "fits" <=>
              /\ e.sequence \notin r.seen
              /\ e.program_hash = Program.content_hash
              /\ ~r.is_terminal
              /\ e.from_state = r.current_state
              /\ PermittedBy(e, Program)
  <1>1. /\ "duplicate_sequence" # "fits" /\ "program_mismatch" # "fits"
        /\ "after_the_end" # "fits" /\ "not_contiguous" # "fits" /\ "not_permitted" # "fits"
    OBVIOUS
  <1>2. CASE e.sequence \in r.seen
    BY <1>1, <1>2, Zenon DEF Problem
  <1>3. CASE e.sequence \notin r.seen /\ e.program_hash # Program.content_hash
    BY <1>1, <1>3 DEF Problem
  <1>4. CASE e.sequence \notin r.seen /\ e.program_hash = Program.content_hash /\ r.is_terminal
    BY <1>1, <1>4 DEF Problem
  <1>5. CASE /\ e.sequence \notin r.seen /\ e.program_hash = Program.content_hash /\ ~r.is_terminal
             /\ e.from_state # r.current_state
    BY <1>1, <1>5 DEF Problem
  <1>6. CASE /\ e.sequence \notin r.seen /\ e.program_hash = Program.content_hash /\ ~r.is_terminal
             /\ e.from_state = r.current_state
    BY <1>1, <1>6 DEF Problem
  <1> QED  BY <1>2, <1>3, <1>4, <1>5, <1>6

\* What one turn of replay_ledger changes: nothing after it has raised; the
\* position when the event fits; else only what has been seen and found.
LEMMA TurnAfterRaising ==
    ASSUME NEW r, r.raised, NEW e, NEW reading
    PROVE  ReplayStep(r, e, reading) = r
  BY DEF ReplayStep

LEMMA TurnOfMisfit ==
    ASSUME NEW r, DOMAIN r = ReplayFields, ~r.raised, NEW e, Problem(r, e) # "fits",
           NEW reading, NEW q, q = ReplayStep(r, e, reading)
    PROVE  /\ DOMAIN q = ReplayFields
           /\ q.seen = r.seen \cup {e.sequence} /\ q.problems # {}
           /\ q.raised <=> reading = "strict"
           /\ q.current_state = r.current_state /\ q.is_terminal = r.is_terminal
           /\ q.outcome = r.outcome /\ q.accepted = r.accepted
  <1>1. q = [[r EXCEPT !.seen = @ \cup {e.sequence}]
               EXCEPT !.problems = @ \cup {Problem(r, e)}, !.raised = reading = "strict"]
    BY Zenon DEF ReplayStep
  <1> QED  BY <1>1 DEF ReplayFields

LEMMA TurnOfFit ==
    ASSUME NEW r, DOMAIN r = ReplayFields, ~r.raised, NEW e, Problem(r, e) = "fits",
           NEW reading, NEW q, q = ReplayStep(r, e, reading)
    PROVE  /\ DOMAIN q = ReplayFields
           /\ q.seen = r.seen \cup {e.sequence} /\ q.problems = r.problems
           /\ ~q.raised /\ q.current_state = e.to_state
           /\ q.is_terminal = (e.to_state \in Program.terminal)
           /\ q.outcome = IF e.terminal_outcome # None THEN e.terminal_outcome ELSE r.outcome
           /\ q.accepted = Append(r.accepted, e)
  <1>1. q = [[r EXCEPT !.seen = @ \cup {e.sequence}] EXCEPT
               !.current_state = e.to_state,
               !.is_terminal = e.to_state \in Program.terminal,
               !.outcome = IF e.terminal_outcome # None THEN e.terminal_outcome ELSE @,
               !.assignment = IF e.ownership # "unchanged" THEN e.ownership ELSE @,
               !.accepted = Append(@, e)]
    BY Zenon DEF ReplayStep
  <1> QED  BY <1>1 DEF ReplayFields

\* What a reading has taken so far is one life of the program, and tells its
\* state and whether it has ended.
ALife(r, Source) ==
    /\ DOMAIN r = ReplayFields
    /\ r.accepted \in Seq(Source)
    /\ \A i \in DOMAIN r.accepted :
          /\ PermittedBy(r.accepted[i], Program)
          /\ r.accepted[i].from_state = IF i = 1 THEN Program.initial_state
                                        ELSE r.accepted[i - 1].to_state
          /\ r.accepted[i].to_state \in Program.terminal => i = Len(r.accepted)
    /\ r.current_state = IF r.accepted = << >> THEN Program.initial_state
                         ELSE r.accepted[Len(r.accepted)].to_state
    /\ r.is_terminal <=> r.accepted # << >> /\ r.current_state \in Program.terminal

LEMMA TurnKeepsALife ==
    ASSUME NEW r, NEW Source, ALife(r, Source), NEW e \in Source, NEW reading,
           NEW q, q = ReplayStep(r, e, reading)
    PROVE  ALife(q, Source)
  <1>0. DOMAIN r = ReplayFields
    BY DEF ALife
  <1>1. CASE r.raised
    <2>1. q = r
      BY <1>1, TurnAfterRaising
    <2> QED  BY <2>1
  <1>2. CASE ~r.raised /\ Problem(r, e) # "fits"
    <2>1. /\ DOMAIN q = ReplayFields /\ q.accepted = r.accepted
          /\ q.current_state = r.current_state /\ q.is_terminal = r.is_terminal
      BY <1>0, <1>2, TurnOfMisfit
    <2> QED  BY <2>1 DEF ALife
  <1>3. CASE ~r.raised /\ Problem(r, e) = "fits"
    <2>1. /\ DOMAIN q = ReplayFields /\ q.accepted = Append(r.accepted, e)
          /\ q.current_state = e.to_state
          /\ q.is_terminal = (e.to_state \in Program.terminal)
      BY <1>0, <1>3, TurnOfFit
    <2>2. ~r.is_terminal /\ e.from_state = r.current_state /\ PermittedBy(e, Program)
      BY <1>3, FittingEvent, Zenon
    <2>3. PICK n \in Nat : n = Len(r.accepted)
      BY DEF ALife
    <2>4. /\ q.accepted \in Seq(Source) /\ Len(q.accepted) = n + 1
          /\ DOMAIN q.accepted = 1..(n + 1) /\ DOMAIN r.accepted = 1..n
          /\ q.accepted[n + 1] = e
          /\ \A i \in 1..n : q.accepted[i] = r.accepted[i]
          /\ r.accepted = << >> <=> n = 0
          /\ q.accepted # << >>
      BY <2>1, <2>3 DEF ALife
    <2>5. \A i \in 1..n : r.accepted[i].to_state \notin Program.terminal
      BY <2>2, <2>3, <2>4 DEF ALife
    <2>6. ASSUME NEW i \in DOMAIN q.accepted
          PROVE  /\ PermittedBy(q.accepted[i], Program)
                 /\ q.accepted[i].from_state = IF i = 1 THEN Program.initial_state
                                               ELSE q.accepted[i - 1].to_state
                 /\ q.accepted[i].to_state \in Program.terminal => i = Len(q.accepted)
      <3>1. CASE i \in 1..n
        <4>1. i # 1 => i - 1 \in 1..n
          BY <3>1
        <4> QED  BY <2>4, <2>5, <3>1, <4>1 DEF ALife
      <3>2. CASE i = n + 1
        <4>1. n # 0 => n \in 1..n
          OBVIOUS
        <4>2. e.from_state = IF n = 0 THEN Program.initial_state ELSE r.accepted[n].to_state
          BY <2>2, <2>3, <2>4 DEF ALife
        <4>3. i - 1 = n /\ (i = 1 <=> n = 0)
          BY <3>2
        <4> QED  BY <2>2, <2>4, <3>2, <4>1, <4>2, <4>3
      <3> QED  BY <2>4, <3>1, <3>2
    <2> QED  BY <2>1, <2>4, <2>6 DEF ALife
  <1> QED  BY <1>1, <1>2, <1>3

\* What is stored is a sequence of numbered events.
LEMMA StoredIsASequence ==
    ASSUME LifeInv
    PROVE  \E n \in Nat :
              /\ n = Len(Stored) /\ n = Len(stored) /\ DOMAIN Stored = 1..n /\ DOMAIN stored = 1..n
              /\ \A i \in 1..n : Stored[i] = stored[i].event /\ Stored[i].sequence \in Nat
  <1>1. /\ stored \in Seq(Entry) /\ StoredIsNumbered
    BY DEF LifeInv, IInv
  <1>2. Len(stored) \in Nat /\ DOMAIN stored = 1..Len(stored)
    BY <1>1
  <1>3. DOMAIN Stored = 1..Len(stored) /\ \A i \in 1..Len(stored) : Stored[i] = stored[i].event
    BY <1>2 DEF Stored
  <1>4. Len(Stored) = Len(stored)
    BY <1>2, <1>3 DEF Stored
  <1> QED  BY <1>1, <1>2, <1>3, <1>4 DEF StoredIsNumbered

\* Whatever is missing or altered, what the audit reading accepts is a legal
\* life of the program (replay_ledger, strict=False).
THEOREM AuditAcceptsALegalLife == Spec => []AcceptedIsLegalLife
  <1>1. LifeInv => AcceptedIsLegalLife
    <2> SUFFICES ASSUME LifeInv
                 PROVE  AcceptedIsLegalLife
      OBVIOUS
    <2>1. PICK n \in Nat : Len(Stored) = n /\ DOMAIN Stored = 1..n
      BY StoredIsASequence
    <2>2. PICK R : R = Replayed(Stored, "audit")
      OBVIOUS
    <2>3. /\ R[0] = ReplayStart
          /\ \A k \in 1..n : R[k] = ReplayStep(R[k - 1], BySequence(Stored)[k], "audit")
      BY <2>1, <2>2, ReplayedTurns
    <2> DEFINE Source == {BySequence(Stored)[k] : k \in 1..n}
               Good == {k \in 0..n : ALife(R[k], Source)}
    <2>4. \A k \in 1..n : BySequence(Stored)[k] \in Source
      OBVIOUS
    <2> HIDE DEF Source
    <2>5. ALife(R[0], Source)
      <3>1. << >> \in Seq(Source)
        OBVIOUS
      <3> QED  BY <2>3, <3>1 DEF ReplayStart, ALife, ReplayFields
    <2>6. ASSUME NEW k \in 1..n, k - 1 \in Good
          PROVE  k \in Good
      <3>1. ALife(R[k - 1], Source) /\ k \in 0..n
        BY <2>6
      <3>2. ALife(R[k], Source)
        BY <2>3, <2>4, <3>1, TurnKeepsALife, Zenon
      <3> QED  BY <3>1, <3>2
    <2>7. \A k \in 0..n : k \in Good
      <3>1. 0 \in Good
        BY <2>5
      <3> HIDE DEF Good
      <3> QED  BY <2>6, <3>1, AlongHistory
    <2>8. ALife(R[n], Source) /\ Audit = R[n]
      <3>1. n \in Good
        BY <2>7
      <3>2. Audit = R[n]
        BY <2>1, <2>2, Zenon DEF Audit, ReplayLedger
      <3> QED  BY <3>1, <3>2
    <2> QED  BY <2>8 DEF ALife, AcceptedIsLegalLife
  <1> QED  BY <1>1, LifeHolds, PTL


\* As long as the audit reading finds no problem the strict one is at the same
\* place; afterwards it has raised.
SameReading(a, s) ==
    /\ DOMAIN a = ReplayFields /\ DOMAIN s = ReplayFields
    /\ ~a.raised
    /\ a.problems = {} => s = a
    /\ a.problems # {} => s.raised

\* As long as the audit reading finds no problem replay_states is in the same
\* state; afterwards it has raised.
SameStates(a, t) ==
    /\ DOMAIN t = {"current_state", "is_terminal", "raised"}
    /\ a.problems = {} => /\ ~t.raised /\ t.current_state = a.current_state
                          /\ t.is_terminal = a.is_terminal
    /\ a.problems # {} => t.raised

LEMMA TurnKeepsSameReading ==
    ASSUME NEW a, NEW s, SameReading(a, s), NEW e,
           NEW a2, a2 = ReplayStep(a, e, "audit"), NEW s2, s2 = ReplayStep(s, e, "strict")
    PROVE  SameReading(a2, s2) /\ a2.seen = a.seen \cup {e.sequence}
  <1>1. DOMAIN a = ReplayFields /\ DOMAIN s = ReplayFields /\ ~a.raised
    BY DEF SameReading
  <1>2. CASE a.problems # {}
    <2>1. s.raised
      BY <1>2 DEF SameReading
    <2>2. s2 = s
      BY <2>1, TurnAfterRaising, Zenon
    <2>3. /\ DOMAIN a2 = ReplayFields /\ ~a2.raised /\ a2.problems # {}
          /\ a2.seen = a.seen \cup {e.sequence}
      <3>1. CASE Problem(a, e) = "fits"
        BY <1>1, <1>2, <3>1, TurnOfFit
      <3>2. CASE Problem(a, e) # "fits"
        BY <1>1, <3>2, TurnOfMisfit
      <3> QED  BY <3>1, <3>2
    <2> QED  BY <1>1, <2>1, <2>2, <2>3 DEF SameReading
  <1>3. CASE a.problems = {} /\ Problem(a, e) = "fits"
    <2>1. s = a /\ ~s.raised
      BY <1>1, <1>3 DEF SameReading
    <2>2. s2 = a2
      BY <1>3, <2>1, Zenon DEF ReplayStep
    <2>3. /\ DOMAIN a2 = ReplayFields /\ ~a2.raised /\ a2.problems = a.problems
          /\ a2.seen = a.seen \cup {e.sequence}
      BY <1>1, <1>3, TurnOfFit
    <2> QED  BY <1>3, <2>2, <2>3 DEF SameReading
  <1>4. CASE a.problems = {} /\ Problem(a, e) # "fits"
    <2>1. s = a /\ ~s.raised
      BY <1>1, <1>4 DEF SameReading
    <2>2. /\ DOMAIN a2 = ReplayFields /\ ~a2.raised /\ a2.problems # {}
          /\ a2.seen = a.seen \cup {e.sequence}
      BY <1>1, <1>4, TurnOfMisfit
    <2>3. DOMAIN s2 = ReplayFields /\ s2.raised
      <3>1. s2 = ReplayStep(a, e, "strict")
        BY <2>1
      <3> QED  BY <1>1, <1>4, <3>1, TurnOfMisfit
    <2> QED  BY <2>2, <2>3 DEF SameReading
  <1> QED  BY <1>2, <1>3, <1>4

LEMMA TurnKeepsSameStates ==
    ASSUME NEW a, NEW t, DOMAIN a = ReplayFields, ~a.raised, SameStates(a, t),
           NEW e, e.sequence \notin a.seen,
           NEW a2, a2 = ReplayStep(a, e, "audit"), NEW t2, t2 = Follow(t, e)
    PROVE  SameStates(a2, t2)
  <1>1. Problem(a, e) = "fits" <=>
           ~a.is_terminal /\ e.from_state = a.current_state /\ PermittedBy(e, Program)
    <2>1. PermittedBy(e, Program) => e.program_hash = Program.content_hash
      BY DEF PermittedBy
    <2> QED  BY <2>1, FittingEvent, Zenon
  <1>2. DOMAIN t = {"current_state", "is_terminal", "raised"}
    BY DEF SameStates
  <1>3. CASE a.problems # {}
    <2>1. a2.problems # {}
      <3>1. CASE Problem(a, e) = "fits"
        BY <1>3, <3>1, TurnOfFit
      <3>2. CASE Problem(a, e) # "fits"
        BY <3>2, TurnOfMisfit
      <3> QED  BY <3>1, <3>2
    <2>2. t2 = [t EXCEPT !.raised = TRUE]
      BY <1>3 DEF Follow, SameStates
    <2> QED  BY <1>2, <2>1, <2>2 DEF SameStates
  <1>4. CASE a.problems = {} /\ Problem(a, e) = "fits"
    <2>1. ~t.raised /\ t.current_state = a.current_state /\ t.is_terminal = a.is_terminal
      BY <1>4 DEF SameStates
    <2>2. /\ a2.problems = {} /\ a2.current_state = e.to_state
          /\ a2.is_terminal = (e.to_state \in Program.terminal)
      BY <1>4, TurnOfFit
    <2>3. t2 = [t EXCEPT !.current_state = e.to_state,
                         !.is_terminal = e.to_state \in Program.terminal]
      BY <1>1, <1>4, <2>1, Zenon DEF Follow
    <2> QED  BY <1>2, <2>1, <2>2, <2>3 DEF SameStates
  <1>5. CASE a.problems = {} /\ Problem(a, e) # "fits"
    <2>1. ~t.raised /\ t.current_state = a.current_state /\ t.is_terminal = a.is_terminal
      BY <1>5 DEF SameStates
    <2>2. a2.problems # {}
      BY <1>5, TurnOfMisfit
    <2>3. t2 = [t EXCEPT !.raised = TRUE]
      BY <1>1, <1>5, <2>1, Zenon DEF Follow
    <2> QED  BY <1>2, <2>2, <2>3 DEF SameStates
  <1> QED  BY <1>3, <1>4, <1>5

\* A reading that has raised stays so.
LEMMA FollowStaysRaised ==
    ASSUME NEW t, t.raised, DOMAIN t = {"current_state", "is_terminal", "raised"}, NEW e
    PROVE  Follow(t, e).raised /\ DOMAIN Follow(t, e) = {"current_state", "is_terminal", "raised"}
  <1>1. Follow(t, e) = [t EXCEPT !.raised = TRUE]
    BY DEF Follow
  <1> QED  BY <1>1

\* A reading of n events in the order o, by replay_ledger and by replay_states.
IsReading(A, o, n, reading) ==
    /\ A[0] = ReplayStart
    /\ \A k \in 1..n : A[k] = ReplayStep(A[k - 1], o[k], reading)

SharesNumber(o, n) == \E k, l \in 1..n : k < l /\ o[k].sequence = o[l].sequence

IsStatesReading(T, o, n) ==
    /\ DOMAIN T[0] = {"current_state", "is_terminal", "raised"}
    /\ T[0].current_state = Program.initial_state
    /\ T[0].is_terminal = FALSE
    /\ T[0].raised <=> SharesNumber(o, n)
    /\ \A k \in 1..n : T[k] = Follow(T[k - 1], o[k])

Seen(o, k) == {o[j].sequence : j \in 1..k}

\* The strict and the audit reading of a sequence of events.
LEMMA TwoReadings ==
    ASSUME NEW n \in Nat, NEW o, NEW A, IsReading(A, o, n, "audit"),
           NEW S, IsReading(S, o, n, "strict")
    PROVE  \A k \in 0..n : SameReading(A[k], S[k]) /\ A[k].seen = Seen(o, k)
  <1> DEFINE Alike(k) == SameReading(A[k], S[k]) /\ A[k].seen = Seen(o, k)
             Good == {k \in 0..n : Alike(k)}
  <1>1. 0 \in Good
    <2>1. Seen(o, 0) = {}
      BY DEF Seen
    <2>2. ReplayStart.seen = {} /\ SameReading(ReplayStart, ReplayStart)
      BY DEF ReplayStart, SameReading, ReplayFields
    <2>3. A[0] = ReplayStart /\ S[0] = ReplayStart
      BY DEF IsReading
    <2>4. Alike(0)
      BY <2>1, <2>2, <2>3
    <2> QED  BY <2>4
  <1>2. ASSUME NEW k \in 1..n, k - 1 \in Good
        PROVE  k \in Good
    <2>1. SameReading(A[k - 1], S[k - 1]) /\ A[k - 1].seen = Seen(o, k - 1)
      BY <1>2
    <2>2. /\ A[k] = ReplayStep(A[k - 1], o[k], "audit")
          /\ S[k] = ReplayStep(S[k - 1], o[k], "strict")
      BY DEF IsReading
    <2>3. SameReading(A[k], S[k]) /\ A[k].seen = A[k - 1].seen \cup {o[k].sequence}
      <3>1. PICK a, s, e, a2, s2 :
               /\ a = A[k - 1] /\ s = S[k - 1] /\ e = o[k] /\ a2 = A[k] /\ s2 = S[k]
        OBVIOUS
      <3>2. /\ SameReading(a, s)
            /\ a2 = ReplayStep(a, e, "audit") /\ s2 = ReplayStep(s, e, "strict")
        BY <2>1, <2>2, <3>1
      <3>3. SameReading(a2, s2) /\ a2.seen = a.seen \cup {e.sequence}
        BY <3>2, TurnKeepsSameReading
      <3> QED  BY <3>1, <3>3
    <2>4. Seen(o, k) = Seen(o, k - 1) \cup {o[k].sequence}
      <3>1. 1..k = (1..(k - 1)) \cup {k}
        OBVIOUS
      <3> QED  BY <3>1 DEF Seen
    <2>5. Alike(k)
      BY <2>1, <2>3, <2>4
    <2> QED  BY <2>5
  <1> HIDE DEF Alike
  <1>3. \A k \in 0..n : k \in Good
    <2> HIDE DEF Good
    <2> QED  BY <1>1, <1>2, AlongHistory
  <1> QED  BY <1>3 DEF Alike

\* Once the audit reading has found a problem it keeps it.
LEMMA ProblemsStay ==
    ASSUME NEW n \in Nat, NEW o, NEW A, IsReading(A, o, n, "audit"),
           NEW S, IsReading(S, o, n, "strict"), NEW l \in 1..n, A[l].problems # {}
    PROVE  A[n].problems # {}
  <1> DEFINE Late == {k \in 0..n : k >= l => A[k].problems # {}}
  <1>1. 0 \in Late
    OBVIOUS
  <1>2. ASSUME NEW k \in 1..n, k - 1 \in Late
        PROVE  k \in Late
    <2>1. CASE k <= l
      BY <2>1
    <2>2. CASE k > l
      <3>1. A[k - 1].problems # {} /\ k - 1 \in 0..n
        BY <1>2, <2>2
      <3>2. DOMAIN A[k - 1] = ReplayFields /\ ~A[k - 1].raised
        BY <3>1, TwoReadings DEF SameReading
      <3>3. A[k] = ReplayStep(A[k - 1], o[k], "audit")
        BY DEF IsReading
      <3>4. A[k].problems # {}
        <4>1. CASE Problem(A[k - 1], o[k]) = "fits"
          BY <3>1, <3>2, <3>3, <4>1, TurnOfFit
        <4>2. CASE Problem(A[k - 1], o[k]) # "fits"
          BY <3>1, <3>2, <3>3, <4>2, TurnOfMisfit
        <4> QED  BY <4>1, <4>2
      <3> QED  BY <3>4
    <2> QED  BY <2>1, <2>2
  <1>3. n \in Late
    <2> HIDE DEF Late
    <2> QED  BY <1>1, <1>2, AlongHistory
  <1> QED  BY <1>3

\* A number that is used twice is a problem.
LEMMA SharedNumberIsFound ==
    ASSUME NEW n \in Nat, NEW o, NEW A, IsReading(A, o, n, "audit"),
           NEW S, IsReading(S, o, n, "strict"), SharesNumber(o, n)
    PROVE  A[n].problems # {}
  <1>1. PICK k \in 1..n, l \in 1..n : k < l /\ o[k].sequence = o[l].sequence
    BY DEF SharesNumber
  <1>2. l - 1 \in 0..n /\ k \in 1..(l - 1)
    BY <1>1
  <1>3. /\ A[l - 1].seen = Seen(o, l - 1)
        /\ DOMAIN A[l - 1] = ReplayFields /\ ~A[l - 1].raised
    BY <1>2, TwoReadings DEF SameReading
  <1>4. o[l].sequence \in A[l - 1].seen
    BY <1>1, <1>2, <1>3, Zenon DEF Seen
  <1>5. Problem(A[l - 1], o[l]) # "fits"
    BY <1>4, FittingEvent, Zenon
  <1>6. A[l] = ReplayStep(A[l - 1], o[l], "audit")
    BY DEF IsReading
  <1>7. A[l].problems # {}
    BY <1>3, <1>5, <1>6, TurnOfMisfit
  <1> QED  BY <1>7, ProblemsStay

\* The reading of replay_states when no two events share a number.
LEMMA StatesReading ==
    ASSUME NEW n \in Nat, NEW o, NEW A, IsReading(A, o, n, "audit"),
           NEW S, IsReading(S, o, n, "strict"),
           NEW T, IsStatesReading(T, o, n), ~SharesNumber(o, n)
    PROVE  SameStates(A[n], T[n])
  <1> DEFINE Together == {k \in 0..n : SameStates(A[k], T[k])}
  <1>1. 0 \in Together
    <2>1. ReplayStart.problems = {} /\ ReplayStart.is_terminal = FALSE
          /\ ReplayStart.current_state = Program.initial_state
      BY DEF ReplayStart
    <2>2. /\ DOMAIN T[0] = {"current_state", "is_terminal", "raised"}
          /\ T[0].current_state = Program.initial_state /\ T[0].is_terminal = FALSE /\ ~T[0].raised
      BY DEF IsStatesReading
    <2>3. SameStates(ReplayStart, T[0])
      BY <2>1, <2>2 DEF SameStates
    <2>4. A[0] = ReplayStart
      BY DEF IsReading
    <2> QED  BY <2>3, <2>4
  <1>2. ASSUME NEW k \in 1..n, k - 1 \in Together
        PROVE  k \in Together
    <2>1. SameStates(A[k - 1], T[k - 1]) /\ k - 1 \in 0..n
      BY <1>2
    <2>2. /\ DOMAIN A[k - 1] = ReplayFields /\ ~A[k - 1].raised
          /\ A[k - 1].seen = Seen(o, k - 1)
      BY <2>1, TwoReadings DEF SameReading
    <2>3. o[k].sequence \notin Seen(o, k - 1)
      <3>1. ASSUME NEW j \in 1..(k - 1)
            PROVE  o[j].sequence # o[k].sequence
        <4>1. j \in 1..n /\ j < k
          OBVIOUS
        <4> QED  BY <4>1, Zenon DEF SharesNumber
      <3> QED  BY <3>1, Zenon DEF Seen
    <2>4. /\ A[k] = ReplayStep(A[k - 1], o[k], "audit")
          /\ T[k] = Follow(T[k - 1], o[k])
      BY DEF IsReading, IsStatesReading
    <2>5. SameStates(A[k], T[k])
      BY <2>1, <2>2, <2>3, <2>4, TurnKeepsSameStates
    <2> QED  BY <2>5
  <1>3. n \in Together
    <2> HIDE DEF Together
    <2> QED  BY <1>1, <1>2, AlongHistory
  <1> QED  BY <1>3

\* The reading of replay_states when two do.
LEMMA StatesClash ==
    ASSUME NEW n \in Nat, NEW o, NEW T, IsStatesReading(T, o, n), SharesNumber(o, n)
    PROVE  T[n].raised /\ DOMAIN T[n] = {"current_state", "is_terminal", "raised"}
  <1> DEFINE Lost == {k \in 0..n : T[k].raised
                                   /\ DOMAIN T[k] = {"current_state", "is_terminal", "raised"}}
  <1>1. 0 \in Lost
    BY DEF IsStatesReading
  <1>2. ASSUME NEW k \in 1..n, k - 1 \in Lost
        PROVE  k \in Lost
    <2>1. T[k - 1].raised /\ DOMAIN T[k - 1] = {"current_state", "is_terminal", "raised"}
      BY <1>2
    <2>2. T[k] = Follow(T[k - 1], o[k])
      BY DEF IsStatesReading
    <2>3. T[k].raised /\ DOMAIN T[k] = {"current_state", "is_terminal", "raised"}
      BY <2>1, <2>2, FollowStaysRaised
    <2> QED  BY <2>3
  <1>3. n \in Lost
    <2> HIDE DEF Lost
    <2> QED  BY <1>1, <1>2, AlongHistory
  <1> QED  BY <1>3

\* The three readings of one order of events give one answer.
LEMMA ThreeReadings ==
    ASSUME NEW n \in Nat, NEW o, NEW A, IsReading(A, o, n, "audit"),
           NEW S, IsReading(S, o, n, "strict"), NEW T, IsStatesReading(T, o, n)
    PROVE  SameReading(A[n], S[n]) /\ SameStates(A[n], T[n])
  <1>1. SameReading(A[n], S[n])
    <2>1. n \in 0..n
      OBVIOUS
    <2> QED  BY <2>1, TwoReadings
  <1>2. CASE SharesNumber(o, n)
    BY <1>1, <1>2, SharedNumberIsFound, StatesClash DEF SameStates
  <1>3. CASE ~SharesNumber(o, n)
    BY <1>1, <1>3, StatesReading
  <1> QED  BY <1>2, <1>3

\* What is stored is a numbered sequence of events.
Numbered(es, n) ==
    /\ Len(es) = n
    /\ DOMAIN es = 1..n
    /\ \A i \in 1..n : es[i].sequence \in Nat

Rearranges(p, n) ==
    /\ p \in [1..n -> 1..n]
    /\ \A k, l \in 1..n : p[k] = p[l] => k = l
    /\ \A i \in 1..n : \E k \in 1..n : p[k] = i

\* BySequence rearranges the events by number.
LEMMA OrderRearranges ==
    ASSUME NEW es, NEW n \in Nat, Numbered(es, n)
    PROVE  \E p : /\ Rearranges(p, n)
                  /\ \A k \in 1..n : BySequence(es)[k] = es[p[k]]
                  /\ \A k, l \in 1..n : k < l => es[p[k]].sequence <= es[p[l]].sequence
  <1>1. DOMAIN es = 1..n /\ \A i \in 1..n : es[i].sequence \in Nat
    BY DEF Numbered
  <1>2. /\ DOMAIN BySequence(es) = 1..n
        /\ \E p \in [1..n -> 1..n] :
              /\ \A k \in 1..n : BySequence(es)[k] = es[p[k]]
              /\ \A k, l \in 1..n : p[k] = p[l] => k = l
              /\ \A i \in 1..n : \E k \in 1..n : p[k] = i
              /\ \A k, l \in 1..n : k < l => es[p[k]].sequence <= es[p[l]].sequence
    BY <1>1, BySequenceSorts, Zenon
  <1> QED  BY <1>2, Zenon DEF Rearranges

\* Sorting keeps two events with one number, and brings none about.
LEMMA SortingKeepsNumbers ==
    ASSUME NEW es, NEW n \in Nat, Numbered(es, n), NEW o, o = BySequence(es)
    PROVE  (\E i, j \in DOMAIN es : i # j /\ es[i].sequence = es[j].sequence) <=> SharesNumber(o, n)
  <1>1. PICK p : Rearranges(p, n) /\ \A k \in 1..n : o[k] = es[p[k]]
    <2>1. PICK p :
             /\ Rearranges(p, n)
             /\ \A k \in 1..n : BySequence(es)[k] = es[p[k]]
             /\ \A k, l \in 1..n : k < l => es[p[k]].sequence <= es[p[l]].sequence
      BY OrderRearranges, Zenon
    <2> QED  BY <2>1, Zenon
  <1>2. DOMAIN es = 1..n
    BY DEF Numbered
  <1>3. ASSUME NEW i \in 1..n, NEW j \in 1..n, i # j, es[i].sequence = es[j].sequence
        PROVE  SharesNumber(o, n)
    <2>0. PICK k \in 1..n : p[k] = i
      BY <1>1, Zenon DEF Rearranges
    <2>1. PICK l \in 1..n : p[k] = i /\ p[l] = j
      BY <1>1, <2>0, Zenon DEF Rearranges
    <2>2. k # l /\ o[k] = es[i] /\ o[l] = es[j]
      BY <1>1, <1>3, <2>1, Zenon
    <2>3. k < l \/ l < k
      BY <2>2
    <2> QED  BY <1>3, <2>2, <2>3, Zenon DEF SharesNumber
  <1>4. ASSUME NEW k \in 1..n, NEW l \in 1..n, k < l, o[k].sequence = o[l].sequence
        PROVE  \E i, j \in 1..n : i # j /\ es[i].sequence = es[j].sequence
    <2>1. k # l
      BY <1>4
    <2>2. p[k] # p[l] /\ p[k] \in 1..n /\ p[l] \in 1..n
      BY <1>1, <2>1 DEF Rearranges
    <2>3. o[k] = es[p[k]] /\ o[l] = es[p[l]]
      BY <1>1
    <2> QED  BY <1>4, <2>2, <2>3, Zenon
  <1> QED  BY <1>2, <1>3, <1>4, Zenon DEF SharesNumber

\* replay_ledger and replay_states of a ledger are readings of it in order.
LEMMA LedgerIsRead ==
    ASSUME NEW es, NEW n \in Nat, Numbered(es, n)
    PROVE  /\ \A reading : IsReading(Replayed(es, reading), BySequence(es), n, reading)
           /\ IsStatesReading(StatesAfter(es), BySequence(es), n)
  <1>1. ASSUME NEW reading
        PROVE  IsReading(Replayed(es, reading), BySequence(es), n, reading)
    <2>1. Len(es) = n
      BY DEF Numbered
    <2>2. PICK R : R = Replayed(es, reading)
      OBVIOUS
    <2>3. R[0] = ReplayStart /\ \A k \in 1..n : R[k] = ReplayStep(R[k - 1], BySequence(es)[k], reading)
      BY <2>1, <2>2, ReplayedTurns
    <2> QED  BY <2>2, <2>3, Zenon DEF IsReading
  <1>2. IsStatesReading(StatesAfter(es), BySequence(es), n)
    <2>1. PICK clash, T : /\ T = StatesAfter(es)
                          /\ clash = \E i, j \in DOMAIN es : i # j /\ es[i].sequence = es[j].sequence
      OBVIOUS
    <2>2. Len(es) = n
      BY DEF Numbered
    <2>3. /\ T[0] = [current_state |-> Program.initial_state, is_terminal |-> FALSE,
                     raised |-> clash]
          /\ \A k \in 1..n : T[k] = Follow(T[k - 1], BySequence(es)[k])
      BY <2>1, <2>2, StatesTurn, Zenon
    <2>4. /\ T[0].raised = clash /\ T[0].is_terminal = FALSE /\ T[0].current_state = Program.initial_state
          /\ DOMAIN T[0] = {"current_state", "is_terminal", "raised"}
      BY <2>3
    <2>5. T[0].raised <=> SharesNumber(BySequence(es), n)
      BY <2>1, <2>4, SortingKeepsNumbers, Zenon
    <2> QED  BY <2>1, <2>3, <2>4, <2>5, Zenon DEF IsStatesReading
  <1> QED  BY <1>1, <1>2

LEMMA StoredIsNumberedSequence ==
    ASSUME LifeInv
    PROVE  \E n \in Nat : Numbered(Stored, n) /\ n = Len(stored)
  BY StoredIsASequence, Zenon DEF Numbered

\* One ledger has one reading: replay_states, and replay_ledger strict or not,
\* agree on whether it is sound and, if so, on the state it derives.
THEOREM ReadingsAgree == Spec => []ReadersAgree
  <1>1. LifeInv => ReadersAgree
    <2> SUFFICES ASSUME LifeInv
                 PROVE  ReadersAgree
      OBVIOUS
    <2>1. PICK n \in Nat : Numbered(Stored, n)
      BY StoredIsNumberedSequence
    <2>2. PICK a, s, t : a = Audit /\ s = Strict /\ t = ReplayStates(Stored)
      OBVIOUS
    <2>3. SameReading(a, s) /\ SameStates(a, t)
      <3>1. /\ a = Replayed(Stored, "audit")[n] /\ s = Replayed(Stored, "strict")[n]
            /\ t = StatesAfter(Stored)[n]
        BY <2>1, <2>2, Zenon DEF Audit, Strict, ReplayLedger, ReplayStates, Numbered
      <3> QED  BY <2>1, <3>1, LedgerIsRead, ThreeReadings, Zenon
    <2>4. /\ s.raised <=> a.problems # {}
          /\ t.raised <=> s.raised
          /\ ~s.raised => /\ t.current_state = s.current_state
                          /\ t.is_terminal = s.is_terminal
                          /\ a.accepted = s.accepted
      BY <2>3 DEF SameReading, SameStates
    <2> QED  BY <2>2, <2>4, Zenon DEF ReadersAgree
  <1> QED  BY <1>1, LifeHolds, PTL


LEMMA LeastIsZero ==
    ASSUME NEW S, S \subseteq Nat, 0 \in S
    PROVE  Min(S) = 0
  <1>1. \A x \in S : 0 <= x
    OBVIOUS
  <1>2. Min(S) \in S /\ \A x \in S : Min(S) <= x
    BY <1>1 DEF Min
  <1>3. Min(S) \in Nat /\ Min(S) <= 0
    BY <1>2
  <1> QED  BY <1>3

\* Increasing numbers that begin at zero and leave none out count from zero.
LEMMA GapFree ==
    ASSUME NEW n \in Nat, NEW q \in [1..n -> Nat],
           \A k, l \in 1..n : k < l => q[k] < q[l],
           \E k \in 1..n : q[k] = 0,
           \A l \in 1..n : \A v \in 0..q[l] : \E m \in 1..n : q[m] = v
    PROVE  \A k \in 1..n : q[k] = k - 1
  <1> DEFINE Good == {k \in 0..n : k > 0 => q[k] = k - 1}
  <1>1. 0 \in Good
    OBVIOUS
  <1>2. ASSUME NEW k \in 1..n, k - 1 \in Good
        PROVE  k \in Good
    <2>1. CASE k = 1
      <3>1. PICK z \in 1..n : q[z] = 0
        OBVIOUS
      <3>2. q[1] \in Nat /\ (1 < z => q[1] < q[z])
        BY <2>1
      <3>3. z = 1
        BY <3>1, <3>2
      <3> QED  BY <2>1, <3>1, <3>3
    <2>2. CASE k > 1
      <3>1. k - 1 \in 1..n /\ q[k - 1] = k - 2 /\ q[k] \in Nat
        BY <1>2, <2>2
      <3>2. q[k - 1] < q[k]
        BY <3>1
      <3>3. k - 1 \in 0..q[k]
        BY <3>1, <3>2
      <3>4. PICK m \in 1..n : q[m] = k - 1
        BY <3>1, <3>3, Zenon
      <3>5. ~(m < k - 1) /\ m # k - 1
        BY <3>1, <3>4
      <3>6. ~(k < m)
        <4>1. k < m => q[k] < q[m]
          OBVIOUS
        <4> QED  BY <3>1, <3>2, <3>4, <4>1
      <3>7. m = k
        BY <3>5, <3>6
      <3> QED  BY <3>4, <3>7
    <2> QED  BY <2>1, <2>2
  <1>3. \A k \in 0..n : k \in Good
    <2> HIDE DEF Good
    <2> QED  BY <1>1, <1>2, AlongHistory
  <1> QED  BY <1>3

\* A ledger that has the first event and no gap holds, in order, the beginning
\* of what was emitted.
LEMMA OrderIsEmitted ==
    ASSUME LifeInv, Genuine, MissingSequences(Stored) = {}, NEW n \in Nat,
           Numbered(Stored, n), n = Len(stored),
           n # 0 => \E i \in DOMAIN stored : stored[i].event.sequence = 0
    PROVE  /\ n <= Len(emitted)
           /\ \A k \in 1..n : BySequence(Stored)[k] = emitted[k]
  <1>1. /\ DOMAIN stored = 1..n /\ DOMAIN Stored = 1..n
        /\ \A i \in 1..n : Stored[i] = stored[i].event /\ Stored[i].sequence \in Nat
    BY StoredIsASequence DEF Numbered
  <1>2. /\ emitted \in Seq(Event) /\ Len(emitted) \in Nat /\ DOMAIN emitted = 1..Len(emitted)
        /\ \A m \in 1..Len(emitted) : emitted[m].sequence = m - 1
    BY DEF LifeInv, IInv, TypeOK, EmittedIsALife
  <1>3. PICK id : id = [i \in 1..n |-> stored[i].event_id]
    OBVIOUS
  <1>4. \A i \in 1..n : /\ id[i] \in 1..Len(emitted) /\ Stored[i] = emitted[id[i]]
                        /\ Stored[i].sequence = id[i] - 1
    <2> SUFFICES ASSUME NEW i \in 1..n
                 PROVE  /\ id[i] \in 1..Len(emitted) /\ Stored[i] = emitted[id[i]]
                        /\ Stored[i].sequence = id[i] - 1
      OBVIOUS
    <2>1. id[i] = stored[i].event_id /\ stored[i].event_id \in DOMAIN emitted
      BY <1>1, <1>3 DEF LifeInv, IInv, TypeOK
    <2>2. Stored[i] = emitted[id[i]]
      BY <1>1, <2>1 DEF Genuine
    <2> QED  BY <1>2, <2>1, <2>2
  <1>5. \A i, j \in 1..n : id[i] = id[j] => i = j
    BY <1>1, <1>3 DEF LifeInv, IInv, OneBodyPerId
  <1>6. PICK o : o = BySequence(Stored)
    OBVIOUS
  <1>7. PICK p : /\ Rearranges(p, n) /\ \A k \in 1..n : o[k] = Stored[p[k]]
                 /\ \A k, l \in 1..n : k < l => Stored[p[k]].sequence <= Stored[p[l]].sequence
    <2>1. PICK p :
             /\ Rearranges(p, n) /\ \A k \in 1..n : BySequence(Stored)[k] = Stored[p[k]]
             /\ \A k, l \in 1..n : k < l => Stored[p[k]].sequence <= Stored[p[l]].sequence
      BY OrderRearranges, Zenon
    <2> QED  BY <1>6, <2>1, Zenon
  <1>8. \A k \in 1..n : p[k] \in 1..n
    BY <1>7 DEF Rearranges
  <1>9. PICK q : q = [k \in 1..n |-> id[p[k]] - 1]
    OBVIOUS
  <1>10. \A k \in 1..n : /\ q[k] \in Nat /\ q[k] = Stored[p[k]].sequence
                         /\ q[k] = id[p[k]] - 1 /\ o[k] = emitted[q[k] + 1] /\ q[k] + 1 \in 1..Len(emitted)
    <2> SUFFICES ASSUME NEW k \in 1..n
                 PROVE  /\ q[k] \in Nat /\ q[k] = Stored[p[k]].sequence
                        /\ q[k] = id[p[k]] - 1 /\ o[k] = emitted[q[k] + 1]
                        /\ q[k] + 1 \in 1..Len(emitted)
      OBVIOUS
    <2>1. PICK i \in 1..n : i = p[k]
      BY <1>8
    <2>2. q[k] = id[i] - 1 /\ o[k] = Stored[i]
      BY <1>7, <1>9, <2>1
    <2>3. id[i] \in 1..Len(emitted) /\ Stored[i] = emitted[id[i]] /\ Stored[i].sequence = id[i] - 1
      BY <1>4
    <2>4. q[k] + 1 = id[i]
      BY <2>2, <2>3
    <2> QED  BY <1>2, <2>1, <2>2, <2>3, <2>4
  <1>11. q \in [1..n -> Nat]
    BY <1>9, <1>10
  <1>12. ASSUME NEW k \in 1..n, NEW l \in 1..n, k < l
         PROVE  q[k] < q[l]
    <2>1. q[k] <= q[l]
      BY <1>7, <1>10, <1>12
    <2>2. k # l
      BY <1>12
    <2>3. p[k] # p[l]
      BY <1>7, <2>2 DEF Rearranges
    <2>4. id[p[k]] # id[p[l]]
      BY <1>5, <1>8, <2>3
    <2>5. id[p[k]] \in Nat /\ id[p[l]] \in Nat
      BY <1>2, <1>4, <1>8
    <2>6. q[k] # q[l]
      BY <1>10, <2>4, <2>5
    <2> QED  BY <1>10, <2>1, <2>6
  <1>13. ASSUME NEW i \in 1..n
         PROVE  \E k \in 1..n : q[k] = Stored[i].sequence
    <2>1. PICK k \in 1..n : p[k] = i
      BY <1>7, Zenon DEF Rearranges
    <2> QED  BY <1>10, <2>1
  <1>14. ASSUME NEW z \in 1..n, Stored[z].sequence = 0,
                NEW l \in 1..n, NEW v \in 0..q[l]
         PROVE  \E m \in 1..n : q[m] = v
    <2> DEFINE seqs == {Stored[i].sequence : i \in 1..n}
    <2>1. MissingSequences(Stored) = (UNION {Min(seqs)..j : j \in seqs}) \ seqs
      <3>1. DOMAIN Stored = 1..n
        BY <1>1
      <3> QED  BY <3>1, Zenon DEF MissingSequences
    <2>2. q[l] \in seqs /\ 0 \in seqs /\ seqs \subseteq Nat
      <3>1. p[l] \in 1..n /\ q[l] = Stored[p[l]].sequence
        BY <1>8, <1>10
      <3>2. \A i \in 1..n : Stored[i].sequence \in Nat
        BY <1>1, Zenon
      <3> QED  BY <1>14, <3>1, <3>2
    <2>3. ASSUME NEW s \in seqs
          PROVE  \E m \in 1..n : q[m] = s
      <3>1. PICK i \in 1..n : Stored[i].sequence = s
        OBVIOUS
      <3> QED  BY <1>13, <3>1
    <2> HIDE DEF seqs
    <2>4. v \in UNION {Min(seqs)..j : j \in seqs}
      <3>1. Min(seqs) = 0
        BY <2>2, LeastIsZero
      <3> QED  BY <2>2, <3>1
    <2>5. v \in seqs
      BY <2>1, <2>4, Zenon
    <2> QED  BY <2>3, <2>5
  <1>15. CASE n = 0
    BY <1>2, <1>15
  <1>16. CASE n # 0
    <2>0. PICK z \in 1..n : Stored[z].sequence = 0
      BY <1>1, <1>16
    <2>1. \E k \in 1..n : q[k] = 0
      BY <1>13, <2>0
    <2>2. \A k \in 1..n : q[k] = k - 1
      BY <1>11, <1>12, <1>14, <2>0, <2>1, GapFree
    <2>3. \A k \in 1..n : o[k] = emitted[k] /\ k \in 1..Len(emitted)
      <3> SUFFICES ASSUME NEW k \in 1..n
                   PROVE  o[k] = emitted[k] /\ k \in 1..Len(emitted)
        OBVIOUS
      <3>1. q[k] + 1 = k
        BY <2>2
      <3> QED  BY <1>10, <3>1
    <2>4. n \in 1..Len(emitted)
      BY <1>16, <2>3
    <2> QED  BY <1>2, <1>6, <2>3, <2>4
  <1> QED  BY <1>15, <1>16


\* The strict reading of the first k events of a life: it has raised nothing, has
\* taken just these and is where the k-th of them led.
Follows(r, k) ==
    /\ DOMAIN r = ReplayFields
    /\ ~r.raised
    /\ r.seen = 0..(k - 1)
    /\ r.current_state = IF k = 0 THEN Program.initial_state ELSE emitted[k].to_state
    /\ r.is_terminal <=> k # 0 /\ emitted[k].to_state \in Program.terminal
    /\ r.is_terminal => r.outcome = emitted[k].terminal_outcome
    /\ r.accepted \in Seq(Event)
    /\ Len(r.accepted) = k
    /\ \A i \in 1..k : r.accepted[i] = emitted[i]

LEMMA TurnFollows ==
    ASSUME LifeInv, NEW k \in 1..Len(emitted), NEW r, Follows(r, k - 1),
           NEW q, q = ReplayStep(r, emitted[k], "strict")
    PROVE  Follows(q, k)
  <1>1. /\ emitted \in Seq(Event) /\ Len(emitted) \in Nat /\ DOMAIN emitted = 1..Len(emitted)
    BY DEF LifeInv, IInv, TypeOK
  <1>2. PICK e \in Event : e = emitted[k]
    BY <1>1
  <1>3. /\ e.sequence = k - 1
        /\ PermittedBy(e, Program)
        /\ e.from_state = IF k = 1 THEN Program.initial_state ELSE emitted[k - 1].to_state
    BY <1>1, <1>2 DEF LifeInv, EmittedIsALife
  <1>4. /\ e.from_state \notin Program.terminal
        /\ e.to_state \in Program.terminal <=> e.terminal_outcome # None
    <2>1. e.from_state \notin Program.terminal
      BY <1>3, PermittedFollowsTransition, Zenon
    <2>2. e.to_state \in Program.terminal <=> e.terminal_outcome # None
      BY <1>3, Zenon DEF PermittedBy
    <2> QED  BY <2>1, <2>2
  <1>5. Problem(r, e) = "fits"
    <2>1. e.sequence \notin r.seen
      BY <1>3 DEF Follows
    <2>2. e.from_state = r.current_state /\ ~r.is_terminal
      BY <1>3, <1>4 DEF Follows
    <2>3. e.program_hash = Program.content_hash
      BY <1>3, Zenon DEF PermittedBy
    <2> QED  BY <1>3, <2>1, <2>2, <2>3, FittingEvent, Zenon
  <1>6. /\ DOMAIN q = ReplayFields
        /\ q.seen = r.seen \cup {e.sequence}
        /\ ~q.raised /\ q.current_state = e.to_state
        /\ q.is_terminal = (e.to_state \in Program.terminal)
        /\ q.outcome = IF e.terminal_outcome # None THEN e.terminal_outcome ELSE r.outcome
        /\ q.accepted = Append(r.accepted, e)
    <2>1. q = ReplayStep(r, e, "strict")
      BY <1>2
    <2>2. DOMAIN r = ReplayFields /\ ~r.raised
      BY DEF Follows
    <2> QED  BY <1>5, <2>1, <2>2, TurnOfFit
  <1>7. q.seen = 0..(k - 1)
    <2>1. r.seen = 0..((k - 1) - 1)
      BY DEF Follows
    <2>2. (0..((k - 1) - 1)) \cup {k - 1} = 0..(k - 1)
      OBVIOUS
    <2> QED  BY <1>3, <1>6, <2>1, <2>2
  <1>8. /\ q.accepted \in Seq(Event) /\ Len(q.accepted) = k
        /\ \A i \in 1..k : q.accepted[i] = emitted[i]
    <2>1. PICK m \in Nat : m = k - 1
      OBVIOUS
    <2>2. /\ r.accepted \in Seq(Event) /\ Len(r.accepted) = m
          /\ \A i \in 1..m : r.accepted[i] = emitted[i]
      BY <2>1 DEF Follows
    <2>3. PICK a : a = r.accepted
      OBVIOUS
    <2>4. /\ Append(a, e) \in Seq(Event) /\ Len(Append(a, e)) = m + 1
          /\ \A i \in 1..m : Append(a, e)[i] = emitted[i]
          /\ Append(a, e)[m + 1] = e
      BY <2>2, <2>3
    <2>5. k = m + 1 /\ \A i \in 1..k : i \in 1..m \/ i = m + 1
      BY <2>1
    <2> QED  BY <1>2, <1>6, <2>3, <2>4, <2>5
  <1>9. /\ q.is_terminal <=> e.to_state \in Program.terminal
        /\ q.is_terminal => q.outcome = e.terminal_outcome
    BY <1>4, <1>6
  <1> QED  BY <1>2, <1>6, <1>7, <1>8, <1>9 DEF Follows

\* A ledger that has the first event and no gap has one reading, the life of the
\* investigation so far: order and repetition of the deliveries do not matter.
LEMMA CompleteLedgerFollows ==
    ASSUME LifeInv, Genuine, MissingSequences(Stored) = {}, NEW n \in Nat,
           Numbered(Stored, n), n = Len(stored),
           n # 0 => \E i \in DOMAIN stored : stored[i].event.sequence = 0
    PROVE  n <= Len(emitted) /\ Follows(Strict, n)
  <1>1. /\ n <= Len(emitted)
        /\ \A k \in 1..n : BySequence(Stored)[k] = emitted[k]
    BY OrderIsEmitted
  <1>2. PICK R : R = Replayed(Stored, "strict")
    OBVIOUS
  <1>3. /\ R[0] = ReplayStart
        /\ \A k \in 1..n : R[k] = ReplayStep(R[k - 1], BySequence(Stored)[k], "strict")
    BY <1>2, LedgerIsRead, Zenon DEF IsReading
  <1> DEFINE Good == {k \in 0..n : Follows(R[k], k)}
  <1>4. 0 \in Good
    <2>1. << >> \in Seq(Event)
      OBVIOUS
    <2>2. Follows(ReplayStart, 0)
      BY <2>1 DEF Follows, ReplayStart, ReplayFields
    <2> QED  BY <1>3, <2>2
  <1>5. ASSUME NEW k \in 1..n, k - 1 \in Good
        PROVE  k \in Good
    <2>1. k \in 1..Len(emitted) /\ Follows(R[k - 1], k - 1)
      BY <1>1, <1>5 DEF LifeInv, IInv, TypeOK
    <2>2. R[k] = ReplayStep(R[k - 1], emitted[k], "strict")
      BY <1>1, <1>3
    <2>3. Follows(R[k], k)
      BY <2>1, <2>2, TurnFollows, Zenon
    <2> QED  BY <2>3
  <1>6. n \in Good
    <2>1. n \in 0..n
      OBVIOUS
    <2> HIDE DEF Good
    <2> QED  BY <1>4, <1>5, <2>1, AlongHistory
  <1>7. Strict = R[n]
    BY <1>2, Zenon DEF Strict, ReplayLedger, Numbered
  <1> QED  BY <1>1, <1>6, <1>7

\* CompleteLedgerReplays in every reachable state: the replay of a ledger without
\* gaps is the investigation itself.
THEOREM CompleteReplayHolds == Spec => []CompleteLedgerReplays
  <1>1. LifeInv => CompleteLedgerReplays
    <2> SUFFICES ASSUME LifeInv, Genuine,
                        stored = << >> \/ \E i \in DOMAIN stored : stored[i].event.sequence = 0,
                        MissingSequences(Stored) = {}
                 PROVE  /\ ~Strict.raised
                        /\ Strict.accepted = SubSeq(emitted, 1, Len(stored))
                        /\ Len(stored) = Len(emitted) =>
                              /\ Strict.current_state = CurrentState
                              /\ TerminalOutcomeOf(Strict) = ConcludedWith
      BY DEF CompleteLedgerReplays
    <2>1. PICK n \in Nat : Numbered(Stored, n) /\ n = Len(stored)
      BY StoredIsNumberedSequence
    <2>2. stored = << >> => n = 0
      BY <2>1
    <2>3. n <= Len(emitted) /\ Follows(Strict, n)
      BY <2>1, <2>2, CompleteLedgerFollows, Zenon
    <2>4. PICK s : s = Strict
      OBVIOUS
    <2>5. Follows(s, n)
      BY <2>3, <2>4
    <2>6. /\ emitted \in Seq(Event) /\ Len(emitted) \in Nat
          /\ emitted = << >> <=> Len(emitted) = 0
      BY DEF LifeInv, IInv, TypeOK
    <2>7. s.accepted = SubSeq(emitted, 1, n)
      BY <2>3, <2>5, <2>6 DEF Follows
    <2>8. ASSUME n = Len(emitted)
          PROVE  /\ s.current_state = CurrentState
                 /\ TerminalOutcomeOf(s) = ConcludedWith
      <3>1. CASE n = 0
        <4>1. emitted = << >>
          BY <2>6, <2>8, <3>1
        <4>2. s.current_state = Program.initial_state /\ ~s.is_terminal
          BY <2>5, <3>1 DEF Follows
        <4> QED  BY <4>1, <4>2 DEF CurrentState, ConcludedWith, TerminalOutcomeOf
      <3>2. CASE n # 0
        <4>1. emitted # << >> /\ Last(emitted) = emitted[n] /\ n \in DOMAIN emitted
          BY <2>6, <2>8, <3>2 DEF Last
        <4>2. PermittedBy(emitted[n], Program)
          BY <4>1 DEF LifeInv, EmittedIsALife
        <4>3. emitted[n].to_state \in Program.terminal <=> emitted[n].terminal_outcome # None
          BY <4>2, Zenon DEF PermittedBy
        <4>4. /\ s.current_state = emitted[n].to_state
              /\ s.is_terminal <=> emitted[n].to_state \in Program.terminal
              /\ s.is_terminal => s.outcome = emitted[n].terminal_outcome
          BY <2>5, <3>2 DEF Follows
        <4> QED  BY <4>1, <4>3, <4>4 DEF CurrentState, ConcludedWith, TerminalOutcomeOf
      <3> QED  BY <3>1, <3>2
    <2> QED  BY <2>1, <2>4, <2>5, <2>7, <2>8 DEF Follows
  <1> QED  BY <1>1, LifeHolds, PTL

-----------------------------------------------------------------------------
\* R[k] is what is kept of the first k: one more at every place in I.
KeepsAlong(R, s, I, n) ==
    /\ R[0] = << >>
    /\ \A k \in 1..n : R[k] = IF k \in I THEN Append(R[k - 1], s[k]) ELSE R[k - 1]

\* The selection of snapshot, changes and the readable lines, step by step.
LEMMA KeptTurns ==
    ASSUME NEW s, Len(s) \in Nat, NEW I
    PROVE  KeepsAlong(KeptAfter(s, I), s, I, Len(s))
  <1>n. PICK n \in Nat : n = Len(s)
    OBVIOUS
  <1>r. PICK R : R = KeptAfter(s, I)
    OBVIOUS
  <1> DEFINE Turn(f, k) == IF k = 0 THEN << >>
                           ELSE IF k \in I THEN Append(f[k - 1], s[k]) ELSE f[k - 1]
             Runs(f, m) == f = [k \in 0..m |-> Turn(f, k)]
             Turns == {m \in 0..n : \E f : Runs(f, m)}
  <1>1. R = CHOOSE f : Runs(f, n)
    BY <1>n, <1>r DEF KeptAfter
  <1>2. 0 \in Turns
    <2>1. PICK f : f = [k \in 0..0 |-> << >>]
      OBVIOUS
    <2>2. Runs(f, 0)
      BY <2>1
    <2> QED  BY <2>2
  <1>3. ASSUME NEW m \in 1..n, m - 1 \in Turns
        PROVE  m \in Turns
    <2>1. PICK f : Runs(f, m - 1)
      BY <1>3
    <2>2. PICK g : g = [k \in 0..m |-> Turn(f, k)]
      OBVIOUS
    <2>3. \A k \in 0..(m - 1) : g[k] = f[k]
      <3> HIDE DEF Turn
      <3> QED  BY <2>1, <2>2
    <2>4. \A k \in 0..m : Turn(f, k) = Turn(g, k)
      <3> SUFFICES ASSUME NEW k \in 0..m
                   PROVE  Turn(f, k) = Turn(g, k)
        OBVIOUS
      <3>1. k # 0 => g[k - 1] = f[k - 1]
        BY <2>3
      <3> QED  BY <3>1
    <2>5. Runs(g, m)
      <3> HIDE DEF Turn
      <3> QED  BY <2>2, <2>4
    <2> HIDE DEF Runs
    <2> QED  BY <2>5
  <1>4. \A m \in 0..n : m \in Turns
    <2> HIDE DEF Turns
    <2> QED  BY <1>2, <1>3, AlongHistory
  <1>5. R = [k \in 0..n |-> Turn(R, k)]
    <2> HIDE DEF Runs
    <2>0. n \in 0..n
      OBVIOUS
    <2>1. \E f : Runs(f, n)
      BY <1>4, <2>0
    <2>2. Runs(R, n)
      BY <1>1, <2>1
    <2> QED  BY <2>2 DEF Runs
  <1>6. R[0] = << >>
    BY <1>5
  <1>7. ASSUME NEW k \in 1..n
        PROVE  R[k] = Turn(R, k) /\ k # 0
    <2>1. k \in 0..n /\ k # 0
      OBVIOUS
    <2> HIDE DEF Turn
    <2> QED  BY <1>5, <2>1
  <1>8. KeepsAlong(R, s, I, n)
    BY <1>6, <1>7, Zenon DEF KeepsAlong
  <1> QED  BY <1>8, <1>n, <1>r

\* Appending adds a member.
LEMMA MembersOfAppend ==
    ASSUME NEW S, NEW s \in Seq(S), NEW x \in S
    PROVE  ToSet(Append(s, x)) = ToSet(s) \cup {x}
  <1>1. PICK t : t = Append(s, x)
    OBVIOUS
  <1>2. PICK n \in Nat : n = Len(s)
    OBVIOUS
  <1>3. DOMAIN t = 1..(n + 1) /\ DOMAIN s = 1..n
    BY <1>1, <1>2
  <1>4. t[n + 1] = x /\ \A i \in 1..n : t[i] = s[i]
    BY <1>1, <1>2
  <1>5. 1..(n + 1) = (1..n) \cup {n + 1}
    OBVIOUS
  <1> QED  BY <1>1, <1>3, <1>4, <1>5 DEF ToSet

\* What is kept are the members at the places of I.
LEMMA KeptMembers ==
    ASSUME NEW S, NEW s \in Seq(S), NEW I
    PROVE  /\ Keeping(s, I) \in Seq(S)
           /\ ToSet(Keeping(s, I)) = {s[i] : i \in (DOMAIN s) \cap I}
  <1>1. PICK R : R = KeptAfter(s, I)
    OBVIOUS
  <1>2. PICK n \in Nat : n = Len(s)
    OBVIOUS
  <1>3. /\ R[0] = << >>
        /\ \A k \in 1..n : R[k] = IF k \in I THEN Append(R[k - 1], s[k]) ELSE R[k - 1]
    <2>1. KeepsAlong(R, s, I, n)
      BY <1>1, <1>2, KeptTurns
    <2> QED  BY <2>1 DEF KeepsAlong
  <1> DEFINE Good == {k \in 0..n : R[k] \in Seq(S) /\ ToSet(R[k]) = {s[i] : i \in (1..k) \cap I}}
  <1>4. 0 \in Good
    <2>1. << >> \in Seq(S)
      OBVIOUS
    <2>2. ToSet(<< >>) = {}
      BY DEF ToSet
    <2>3. {s[i] : i \in (1..0) \cap I} = {}
      OBVIOUS
    <2>4. 0 \in 0..n /\ R[0] = << >>
      BY <1>3
    <2> QED  BY <2>1, <2>2, <2>3, <2>4
  <1>5. ASSUME NEW k \in 1..n, k - 1 \in Good
        PROVE  k \in Good
    <2>1. R[k - 1] \in Seq(S) /\ ToSet(R[k - 1]) = {s[i] : i \in (1..(k - 1)) \cap I}
      BY <1>5
    <2>2. s[k] \in S /\ 1..k = 1..(k - 1) \cup {k}
      BY <1>2
    <2>3. CASE k \in I
      <3>1. R[k] = Append(R[k - 1], s[k])
        BY <1>3, <2>3
      <3>2. ToSet(R[k]) = ToSet(R[k - 1]) \cup {s[k]}
        BY <2>1, <2>2, <3>1, MembersOfAppend
      <3>3. {s[i] : i \in (1..k) \cap I} = {s[i] : i \in (1..(k - 1)) \cap I} \cup {s[k]}
        BY <2>2, <2>3
      <3>4. R[k] \in Seq(S)
        BY <2>1, <2>2, <3>1
      <3>5. ToSet(R[k]) = {s[i] : i \in (1..k) \cap I}
        BY <2>1, <3>2, <3>3
      <3>6. k \in 0..n
        OBVIOUS
      <3> QED  BY <3>4, <3>5, <3>6
    <2>4. CASE k \notin I
      <3>1. R[k] = R[k - 1]
        BY <1>3, <2>4
      <3>2. (1..k) \cap I = (1..(k - 1)) \cap I
        BY <2>2, <2>4
      <3> QED  BY <2>1, <3>1, <3>2
    <2> QED  BY <2>3, <2>4
  <1>6. \A k \in 0..n : k \in Good
    <2> HIDE DEF Good
    <2> QED  BY <1>4, <1>5, AlongHistory
  <1>7. n \in Good
    <2>1. n \in 0..n
      OBVIOUS
    <2> HIDE DEF Good
    <2> QED  BY <1>6, <2>1
  <1>8. Keeping(s, I) = R[n] /\ DOMAIN s = 1..n
    BY <1>1, <1>2 DEF Keeping
  <1> QED  BY <1>7, <1>8

\* The first n places of two sequences are kept or not alike.
BeginAlike(s, t, I, J, n) ==
    \A k \in 1..n : (k \in I <=> k \in J) /\ (k \in I => s[k] = t[k])

\* Two sequences that begin alike, places and members, begin with the same kept.
LEMMA KeptAlike ==
    ASSUME NEW s, NEW t, NEW I, NEW J, NEW n \in Nat,
           Len(s) \in Nat, Len(t) \in Nat, n <= Len(s), n <= Len(t),
           BeginAlike(s, t, I, J, n)
    PROVE  KeptAfter(s, I)[n] = KeptAfter(t, J)[n]
  <1>1. PICK P : P = KeptAfter(s, I)
    OBVIOUS
  <1>2. PICK Q : Q = KeptAfter(t, J)
    OBVIOUS
  <1>3. /\ P[0] = << >>
        /\ \A k \in 1..Len(s) : P[k] = IF k \in I THEN Append(P[k - 1], s[k]) ELSE P[k - 1]
    <2>1. KeepsAlong(P, s, I, Len(s))
      BY <1>1, KeptTurns
    <2> QED  BY <2>1 DEF KeepsAlong
  <1>4. /\ Q[0] = << >>
        /\ \A k \in 1..Len(t) : Q[k] = IF k \in J THEN Append(Q[k - 1], t[k]) ELSE Q[k - 1]
    <2>1. KeepsAlong(Q, t, J, Len(t))
      BY <1>2, KeptTurns
    <2> QED  BY <2>1 DEF KeepsAlong
  <1> DEFINE Good == {k \in 0..n : P[k] = Q[k]}
  <1>5. 0 \in Good
    BY <1>3, <1>4
  <1>6. ASSUME NEW k \in 1..n, k - 1 \in Good
        PROVE  k \in Good
    <2>1. k \in 1..Len(s) /\ k \in 1..Len(t) /\ P[k - 1] = Q[k - 1]
      BY <1>6
    <2>2. (k \in I <=> k \in J) /\ (k \in I => s[k] = t[k])
      BY DEF BeginAlike
    <2>3. P[k] = IF k \in I THEN Append(P[k - 1], s[k]) ELSE P[k - 1]
      BY <1>3, <2>1
    <2>4. Q[k] = IF k \in J THEN Append(Q[k - 1], t[k]) ELSE Q[k - 1]
      BY <1>4, <2>1
    <2>5. P[k] = Q[k]
      BY <2>1, <2>2, <2>3, <2>4, Zenon
    <2> QED  BY <2>5
  <1>7. \A k \in 0..n : k \in Good
    <2> HIDE DEF Good
    <2> QED  BY <1>5, <1>6, AlongHistory
  <1>8. n \in Good
    <2>1. n \in 0..n
      OBVIOUS
    <2> HIDE DEF Good
    <2> QED  BY <1>7, <2>1
  <1> QED  BY <1>1, <1>2, <1>8

\* One more member is kept or not, and what was kept before stays.
LEMMA KeptOfAppend ==
    ASSUME NEW S, NEW s \in Seq(S), NEW x \in S, NEW I, NEW J,
           \A k \in 1..Len(s) : k \in I <=> k \in J
    PROVE  Keeping(Append(s, x), J) =
               IF Len(s) + 1 \in J THEN Append(Keeping(s, I), x) ELSE Keeping(s, I)
  <1>1. PICK n \in Nat : n = Len(s)
    OBVIOUS
  <1>2. PICK t : t = Append(s, x)
    OBVIOUS
  <1>3. Len(t) = n + 1 /\ t[n + 1] = x /\ \A k \in 1..n : t[k] = s[k]
    BY <1>1, <1>2
  <1>4. KeptAfter(s, I)[n] = KeptAfter(t, J)[n]
    <2>1. BeginAlike(s, t, I, J, n)
      BY <1>1, <1>3 DEF BeginAlike
    <2> QED  BY <1>1, <1>3, <2>1, KeptAlike
  <1>5. PICK Q : Q = KeptAfter(t, J)
    OBVIOUS
  <1>6. \A k \in 1..(n + 1) : Q[k] = IF k \in J THEN Append(Q[k - 1], t[k]) ELSE Q[k - 1]
    <2>1. KeepsAlong(Q, t, J, n + 1)
      BY <1>3, <1>5, KeptTurns
    <2> QED  BY <2>1 DEF KeepsAlong
  <1>7. Q[n + 1] = IF n + 1 \in J THEN Append(Q[n], x) ELSE Q[n]
    <2>1. n + 1 \in 1..(n + 1) /\ (n + 1) - 1 = n
      OBVIOUS
    <2> QED  BY <1>3, <1>6, <2>1
  <1>8. Keeping(t, J) = Q[n + 1] /\ Keeping(s, I) = Q[n]
    BY <1>1, <1>3, <1>4, <1>5 DEF Keeping
  <1> QED  BY <1>1, <1>2, <1>7, <1>8

-----------------------------------------------------------------------------
\* A line of the file: what was written on it, and whether it was ended.
Line == [pieces : Seq(Row \cup {Part}), ended : BOOLEAN]

\* x is on some line of the file.
OnFile(lines, x) ==
    \E i \in DOMAIN lines : \E j \in DOMAIN lines[i].pieces : lines[i].pieces[j] = x

\* The two ways in which x comes onto the file: on a line of its own, or behind
\* what a death left on the last line.
LineAdded(new, lines, x, line) ==
    new = Append(lines, line) /\ line \in Line /\ line.pieces = <<x>>

LineJoined(new, lines, x) ==
    \E n \in DOMAIN lines : \E line \in Line :
        /\ n = Len(lines)
        /\ ~lines[n].ended
        /\ new = [lines EXCEPT ![n] = line]
        /\ line.pieces = Append(lines[n].pieces, x)

StoreTypeOK ==
    /\ clock \in 1..MaxClock
    /\ open \subseteq Openers
    /\ memory \in [Openers -> Seq(Row)]
    /\ disk \in Seq(Line)
    /\ acked \subseteq Row

\* Nothing acknowledged has left the file, and no line is blank.
StoreInv ==
    /\ StoreTypeOK
    /\ \A i \in DOMAIN disk : disk[i].pieces # << >>
    /\ \A r \in acked : OnFile(disk, r)

-----------------------------------------------------------------------------
\* What append stores is a row, known at a reading of the clock or at the stamp
\* it came with; a fragment is no row.
LEMMA StampedIsRow ==
    ASSUME clock \in 1..MaxClock, NEW e \in Events, NEW known \in Supplied \cup {0},
           NEW r, r = Stamped(e, known)
    PROVE  r \in Row /\ r.event_id = e.event_id /\ r.body = e.body
           /\ r.known_at = IF known = 0 THEN clock ELSE known
  <1>1. PICK at : at = IF known = 0 THEN clock ELSE known
    OBVIOUS
  <1>2. at \in 1..MaxClock
    BY <1>1, SuppliedAssumption
  <1>3. r = Kept(e, at)
    BY <1>1, Zenon DEF Stamped
  <1>4. r \in Row
    BY <1>2, <1>3 DEF Row
  <1>5. r.event_id = e.event_id /\ r.body = e.body /\ r.known_at = at
    BY <1>3 DEF Kept
  <1> QED  BY <1>1, <1>4, <1>5, Zenon

\* What every row is made of.
LEMMA RowIsKept ==
    ASSUME NEW r \in Row
    PROVE  /\ r.known_at \in 1..MaxClock
           /\ \E e \in Events : r.event_id = e.event_id /\ r.body = e.body
  <1>1. PICK e \in Events, at \in 1..MaxClock : r = Kept(e, at)
    BY DEF Row
  <1>2. r.event_id = e.event_id /\ r.body = e.body /\ r.known_at = at
    BY <1>1, Zenon DEF Kept
  <1> QED  BY <1>2

LEMMA PartIsNoRow == Part \notin Row
  <1>1. Part.known_at = 0
    BY Zenon DEF Part, Kept
  <1> QED  BY <1>1, RowIsKept

\* Writing adds a line, or joins the last line when it was never ended.
LEMMA WrittenTwoWays ==
    ASSUME NEW lines \in Seq(Line), NEW x \in Row \cup {Part}, NEW ended \in BOOLEAN,
           NEW new, new = Written(lines, <<x>>, ended)
    PROVE  \/ LineAdded(new, lines, x, [pieces |-> <<x>>, ended |-> ended])
           \/ LineJoined(new, lines, x)
  <1>0. <<x>> \in Seq(Row \cup {Part})
    OBVIOUS
  <1>1. CASE lines # << >> /\ ~lines[Len(lines)].ended
    <2>1. PICK n : n = Len(lines)
      OBVIOUS
    <2>2. n \in DOMAIN lines /\ n \in Nat
      BY <1>1, <2>1
    <2>3. PICK old : old = lines[n]
      OBVIOUS
    <2> old \in Line
      BY <2>2, <2>3
    <2>4. old.pieces \in Seq(Row \cup {Part})
      BY DEF Line
    <2>5. PICK line : line = [pieces |-> old.pieces \o <<x>>, ended |-> ended]
      OBVIOUS
    <2>6. line.pieces = old.pieces \o <<x>>
      BY <2>5, Zenon
    <2>7. old.pieces \o <<x>> = Append(old.pieces, x)
      BY <2>4
    <2>8. Append(old.pieces, x) \in Seq(Row \cup {Part})
      BY <2>4
    <2>9. line \in Line
      BY <2>5, <2>7, <2>8, Zenon DEF Line
    <2>10. new = [lines EXCEPT ![n] = line]
      BY <1>1, <2>1, <2>3, <2>5, Zenon DEF Written
    <2>11. ~lines[n].ended
      BY <1>1, <2>1
    <2> QED  BY <2>1, <2>2, <2>3, <2>6, <2>7, <2>9, <2>10, <2>11, Zenon DEF LineJoined
  <1>2. CASE ~(lines # << >> /\ ~lines[Len(lines)].ended)
    <2>1. new = Append(lines, [pieces |-> <<x>>, ended |-> ended])
      BY <1>2, Zenon DEF Written
    <2>2. [pieces |-> <<x>>, ended |-> ended] \in Line
      BY <1>0, Zenon DEF Line
    <2>3. [pieces |-> <<x>>, ended |-> ended].pieces = <<x>>
      BY Zenon
    <2> QED  BY <2>1, <2>2, <2>3, Zenon DEF LineAdded
  <1> QED  BY <1>1, <1>2, Zenon

\* Whichever way, nothing is taken off the file.
LEMMA AddedKeepsFile ==
    ASSUME NEW lines \in Seq(Line), NEW x \in Row \cup {Part}, NEW new, NEW line,
           LineAdded(new, lines, x, line)
    PROVE  /\ new \in Seq(Line)
           /\ \A y : OnFile(new, y) <=> (OnFile(lines, y) \/ y = x)
           /\ (\A i \in DOMAIN lines : lines[i].pieces # << >>)
                => \A i \in DOMAIN new : new[i].pieces # << >>
           /\ Torn(lines) => Torn(new)
  <1>1. PICK n \in Nat : n = Len(lines)
    OBVIOUS
  <1>2. line \in Line /\ line.pieces = <<x>> /\ new = Append(lines, line)
    BY DEF LineAdded
  <1>3. new \in Seq(Line) /\ Len(new) = n + 1
    BY <1>1, <1>2
  <1>4. /\ DOMAIN new = (1..n) \cup {n + 1} /\ DOMAIN lines = 1..n
        /\ new[n + 1] = line /\ \A i \in 1..n : new[i] = lines[i]
    BY <1>1, <1>2
  <1>5. DOMAIN <<x>> = {1} /\ <<x>>[1] = x /\ <<x>> # << >>
    OBVIOUS
  <1>6. ASSUME NEW y
        PROVE  OnFile(new, y) <=> (OnFile(lines, y) \/ y = x)
    <2>1. OnFile(lines, y) => OnFile(new, y)
      BY <1>4, Zenon DEF OnFile
    <2>2. OnFile(new, x)
      <3>1. n + 1 \in DOMAIN new /\ new[n + 1].pieces = <<x>>
        BY <1>2, <1>4
      <3>2. 1 \in DOMAIN new[n + 1].pieces /\ new[n + 1].pieces[1] = x
        BY <1>5, <3>1
      <3> QED  BY <3>1, <3>2, Zenon DEF OnFile
    <2>3. OnFile(new, y) => OnFile(lines, y) \/ y = x
      <3> SUFFICES ASSUME NEW i \in DOMAIN new, NEW j \in DOMAIN new[i].pieces,
                          new[i].pieces[j] = y
                   PROVE  OnFile(lines, y) \/ y = x
        BY DEF OnFile
      <3>1. CASE i \in 1..n
        BY <1>4, <3>1, Zenon DEF OnFile
      <3>2. CASE i = n + 1
        BY <1>2, <1>4, <1>5, <3>2
      <3> QED  BY <1>4, <3>1, <3>2
    <2> QED  BY <2>1, <2>2, <2>3
  <1>7. (\A i \in DOMAIN lines : lines[i].pieces # << >>)
            => \A i \in DOMAIN new : new[i].pieces # << >>
    BY <1>2, <1>4, <1>5
  <1>8. Torn(lines) => Torn(new)
    BY <1>4, Zenon DEF Torn
  <1> QED  BY <1>3, <1>6, <1>7, <1>8

\* Joining the last line tears it.
LEMMA JoinedKeepsFile ==
    ASSUME NEW lines \in Seq(Line), NEW x \in Row \cup {Part}, NEW new,
           LineJoined(new, lines, x)
    PROVE  /\ new \in Seq(Line)
           /\ \A y : OnFile(new, y) <=> (OnFile(lines, y) \/ y = x)
           /\ (\A i \in DOMAIN lines : lines[i].pieces # << >>)
                => /\ \A i \in DOMAIN new : new[i].pieces # << >>
                   /\ Torn(new)
  <1>1. PICK n \in DOMAIN lines : \E line \in Line :
            /\ n = Len(lines)
            /\ ~lines[n].ended
            /\ new = [lines EXCEPT ![n] = line]
            /\ line.pieces = Append(lines[n].pieces, x)
    BY Zenon DEF LineJoined
  <1>2. PICK line \in Line :
            /\ n = Len(lines)
            /\ ~lines[n].ended
            /\ new = [lines EXCEPT ![n] = line]
            /\ line.pieces = Append(lines[n].pieces, x)
    BY <1>1, Zenon
  <1>3. PICK old \in Seq(Row \cup {Part}) : old = lines[n].pieces
    <2>1. lines[n] \in Line
      OBVIOUS
    <2> QED  BY <2>1 DEF Line
  <1>4. PICK k \in Nat : k = Len(old)
    OBVIOUS
  <1>5. /\ DOMAIN line.pieces = (DOMAIN old) \cup {k + 1} /\ line.pieces[k + 1] = x
        /\ Len(line.pieces) = k + 1
        /\ \A j \in DOMAIN old : line.pieces[j] = old[j]
    BY <1>2, <1>3, <1>4
  <1>6. /\ new \in Seq(Line) /\ DOMAIN new = DOMAIN lines
        /\ new[n] = line /\ \A i \in DOMAIN lines : i # n => new[i] = lines[i]
    BY <1>2
  <1>7. ASSUME NEW y
        PROVE  OnFile(new, y) <=> (OnFile(lines, y) \/ y = x)
    <2>1. OnFile(lines, y) => OnFile(new, y)
      <3> SUFFICES ASSUME NEW i \in DOMAIN lines, NEW j \in DOMAIN lines[i].pieces,
                          lines[i].pieces[j] = y
                   PROVE  OnFile(new, y)
        BY DEF OnFile
      <3>1. CASE i = n
        <4>1. j \in DOMAIN line.pieces /\ line.pieces[j] = y
          BY <1>3, <1>5, <3>1
        <4> QED  BY <1>6, <4>1, Zenon DEF OnFile
      <3>2. CASE i # n
        BY <1>6, <3>2, Zenon DEF OnFile
      <3> QED  BY <3>1, <3>2
    <2>2. OnFile(new, x)
      BY <1>5, <1>6, Zenon DEF OnFile
    <2>3. OnFile(new, y) => OnFile(lines, y) \/ y = x
      <3> SUFFICES ASSUME NEW i \in DOMAIN new, NEW j \in DOMAIN new[i].pieces,
                          new[i].pieces[j] = y, y # x
                   PROVE  OnFile(lines, y)
        BY DEF OnFile
      <3>1. CASE i = n
        <4>1. j \in DOMAIN lines[n].pieces /\ lines[n].pieces[j] = y
          BY <1>3, <1>5, <1>6, <3>1
        <4> QED  BY <4>1, Zenon DEF OnFile
      <3>2. CASE i # n
        BY <1>6, <3>2, Zenon DEF OnFile
      <3> QED  BY <3>1, <3>2
    <2> QED  BY <2>1, <2>2, <2>3
  <1>8. ASSUME \A i \in DOMAIN lines : lines[i].pieces # << >>
        PROVE  /\ \A i \in DOMAIN new : new[i].pieces # << >>
               /\ Torn(new)
    <2>1. old # << >>
      BY <1>3, <1>8
    <2>2. k # 0
      BY <1>3, <1>4, <2>1
    <2>3. Len(line.pieces) # 1 /\ line.pieces # << >>
      BY <1>4, <1>5, <2>2
    <2>4. Torn(new)
      BY <1>6, <2>3, Zenon DEF Torn, Loads
    <2> QED  BY <1>6, <1>8, <2>3, <2>4
  <1> QED  BY <1>6, <1>7, <1>8

\* The members of the documents of lines that load.
LEMMA DocumentsMembers ==
    ASSUME NEW lines \in Seq(Line), NEW I, \A i \in (DOMAIN lines) \cap I : Loads(lines[i])
    PROVE  /\ Documents(lines, I) \in Seq(Row)
           /\ ToSet(Documents(lines, I)) = {lines[i].pieces[1] : i \in (DOMAIN lines) \cap I}
  <1>1. PICK kept : kept = Keeping(lines, I)
    OBVIOUS
  <1>2. /\ kept \in Seq(Line)
        /\ ToSet(kept) = {lines[i] : i \in (DOMAIN lines) \cap I}
    BY <1>1, KeptMembers
  <1>3. \A i \in DOMAIN kept : kept[i].pieces[1] \in Row
    <2> SUFFICES ASSUME NEW i \in DOMAIN kept
                 PROVE  kept[i].pieces[1] \in Row
      OBVIOUS
    <2>1. kept[i] \in Line /\ kept[i] \in ToSet(kept)
      BY <1>2 DEF ToSet
    <2>2. Loads(kept[i])
      BY <1>2, <2>1
    <2>3. kept[i].pieces \in Seq(Row \cup {Part}) /\ Len(kept[i].pieces) = 1
          /\ kept[i].pieces[1] # Part
      BY <2>1, <2>2 DEF Line, Loads
    <2> QED  BY <2>3
  <1>4. Documents(lines, I) = [i \in DOMAIN kept |-> kept[i].pieces[1]]
    BY <1>1, Zenon DEF Documents
  <1>5. Documents(lines, I) \in Seq(Row)
    BY <1>2, <1>3, <1>4
  <1>6. ToSet(Documents(lines, I)) = {l.pieces[1] : l \in ToSet(kept)}
    BY <1>4 DEF ToSet
  <1>7. ToSet(Documents(lines, I)) = {lines[i].pieces[1] : i \in (DOMAIN lines) \cap I}
    BY <1>2, <1>6
  <1> QED  BY <1>5, <1>7

-----------------------------------------------------------------------------
NoBlank(lines) == \A i \in DOMAIN lines : lines[i].pieces # << >>

\* x came onto the file, and nothing left it.
Grows(lines, new, x) ==
    /\ new \in Seq(Line)
    /\ NoBlank(new)
    /\ \A y : OnFile(new, y) <=> (OnFile(lines, y) \/ y = x)

LEMMA WriteGrows ==
    ASSUME NEW lines \in Seq(Line), NoBlank(lines), NEW x \in Row \cup {Part},
           NEW ended \in BOOLEAN, NEW new, new = Written(lines, <<x>>, ended)
    PROVE  /\ Grows(lines, new, x)
           /\ Torn(lines) => Torn(new)
           /\ \/ LineAdded(new, lines, x, [pieces |-> <<x>>, ended |-> ended])
              \/ LineJoined(new, lines, x) /\ Torn(new)
  <1>1. \/ LineAdded(new, lines, x, [pieces |-> <<x>>, ended |-> ended])
        \/ LineJoined(new, lines, x)
    BY WrittenTwoWays, Zenon
  <1>2. CASE LineAdded(new, lines, x, [pieces |-> <<x>>, ended |-> ended])
    <2>1. PICK line : LineAdded(new, lines, x, line)
      BY <1>2
    <2>2. /\ new \in Seq(Line)
          /\ \A y : OnFile(new, y) <=> (OnFile(lines, y) \/ y = x)
          /\ NoBlank(new)
          /\ Torn(lines) => Torn(new)
      BY <2>1, AddedKeepsFile, Zenon DEF NoBlank
    <2> QED  BY <1>2, <2>2, Zenon DEF Grows
  <1>3. CASE LineJoined(new, lines, x)
    <2>1. /\ new \in Seq(Line)
          /\ \A y : OnFile(new, y) <=> (OnFile(lines, y) \/ y = x)
          /\ NoBlank(new) /\ Torn(new)
      BY <1>3, JoinedKeepsFile, Zenon DEF NoBlank
    <2> QED  BY <1>3, <2>1, Zenon DEF Grows
  <1> QED  BY <1>1, <1>2, <1>3, Zenon

\* A death in append leaves the file as it was, or grown by a fragment or a row.
LEMMA DeathGrows ==
    ASSUME StoreInv, NEW p \in Openers, NEW e \in Events, NEW known \in Supplied \cup {0},
           NEW remnant \in Remnants, DieInAppend(p, e, known, remnant)
    PROVE  \/ disk' = disk
           \/ \E x \in {Part, Stamped(e, known)} :
                 /\ x \in Row \cup {Part}
                 /\ \E ended \in BOOLEAN : disk' = Written(disk, <<x>>, ended)
  <1>1. remnant \in {"none", "part", "all"}
    BY RemnantsAssumption
  <1>2. Stamped(e, known) \in Row
    <2>1. PICK r : r = Stamped(e, known)
      OBVIOUS
    <2>2. r \in Row
      BY <2>1, StampedIsRow DEF StoreInv, StoreTypeOK
    <2> QED  BY <2>1, <2>2
  <1>3. CASE remnant = "none"
    BY <1>3, Zenon DEF DieInAppend
  <1>4. CASE remnant = "part"
    <2>1. "part" # "none"
      OBVIOUS
    <2>2. disk' = Written(disk, <<Part>>, FALSE)
      BY <1>4, <2>1, Zenon DEF DieInAppend
    <2>3. Part \in Row \cup {Part}
      OBVIOUS
    <2> QED  BY <2>2, <2>3, Zenon
  <1>5. CASE remnant = "all"
    <2>1. "all" # "none" /\ "all" # "part"
      OBVIOUS
    <2>2. disk' = Written(disk, <<Stamped(e, known)>>, FALSE)
      BY <1>5, <2>1, Zenon DEF DieInAppend
    <2> QED  BY <1>2, <2>2, Zenon
  <1> QED  BY <1>1, <1>3, <1>4, <1>5

\* A store that opens holds the rows of the file.
LEMMA ReadableRows ==
    ASSUME NEW lines \in Seq(Line), ~Torn(lines)
    PROVE  /\ Readable(lines) \in Seq(Row)
           /\ \A x : OnFile(lines, x) <=> x \in ToSet(Readable(lines))
  <1> DEFINE I == {i \in DOMAIN lines : Loads(lines[i])}
  <1>1. I = DOMAIN lines
    BY Zenon DEF Torn
  <1>2. \A i \in (DOMAIN lines) \cap I : Loads(lines[i])
    OBVIOUS
  <1>3. Readable(lines) = Documents(lines, I)
    BY Zenon DEF Readable
  <1>4. /\ Readable(lines) \in Seq(Row)
        /\ ToSet(Readable(lines)) = {lines[i].pieces[1] : i \in (DOMAIN lines) \cap I}
    <2> HIDE DEF I
    <2> QED  BY <1>2, <1>3, DocumentsMembers
  <1>5. \A i \in DOMAIN lines : DOMAIN lines[i].pieces = {1}
    <2> SUFFICES ASSUME NEW i \in DOMAIN lines
                 PROVE  DOMAIN lines[i].pieces = {1}
      OBVIOUS
    <2>1. lines[i] \in Line /\ Len(lines[i].pieces) = 1
      BY <1>1 DEF Loads
    <2>2. lines[i].pieces \in Seq(Row \cup {Part})
      BY <2>1 DEF Line
    <2> QED  BY <2>1, <2>2
  <1>6. ASSUME NEW x
        PROVE  OnFile(lines, x) <=> x \in ToSet(Readable(lines))
    <2>1. OnFile(lines, x) <=> \E i \in DOMAIN lines : lines[i].pieces[1] = x
      BY <1>5, Zenon DEF OnFile
    <2> HIDE DEF I
    <2> QED  BY <1>1, <1>4, <2>1
  <1> QED  BY <1>4, <1>6

-----------------------------------------------------------------------------
\* An empty file has lost nothing.
LEMMA InitStoreInv == StoreInit => StoreInv
  <1> SUFFICES ASSUME StoreInit
               PROVE  StoreInv
    OBVIOUS
  <1>1. << >> \in Seq(Row) /\ << >> \in Seq(Line)
    OBVIOUS
  <1>2. StoreTypeOK
    BY <1>1, BoundsAssumption DEF StoreInit, StoreTypeOK
  <1> QED  BY <1>2 DEF StoreInit, StoreInv

\* The file of a state in which append or a death in it wrote x.
LEMMA GrownStoreInv ==
    ASSUME StoreInv, NEW x, Grows(disk, disk', x),
           clock' = clock, open' \subseteq Openers, memory' \in [Openers -> Seq(Row)],
           acked' \subseteq Row, acked' \subseteq acked \cup {x}
    PROVE  StoreInv'
  <1>1. StoreTypeOK'
    BY DEF StoreInv, StoreTypeOK, Grows
  <1>2. \A r \in acked' : OnFile(disk', r)
    BY DEF StoreInv, Grows
  <1> QED  BY <1>1, <1>2 DEF StoreInv, Grows, NoBlank

\* The same in a state of the store.
LEMMA StampedInv ==
    ASSUME StoreInv, NEW e \in Events, NEW known \in Supplied \cup {0}
    PROVE  Stamped(e, known) \in Row
  <1>1. PICK r : r = Stamped(e, known)
    OBVIOUS
  <1>2. r \in Row
    BY <1>1, StampedIsRow DEF StoreInv, StoreTypeOK
  <1> QED  BY <1>1, <1>2

\* No step takes an acknowledged row off the file.
LEMMA NextStoreInv == StoreInv /\ [StoreNext]_storeVars => StoreInv'
  <1> SUFFICES ASSUME StoreInv, [StoreNext]_storeVars
               PROVE  StoreInv'
    OBVIOUS
  <1> USE DEF StoreInv
  <1>0. NoBlank(disk)
    BY DEF NoBlank
  <1>1. CASE UNCHANGED storeVars
    BY <1>1 DEF storeVars, StoreTypeOK
  <1>2. CASE Tick
    BY <1>2, BoundsAssumption DEF Tick, StoreTypeOK
  <1>3. ASSUME NEW p \in Openers, Open(p)
        PROVE  StoreInv'
    <2>1. Readable(disk) \in Seq(Row)
      BY <1>3, ReadableRows DEF Open, StoreTypeOK
    <2> QED  BY <1>3, <2>1 DEF Open, StoreTypeOK
  <1>4. ASSUME NEW p \in Openers, Exit(p)
        PROVE  StoreInv'
    <2>1. << >> \in Seq(Row)
      OBVIOUS
    <2> QED  BY <1>4, <2>1 DEF Exit, StoreTypeOK
  <1>5. ASSUME NEW p \in Openers, NEW e \in Events, NEW known \in Supplied \cup {0}
        PROVE  /\ AppendRow(p, e, known) => StoreInv'
               /\ AppendRefused(p, e, known) => StoreInv'
               /\ \A remnant \in Remnants : DieInAppend(p, e, known, remnant) => StoreInv'
    <2>1. PICK r \in Row : r = Stamped(e, known)
      BY StampedInv
    <2>2. memory[p] \in Seq(Row) /\ Append(memory[p], r) \in Seq(Row)
      BY DEF StoreTypeOK
    <2>3. ASSUME AppendRow(p, e, known)
          PROVE  StoreInv'
      <3>1. /\ memory' = [memory EXCEPT ![p] = Append(memory[p], r)]
            /\ disk' = Written(disk, <<r>>, TRUE)
            /\ acked' = acked \cup {r}
            /\ clock' = clock /\ open' = open
        BY <2>1, <2>3, Zenon DEF AppendRow
      <3>2. Grows(disk, disk', r)
        <4>1. disk \in Seq(Line) /\ r \in Row \cup {Part}
          BY DEF StoreTypeOK
        <4> QED  BY <1>0, <3>1, <4>1, WriteGrows, Zenon
      <3>3. memory' \in [Openers -> Seq(Row)]
        BY <2>2, <3>1 DEF StoreTypeOK
      <3>4. /\ open' \subseteq Openers /\ acked' \subseteq Row
            /\ acked' \subseteq acked \cup {r}
        BY <3>1 DEF StoreTypeOK
      <3> HIDE DEF StoreInv
      <3> QED  BY <3>1, <3>2, <3>3, <3>4, GrownStoreInv
    <2>4. ASSUME AppendRefused(p, e, known)
          PROVE  StoreInv'
      <3>1. /\ memory' = [memory EXCEPT ![p] = Append(memory[p], r)]
            /\ UNCHANGED <<clock, open, disk, acked>>
        BY <2>1, <2>4, Zenon DEF AppendRefused
      <3> QED  BY <2>2, <3>1 DEF StoreTypeOK
    <2>5. ASSUME NEW remnant \in Remnants, DieInAppend(p, e, known, remnant)
          PROVE  StoreInv'
      <3>1. /\ memory' = [memory EXCEPT ![p] = << >>] /\ open' = open \ {p}
            /\ UNCHANGED <<clock, acked>>
        BY <2>5, Zenon DEF DieInAppend
      <3>2. memory' \in [Openers -> Seq(Row)] /\ open' \subseteq Openers
        <4>1. << >> \in Seq(Row)
          OBVIOUS
        <4> QED  BY <3>1, <4>1 DEF StoreTypeOK
      <3>3. CASE disk' = disk
        BY <3>1, <3>2, <3>3 DEF StoreTypeOK
      <3>4. CASE disk' # disk
        <4> HIDE DEF StoreInv
        <4>1. PICK x \in {Part, Stamped(e, known)} :
                 /\ x \in Row \cup {Part}
                 /\ \E ended \in BOOLEAN : disk' = Written(disk, <<x>>, ended)
          BY <2>5, <3>4, DeathGrows, Zenon
        <4>2. disk \in Seq(Line)
          BY DEF StoreInv, StoreTypeOK
        <4>3. Grows(disk, disk', x)
          BY <1>0, <4>1, <4>2, WriteGrows, Zenon
        <4>4. acked' \subseteq Row /\ acked' \subseteq acked \cup {x} /\ clock' = clock
          BY <3>1 DEF StoreInv, StoreTypeOK
        <4> QED  BY <3>2, <4>3, <4>4, GrownStoreInv
      <3> QED  BY <3>3, <3>4
    <2> QED  BY <2>3, <2>4, <2>5
  <1> QED
    <2> HIDE DEF StoreInv
    <2> QED  BY <1>1, <1>2, <1>3, <1>4, <1>5, Zenon DEF StoreNext

\* What was acknowledged never leaves the file: only tearing can hide it.
THEOREM StoreInvariant == StoreSpec => []StoreInv
  <1> QED  BY InitStoreInv, NextStoreInv, PTL DEF StoreSpec

\* A row on a file without a torn line can be read.
LEMMA StoreInvImplies == StoreInv => OnlyATornLineLosesRows
  <1> SUFFICES ASSUME StoreInv, ~Torn(disk)
               PROVE  acked \subseteq ToSet(Readable(disk))
    BY DEF OnlyATornLineLosesRows
  <1>1. disk \in Seq(Line) /\ \A r \in acked : OnFile(disk, r)
    BY DEF StoreInv, StoreTypeOK
  <1>2. \A x : OnFile(disk, x) <=> x \in ToSet(Readable(disk))
    BY <1>1, ReadableRows
  <1> QED  BY <1>1, <1>2

\* An envelope whose append returned is in the file, or a line of the file is
\* torn, however many openers there are and whatever writes were refused.
THEOREM OnlyTearingLoses == StoreSpec => []OnlyATornLineLosesRows
  <1> QED  BY StoreInvariant, StoreInvImplies, PTL

\* A store that opens answers with everything ever acknowledged.
THEOREM NoSilentHole == StoreSpec => OpenSeesEverythingAcknowledged
  <1>1. StoreInv /\ [StoreNext]_storeVars =>
            [\A p \in Openers : p \notin open /\ p \in open' =>
                acked \subseteq ToSet(memory'[p])]_storeVars
    <2> SUFFICES ASSUME StoreInv, StoreNext, NEW p \in Openers, p \notin open, p \in open'
                 PROVE  acked \subseteq ToSet(memory'[p])
      BY Zenon
    <2>1. Open(p)
      <3>1. ~Tick
        BY DEF Tick
      <3>2. \A q \in Openers : ~Exit(q)
        BY DEF Exit
      <3>3. \A q \in Openers, e \in Events, known \in Supplied \cup {0} :
               /\ ~AppendRow(q, e, known) /\ ~AppendRefused(q, e, known)
               /\ \A remnant \in Remnants : ~DieInAppend(q, e, known, remnant)
        BY Zenon DEF AppendRow, AppendRefused, DieInAppend
      <3>4. \A q \in Openers : q # p => ~Open(q)
        BY DEF Open
      <3> QED  BY <3>1, <3>2, <3>3, <3>4, Zenon DEF StoreNext
    <2>2. OnlyATornLineLosesRows
      BY StoreInvImplies
    <2>3. memory'[p] = Readable(disk) /\ ~Torn(disk)
      BY <2>1 DEF Open, StoreInv, StoreTypeOK
    <2> QED  BY <2>2, <2>3 DEF OnlyATornLineLosesRows
  <1> QED  BY <1>1, StoreInvariant, PTL DEF StoreSpec, OpenSeesEverythingAcknowledged

-----------------------------------------------------------------------------
\* I and J have the same places up to n.
AlikeUpTo(I, J, n) == \A k \in 1..n : k \in I <=> k \in J

\* f is docs, m long, with x at its end.
Longer(f, docs, x, m) == f = [i \in 1..(m + 1) |-> IF i = m + 1 THEN x ELSE docs[i]]

LEMMA AppendIsLonger ==
    ASSUME NEW T, NEW docs \in Seq(T), NEW x \in T, NEW m, m = Len(docs)
    PROVE  Longer(Append(docs, x), docs, x, m)
  <1>1. PICK longer : longer = Append(docs, x)
    OBVIOUS
  <1>2. m \in Nat
    OBVIOUS
  <1>3. longer \in Seq(T) /\ Len(longer) = m + 1
    BY <1>1
  <1>4. longer[m + 1] = x /\ \A i \in 1..m : longer[i] = docs[i]
    BY <1>1
  <1>5. longer = [i \in 1..(m + 1) |-> longer[i]]
    BY <1>2, <1>3
  <1>6. \A i \in 1..(m + 1) : longer[i] = IF i = m + 1 THEN x ELSE docs[i]
    BY <1>2, <1>4
  <1> QED  BY <1>1, <1>5, <1>6 DEF Longer

\* A line of its own gives a document more, or none.
LEMMA AddedDocuments ==
    ASSUME NEW lines \in Seq(Line), NEW x, NEW new, NEW line, LineAdded(new, lines, x, line),
           NEW I, NEW J, AlikeUpTo(I, J, Len(lines))
    PROVE  Documents(new, J) = IF Len(new) \in J THEN Append(Documents(lines, I), x)
                               ELSE Documents(lines, I)
  <1>1. PICK n \in Nat : n = Len(lines)
    OBVIOUS
  <1>2. line \in Line /\ line.pieces = <<x>> /\ new = Append(lines, line) /\ Len(new) = n + 1
    BY <1>1 DEF LineAdded
  <1>3. PICK before : before = Keeping(lines, I)
    OBVIOUS
  <1>4. PICK after : after = Keeping(new, J)
    OBVIOUS
  <1>5. after = IF n + 1 \in J THEN Append(before, line) ELSE before
    <2>1. \A k \in 1..Len(lines) : k \in I <=> k \in J
      BY DEF AlikeUpTo
    <2>2. Keeping(Append(lines, line), J) =
              IF Len(lines) + 1 \in J THEN Append(Keeping(lines, I), line) ELSE Keeping(lines, I)
      BY <1>2, <2>1, KeptOfAppend
    <2> QED  BY <1>1, <1>2, <1>3, <1>4, <2>2
  <1>6. before \in Seq(Line)
    BY <1>3, KeptMembers
  <1>7. /\ Documents(lines, I) = [i \in DOMAIN before |-> before[i].pieces[1]]
        /\ Documents(new, J) = [i \in DOMAIN after |-> after[i].pieces[1]]
    BY <1>3, <1>4, Zenon DEF Documents
  <1>8. CASE n + 1 \in J
    <2>1. PICK m \in Nat : m = Len(before)
      BY <1>6
    <2>2. /\ DOMAIN before = 1..m /\ DOMAIN after = 1..(m + 1)
          /\ after[m + 1] = line /\ \A i \in 1..m : after[i] = before[i]
      BY <1>2, <1>5, <1>6, <1>8, <2>1
    <2>3. line.pieces[1] = x
      BY <1>2
    <2>4. PICK docs : docs = Documents(lines, I)
      OBVIOUS
    <2>5. docs = [i \in 1..m |-> before[i].pieces[1]]
      BY <1>7, <2>2, <2>4
    <2>6. Append(docs, x) = [i \in 1..(m + 1) |-> IF i = m + 1 THEN x ELSE docs[i]]
      <3>1. PICK T : T = {before[i].pieces[1] : i \in 1..m} \cup {x}
        OBVIOUS
      <3>2. docs \in Seq(T) /\ m = Len(docs) /\ x \in T
        BY <2>1, <2>5, <3>1
      <3>3. Longer(Append(docs, x), docs, x, m)
        BY <3>2, AppendIsLonger, Zenon
      <3> QED  BY <3>3 DEF Longer
    <2>7. \A i \in 1..(m + 1) : after[i].pieces[1] = IF i = m + 1 THEN x ELSE docs[i]
      BY <2>1, <2>2, <2>3, <2>5
    <2>8. Documents(new, J) = [i \in 1..(m + 1) |-> IF i = m + 1 THEN x ELSE docs[i]]
      BY <1>7, <2>2, <2>7
    <2>9. Len(new) \in J
      BY <1>2, <1>8
    <2> QED  BY <2>4, <2>6, <2>8, <2>9
  <1>9. CASE n + 1 \notin J
    BY <1>2, <1>5, <1>7, <1>9
  <1> QED  BY <1>8, <1>9

\* What joins the last line is no document of its own.
LEMMA JoinedDocuments ==
    ASSUME NEW lines \in Seq(Line), NEW x, NEW new, LineJoined(new, lines, x),
           NEW I, NEW J, AlikeUpTo(I, J, Len(lines)), Len(lines) \notin I
    PROVE  Documents(new, J) = Documents(lines, I)
  <1>1. PICK n \in Nat : n = Len(lines)
    OBVIOUS
  <1>2. PICK line \in Line : new = [lines EXCEPT ![n] = line] /\ n \in DOMAIN lines
    BY <1>1, Zenon DEF LineJoined
  <1>3. Len(new) = n /\ \A k \in 1..n : k # n => new[k] = lines[k]
    BY <1>1, <1>2
  <1>4. BeginAlike(lines, new, I, J, n)
    BY <1>1, <1>3 DEF BeginAlike, AlikeUpTo
  <1>5. KeptAfter(lines, I)[n] = KeptAfter(new, J)[n]
    BY <1>1, <1>3, <1>4, KeptAlike
  <1>6. Keeping(lines, I) = Keeping(new, J)
    BY <1>1, <1>3, <1>5 DEF Keeping
  <1> QED  BY <1>6, Zenon DEF Documents

\* The places of the lines that were ended and load.
Whole(lines) == {i \in DOMAIN lines : lines[i].ended /\ Loads(lines[i])}

\* Writing adds a row to the end of the log, or leaves the log alone.
LEMMA WriteExtendsLog ==
    ASSUME NEW lines \in Seq(Line), NoBlank(lines), NEW x \in Row \cup {Part},
           NEW ended \in BOOLEAN, NEW new, new = Written(lines, <<x>>, ended)
    PROVE  \/ Documents(new, Whole(new)) = Documents(lines, Whole(lines))
           \/ /\ x \in Row
              /\ Documents(new, Whole(new)) = Append(Documents(lines, Whole(lines)), x)
  <1>1. \/ LineAdded(new, lines, x, [pieces |-> <<x>>, ended |-> ended])
        \/ LineJoined(new, lines, x)
    BY WrittenTwoWays, Zenon
  <1>2. ASSUME NEW line, LineAdded(new, lines, x, line)
        PROVE  \/ Documents(new, Whole(new)) = Documents(lines, Whole(lines))
               \/ /\ x \in Row
                  /\ Documents(new, Whole(new)) = Append(Documents(lines, Whole(lines)), x)
    <2>1. PICK n \in Nat : n = Len(lines)
      OBVIOUS
    <2>2. line \in Line /\ line.pieces = <<x>> /\ new = Append(lines, line)
      BY <1>2 DEF LineAdded
    <2>3. Len(new) = n + 1 /\ new[n + 1] = line /\ \A k \in 1..n : new[k] = lines[k]
      <3>1. new \in Seq(Line) /\ Len(new) = n + 1
        BY <2>1, <2>2
      <3>2. new[n + 1] = line /\ \A i \in 1..n : new[i] = lines[i]
        BY <2>1, <2>2
      <3> QED  BY <3>1, <3>2
    <2>4. DOMAIN lines = 1..n /\ DOMAIN new = 1..(n + 1) /\ \A k \in 1..n : k \in 1..(n + 1)
      BY <2>1, <2>2
    <2>5. AlikeUpTo(Whole(lines), Whole(new), Len(lines))
      BY <2>1, <2>3, <2>4, Zenon DEF AlikeUpTo, Whole
    <2>6. Documents(new, Whole(new)) =
              IF Len(new) \in Whole(new) THEN Append(Documents(lines, Whole(lines)), x)
              ELSE Documents(lines, Whole(lines))
      BY <1>2, <2>5, AddedDocuments
    <2>7. n + 1 \in Whole(new) => x \in Row
      <3>1. n + 1 \in Whole(new) => line.pieces[1] # Part
        BY <2>3, Zenon DEF Whole, Loads
      <3>2. line.pieces[1] = x
        BY <2>2
      <3> QED  BY <3>1, <3>2
    <2> QED  BY <2>3, <2>6, <2>7
  <1>3. CASE LineJoined(new, lines, x)
    <2>1. PICK n \in DOMAIN lines : \E line \in Line :
              /\ n = Len(lines)
              /\ ~lines[n].ended
              /\ new = [lines EXCEPT ![n] = line]
              /\ line.pieces = Append(lines[n].pieces, x)
      BY <1>3, Zenon DEF LineJoined
    <2>2. PICK line \in Line :
              /\ n = Len(lines)
              /\ ~lines[n].ended
              /\ new = [lines EXCEPT ![n] = line]
              /\ line.pieces = Append(lines[n].pieces, x)
      BY <2>1, Zenon
    <2>3. PICK old \in Seq(Row \cup {Part}) : old = lines[n].pieces
      <3>1. lines[n] \in Line
        OBVIOUS
      <3> QED  BY <3>1 DEF Line
    <2>4. Len(line.pieces) # 1
      <3>1. old # << >>
        BY <2>3 DEF NoBlank
      <3>2. Len(old) # 0 /\ Len(old) \in Nat
        BY <2>3, <3>1
      <3>3. Len(line.pieces) = Len(old) + 1
        BY <2>2, <2>3
      <3> QED  BY <3>2, <3>3
    <2>5. /\ DOMAIN new = DOMAIN lines /\ DOMAIN lines = 1..n /\ n \in Nat
          /\ new[n] = line /\ \A k \in 1..n : k # n => new[k] = lines[k]
      BY <2>2
    <2>6. Len(lines) \notin Whole(lines)
      BY <2>2, Zenon DEF Whole
    <2>7. n \notin Whole(new)
      BY <2>4, <2>5, Zenon DEF Whole, Loads
    <2>8. AlikeUpTo(Whole(lines), Whole(new), Len(lines))
      BY <2>2, <2>5, <2>6, <2>7, Zenon DEF AlikeUpTo, Whole
    <2> QED  BY <1>3, <2>6, <2>8, JoinedDocuments
  <1> QED  BY <1>1, <1>2, <1>3, Zenon

\* The empty file is the empty log.
LEMMA EmptyLog == Documents(<< >>, Whole(<< >>)) = << >>
  <1>1. << >> \in Seq(Line) /\ DOMAIN << >> = {}
    OBVIOUS
  <1>2. PICK lines \in Seq(Line) : lines = << >>
    BY <1>1
  <1>3. PICK I : I = Whole(lines)
    OBVIOUS
  <1>4. \A i \in (DOMAIN lines) \cap I : Loads(lines[i])
    BY <1>1, <1>2
  <1>5. PICK docs \in Seq(Row) : docs = Documents(lines, I)
    BY <1>4, DocumentsMembers
  <1>6. ToSet(docs) = {}
    <2>1. ToSet(docs) = {lines[i].pieces[1] : i \in (DOMAIN lines) \cap I}
      BY <1>4, <1>5, DocumentsMembers
    <2> QED  BY <1>1, <1>2, <2>1
  <1>7. docs = << >>
    <2>1. \A i \in DOMAIN docs : docs[i] \in ToSet(docs)
      BY Zenon DEF ToSet
    <2>2. DOMAIN docs = {}
      BY <1>6, <2>1
    <2> QED  BY <1>5, <2>2
  <1> QED  BY <1>2, <1>3, <1>5, <1>7

\* The store implements the contract of its seam: the ended lines of the file
\* are a log that only grows at its end, one row at a time.
THEOREM FileIsTheLog == StoreSpec => LogIsAppendOnly
  <1> DEFINE log == Documents(disk, {i \in DOMAIN disk : disk[i].ended /\ Loads(disk[i])})
  <1>0. log = Documents(disk, Whole(disk)) /\ log' = Documents(disk', Whole(disk'))
    BY Zenon DEF Whole
  <1>1. StoreInit => Contract!Init
    <2> SUFFICES ASSUME StoreInit
                 PROVE  log = << >>
      BY DEF Contract!Init
    <2>1. disk = << >>
      BY DEF StoreInit
    <2> QED  BY <1>0, <2>1, EmptyLog
  <1>2. StoreInv /\ [StoreNext]_storeVars => [Contract!Next]_(log)
    <2> SUFFICES ASSUME StoreInv, [StoreNext]_storeVars
                 PROVE  log' = log \/ \E r \in Row : log' = Append(log, r)
      BY DEF Contract!Next, Contract!Append1
    <2>1. disk \in Seq(Line) /\ NoBlank(disk)
      BY DEF StoreInv, StoreTypeOK, NoBlank
    <2>2. CASE disk' = disk
      <3>1. log' = log
        BY <1>0, <2>2
      <3> QED  BY <3>1
    <2>3. ASSUME NEW x \in Row \cup {Part}, NEW ended \in BOOLEAN,
                 disk' = Written(disk, <<x>>, ended)
          PROVE  log' = log \/ \E r \in Row : log' = Append(log, r)
      <3>1. \/ log' = log
            \/ x \in Row /\ log' = Append(log, x)
        <4> HIDE DEF log
        <4> QED  BY <1>0, <2>1, <2>3, WriteExtendsLog, Zenon
      <3> HIDE DEF log
      <3> QED  BY <3>1
    <2>4. ASSUME NEW p \in Openers, NEW e \in Events, NEW known \in Supplied \cup {0},
                 AppendRow(p, e, known)
          PROVE  log' = log \/ \E r \in Row : log' = Append(log, r)
      <3>1. PICK r \in Row : r = Stamped(e, known)
        BY StampedInv
      <3>2. disk' = Written(disk, <<r>>, TRUE)
        BY <2>4, <3>1, Zenon DEF AppendRow
      <3> HIDE DEF log
      <3>3. r \in Row \cup {Part}
        OBVIOUS
      <3> QED  BY <2>3, <3>2, <3>3, Zenon
    <2>5. ASSUME NEW p \in Openers, NEW e \in Events, NEW known \in Supplied \cup {0},
                 NEW remnant \in Remnants, DieInAppend(p, e, known, remnant)
          PROVE  log' = log \/ \E r \in Row : log' = Append(log, r)
      <3> HIDE DEF log
      <3> QED  BY <2>2, <2>3, <2>5, DeathGrows, Zenon
    <2>6. \A p \in Openers : Open(p) \/ Exit(p) => disk' = disk
      BY DEF Open, Exit
    <2>7. \A p \in Openers, e \in Events, known \in Supplied \cup {0} :
             AppendRefused(p, e, known) => disk' = disk
      BY Zenon DEF AppendRefused
    <2>8. UNCHANGED storeVars \/ Tick => disk' = disk
      BY DEF storeVars, Tick
    <2> HIDE DEF log
    <2> QED  BY <2>2, <2>4, <2>5, <2>6, <2>7, <2>8, Zenon DEF StoreNext
  <1> QED  BY <1>1, <1>2, StoreInvariant, PTL DEF StoreSpec, LogIsAppendOnly, Contract!Spec

-----------------------------------------------------------------------------
\* Names are true: an id that is the hash of a content names that content.
NamesAreTrue == \A e, f \in Events : e.event_id = f.body => e.body = f.body

\* The row at the first of the places found.
FirstOf(rows, found) == {rows[i] : i \in {j \in found : \A k \in found : j <= k}}

\* There is a first of the places found, and only one.
LEMMA FirstOfFound ==
    ASSUME NEW rows, NEW found, found \subseteq Nat, found # {}
    PROVE  \E i \in found : (\A k \in found : i <= k) /\ FirstOf(rows, found) = {rows[i]}
  <1>1. PICK i \in found : \A k \in found : i <= k
    BY Least
  <1>2. {j \in found : \A k \in found : j <= k} = {i}
    <2>1. ASSUME NEW j \in found, \A k \in found : j <= k
          PROVE  j = i
      <3>1. j <= i /\ i <= j /\ i \in Nat /\ j \in Nat
        BY <1>1, <2>1
      <3> QED  BY <3>1
    <2> QED  BY <1>1, <2>1, Zenon
  <1>3. FirstOf(rows, found) = {rows[i]}
    BY <1>2 DEF FirstOf
  <1> QED  BY <1>1, <1>3

\* A reference that names an occurrence is answered with that occurrence.
LEMMA NamedIsAnswered ==
    ASSUME NEW rows \in Seq(Row), NEW ref, NEW r \in ToSet(rows), r.event_id = ref,
           NEW found \in Resolve(rows, ref)
    PROVE  found.event_id = ref
  <1>1. Named(rows, ref) # {}
    BY DEF ToSet, Named
  <1>2. Resolve(rows, ref) = FirstOf(rows, Named(rows, ref))
    BY <1>1, Zenon DEF Resolve, FirstOf
  <1>3. \A x \in FirstOf(rows, Named(rows, ref)) : \E i \in Named(rows, ref) : x = rows[i]
    BY Zenon DEF FirstOf
  <1>4. PICK i \in Named(rows, ref) : found = rows[i]
    BY <1>2, <1>3
  <1> QED  BY <1>4 DEF Named

\* A row more at the end takes no answer away.
LEMMA AppendKeepsContents ==
    ASSUME NamesAreTrue, NEW rows \in Seq(Row), NEW r \in Row, NEW ref, NEW after,
           after = Append(rows, r)
    PROVE  Contents(rows, ref) \subseteq Contents(after, ref)
  <1>1. PICK n \in Nat : n = Len(rows)
    OBVIOUS
  <1>2. /\ DOMAIN rows = 1..n /\ DOMAIN after = (1..n) \cup {n + 1}
        /\ after[n + 1] = r /\ \A i \in 1..n : after[i] = rows[i]
    BY <1>1
  <1>3. \A i \in DOMAIN rows : rows[i] \in Row
    OBVIOUS
  <1>4. \A i \in 1..n : i <= n + 1
    OBVIOUS
  <1>5. CASE Named(rows, ref) # {}
    <2>1. Named(rows, ref) \subseteq Nat
      BY <1>2 DEF Named
    <2>2. PICK i \in Named(rows, ref) :
              (\A k \in Named(rows, ref) : i <= k)
              /\ FirstOf(rows, Named(rows, ref)) = {rows[i]}
      BY <1>5, <2>1, FirstOfFound
    <2>3. Named(rows, ref) \subseteq Named(after, ref)
      BY <1>2 DEF Named
    <2>4. Named(after, ref) \subseteq Named(rows, ref) \cup {n + 1}
      BY <1>2 DEF Named
    <2>5. i \in 1..n
      BY <1>2 DEF Named
    <2>6. \A k \in Named(after, ref) : i <= k
      BY <1>4, <2>2, <2>4, <2>5
    <2>7. after[i] \in FirstOf(after, Named(after, ref))
      BY <2>2, <2>3, <2>6 DEF FirstOf
    <2>8. Named(after, ref) # {}
      BY <2>2, <2>3
    <2>9. /\ Resolve(rows, ref) = FirstOf(rows, Named(rows, ref))
          /\ Resolve(after, ref) = FirstOf(after, Named(after, ref))
      BY <1>5, <2>8, Zenon DEF Resolve, FirstOf
    <2> QED  BY <1>2, <2>2, <2>5, <2>7, <2>9 DEF Contents
  <1>6. CASE Named(rows, ref) = {} /\ Holding(rows, ref) = {}
    <2>1. Resolve(rows, ref) = FirstOf(rows, {})
      BY <1>6, Zenon DEF Resolve, FirstOf
    <2>2. FirstOf(rows, {}) = {}
      BY DEF FirstOf
    <2> QED  BY <2>1, <2>2 DEF Contents
  <1>7. CASE Named(rows, ref) = {} /\ Holding(rows, ref) # {}
    <2>1. PICK h \in DOMAIN rows : rows[h].body = ref
      BY <1>7 DEF Holding
    <2>2. Contents(rows, ref) \subseteq {ref}
      <3>1. Resolve(rows, ref) = FirstOf(rows, Holding(rows, ref))
        BY <1>7, Zenon DEF Resolve, FirstOf
      <3>2. \A x \in FirstOf(rows, Holding(rows, ref)) : x.body = ref
        BY DEF FirstOf, Holding
      <3> QED  BY <3>1, <3>2 DEF Contents
    <2>3. ref \in Contents(after, ref)
      <3>1. CASE Named(after, ref) # {}
        <4>1. Named(after, ref) \subseteq Nat
          BY <1>2 DEF Named
        <4>2. PICK i \in Named(after, ref) : FirstOf(after, Named(after, ref)) = {after[i]}
          BY <3>1, <4>1, FirstOfFound
        <4>3. i = n + 1
          BY <1>2, <1>7, <4>2 DEF Named
        <4>4. r.event_id = rows[h].body
          BY <1>2, <2>1, <4>3 DEF Named
        <4>5. PICK e \in Events : r.event_id = e.event_id /\ r.body = e.body
          BY RowIsKept
        <4>6. PICK f \in Events : rows[h].body = f.body
          BY <1>3, <2>1, RowIsKept
        <4>7. r.body = ref
          BY <2>1, <4>4, <4>5, <4>6 DEF NamesAreTrue
        <4>8. Resolve(after, ref) = {r}
          <5>1. Resolve(after, ref) = FirstOf(after, Named(after, ref))
            BY <3>1, Zenon DEF Resolve, FirstOf
          <5> QED  BY <1>2, <4>2, <4>3, <5>1
        <4> QED  BY <4>7, <4>8 DEF Contents
      <3>2. CASE Named(after, ref) = {}
        <4>1. Holding(after, ref) \subseteq Nat /\ h \in Holding(after, ref)
          BY <1>2, <2>1 DEF Holding
        <4>2. PICK i \in Holding(after, ref) :
                  FirstOf(after, Holding(after, ref)) = {after[i]}
          BY <4>1, FirstOfFound
        <4>3. Resolve(after, ref) = {after[i]}
          <5>1. Resolve(after, ref) = FirstOf(after, Holding(after, ref))
            BY <3>2, Zenon DEF Resolve, FirstOf
          <5> QED  BY <4>2, <5>1
        <4>4. after[i].body = ref
          BY <4>2 DEF Holding
        <4> QED  BY <4>3, <4>4 DEF Contents
      <3> QED  BY <3>1, <3>2
    <2> QED  BY <2>2, <2>3
  <1> QED  BY <1>5, <1>6, <1>7

\* So an append keeps the answers, and so does what leaves the rows alone.
LEMMA AppendKeepsAnswers ==
    ASSUME NamesAreTrue, NEW rows \in Seq(Row), NEW r \in Row, NEW after,
           after = Append(rows, r)
    PROVE  KeepsAnswers(rows, after)
  <1>1. after \in Seq(Row)
    OBVIOUS
  <1>2. \A ref \in References : Contents(rows, ref) \subseteq Contents(after, ref)
    BY AppendKeepsContents
  <1>3. \A ref \in References : \A x \in ToSet(after) :
           x.event_id = ref => \A found \in Resolve(after, ref) : found.event_id = ref
    BY <1>1, NamedIsAnswered
  <1> QED  BY <1>2, <1>3, Zenon DEF KeepsAnswers

LEMMA SameKeepsAnswers ==
    ASSUME NEW rows \in Seq(Row), NEW after, after = rows
    PROVE  KeepsAnswers(rows, after)
  <1>1. \A ref \in References : \A x \in ToSet(after) :
           x.event_id = ref => \A found \in Resolve(after, ref) : found.event_id = ref
    BY NamedIsAnswered
  <1> QED  BY <1>1, Zenon DEF KeepsAnswers

\* What is learned later is not in the plane as it was known before.
LEMMA SnapshotStays ==
    ASSUME NEW rows \in Seq(Row), NEW r \in Row, NEW t \in Nat, t < r.known_at,
           NEW after, after = Append(rows, r)
    PROVE  Snapshot(after, t) = Snapshot(rows, t)
  <1> DEFINE I == {i \in DOMAIN rows : rows[i].known_at <= t}
             J == {i \in DOMAIN after : after[i].known_at <= t}
  <1>1. PICK n \in Nat : n = Len(rows)
    OBVIOUS
  <1>2. /\ DOMAIN rows = 1..n /\ DOMAIN after = (1..n) \cup {n + 1}
        /\ after[n + 1] = r /\ \A i \in 1..n : after[i] = rows[i]
    BY <1>1
  <1>3. \A k \in 1..Len(rows) : k \in I <=> k \in J
    BY <1>1, <1>2
  <1>4. Len(rows) + 1 \notin J
    <2>1. r.known_at \in Nat
      BY RowIsKept, BoundsAssumption
    <2>2. ~(r.known_at <= t)
      BY <2>1
    <2> QED  BY <1>1, <1>2, <2>2
  <1>5. Keeping(after, J) = Keeping(rows, I)
    <2> HIDE DEF I, J
    <2> QED  BY <1>3, <1>4, KeptOfAppend
  <1> QED  BY <1>5, Zenon DEF Snapshot

\* Whoever opens the file later has the answers of whoever opens it now.
LEMMA WriteKeepsReadable ==
    ASSUME NamesAreTrue, NEW lines \in Seq(Line), NoBlank(lines), NEW x \in Row \cup {Part},
           NEW ended \in BOOLEAN, NEW new, new = Written(lines, <<x>>, ended), ~Torn(new)
    PROVE  KeepsAnswers(Readable(lines), Readable(new))
  <1>1. /\ ~Torn(lines) /\ new \in Seq(Line)
        /\ LineAdded(new, lines, x, [pieces |-> <<x>>, ended |-> ended])
    BY WriteGrows, Zenon DEF Grows
  <1>2. PICK line : LineAdded(new, lines, x, line)
    BY <1>1
  <1> DEFINE I == {i \in DOMAIN lines : Loads(lines[i])}
             J == {i \in DOMAIN new : Loads(new[i])}
  <1>3. PICK n \in Nat : n = Len(lines)
    OBVIOUS
  <1>4. I = 1..n /\ J = 1..Len(new) /\ Len(new) = n + 1
    <2>1. I = DOMAIN lines /\ J = DOMAIN new
      BY <1>1, Zenon DEF Torn
    <2>2. Len(new) = n + 1
      BY <1>2, <1>3 DEF LineAdded
    <2> HIDE DEF I, J
    <2> QED  BY <1>1, <1>3, <2>1, <2>2
  <1>5. Readable(lines) = Documents(lines, I) /\ Readable(new) = Documents(new, J)
    BY Zenon DEF Readable
  <1>6. Readable(new) = Append(Readable(lines), x)
    <2> HIDE DEF I, J
    <2>1. AlikeUpTo(I, J, Len(lines)) /\ Len(new) \in J
      BY <1>3, <1>4 DEF AlikeUpTo
    <2> QED  BY <1>2, <1>5, <2>1, AddedDocuments
  <1>7. Readable(lines) \in Seq(Row)
    BY <1>1, ReadableRows
  <1>8. x \in Row
    <2>1. OnFile(new, x)
      BY <1>2, AddedKeepsFile
    <2>2. Readable(new) \in Seq(Row) /\ x \in ToSet(Readable(new))
      BY <1>1, <2>1, ReadableRows
    <2> QED  BY <2>2 DEF ToSet
  <1> QED  BY <1>6, <1>7, <1>8, AppendKeepsAnswers

\* The stamps are the store's own, and names are true: then no answer is ever
\* taken back.
THEOREM AnswersAreKept ==
    ASSUME Supplied = {}, NamesAreTrue
    PROVE  StoreSpec => AnswersStay
  <1> DEFINE Stays == /\ \A p \in open \cap open' :
                            /\ KeepsAnswers(memory[p], memory'[p])
                            /\ \A t \in 1..(clock - 1) :
                                  Snapshot(memory'[p], t) = Snapshot(memory[p], t)
                      /\ ~Torn(disk') => KeepsAnswers(Readable(disk), Readable(disk'))
  <1>1. StoreInv /\ [StoreNext]_storeVars => [Stays]_storeVars
    <2> SUFFICES ASSUME StoreInv, StoreNext
                 PROVE  Stays
      BY Zenon
    <2>1. /\ clock \in Nat /\ disk \in Seq(Line) /\ NoBlank(disk)
          /\ open \subseteq Openers /\ memory \in [Openers -> Seq(Row)]
      BY BoundsAssumption DEF StoreInv, StoreTypeOK, NoBlank
    <2>2. ASSUME NEW p \in open \cap open', memory'[p] = memory[p]
          PROVE  /\ KeepsAnswers(memory[p], memory'[p])
                 /\ \A t \in 1..(clock - 1) : Snapshot(memory'[p], t) = Snapshot(memory[p], t)
      <3>1. memory[p] \in Seq(Row)
        BY <2>1
      <3> QED  BY <2>2, <3>1, SameKeepsAnswers, Zenon
    <2>3. ASSUME NEW p \in open \cap open', NEW e \in Events,
                 memory'[p] = Append(memory[p], Stamped(e, 0))
          PROVE  /\ KeepsAnswers(memory[p], memory'[p])
                 /\ \A t \in 1..(clock - 1) : Snapshot(memory'[p], t) = Snapshot(memory[p], t)
      <3>1. memory[p] \in Seq(Row)
        BY <2>1
      <3>2. PICK r : r = Stamped(e, 0)
        OBVIOUS
      <3>3. r \in Row /\ r.known_at = clock
        <4>1. 0 \in Supplied \cup {0}
          OBVIOUS
        <4> QED  BY <3>2, <4>1, StampedIsRow, Zenon DEF StoreInv, StoreTypeOK
      <3>4. \A t \in 1..(clock - 1) : t \in Nat /\ t < r.known_at
        BY <2>1, <3>3
      <3>5. \A t \in 1..(clock - 1) : Snapshot(memory'[p], t) = Snapshot(memory[p], t)
        <4>1. PICK after : after = memory'[p]
          OBVIOUS
        <4>2. PICK rows \in Seq(Row) : rows = memory[p]
          BY <3>1
        <4>3. after = Append(rows, r)
          BY <2>3, <3>2, <4>1, <4>2
        <4> SUFFICES ASSUME NEW t \in 1..(clock - 1)
                     PROVE  Snapshot(after, t) = Snapshot(rows, t)
          BY <4>1, <4>2
        <4>4. t \in Nat /\ t < r.known_at
          BY <3>4
        <4> QED  BY <3>3, <4>3, <4>4, SnapshotStays
      <3> QED  BY <2>3, <3>1, <3>2, <3>3, <3>5, AppendKeepsAnswers, Zenon
    <2>4. ASSUME disk' = disk
          PROVE  ~Torn(disk') => KeepsAnswers(Readable(disk), Readable(disk'))
      <3> SUFFICES ASSUME ~Torn(disk')
                   PROVE  KeepsAnswers(Readable(disk), Readable(disk'))
        OBVIOUS
      <3>1. Readable(disk) \in Seq(Row)
        BY <2>1, <2>4, ReadableRows, Zenon
      <3> QED  BY <2>4, <3>1, SameKeepsAnswers, Zenon
    <2>5. ASSUME NEW x \in Row \cup {Part}, NEW ended \in BOOLEAN,
                 disk' = Written(disk, <<x>>, ended)
          PROVE  ~Torn(disk') => KeepsAnswers(Readable(disk), Readable(disk'))
      BY <2>1, <2>5, WriteKeepsReadable, Zenon
    <2>6. CASE Tick
      BY <2>2, <2>4, <2>6, Zenon DEF Tick
    <2>7. ASSUME NEW p \in Openers, Open(p)
          PROVE  Stays
      <3>1. \A q \in open \cap open' : memory'[q] = memory[q]
        BY <2>1, <2>7 DEF Open
      <3>2. disk' = disk
        BY <2>7 DEF Open
      <3> QED  BY <2>2, <2>4, <3>1, <3>2, Zenon
    <2>8. ASSUME NEW p \in Openers, Exit(p)
          PROVE  Stays
      <3>1. \A q \in open \cap open' : memory'[q] = memory[q]
        BY <2>1, <2>8 DEF Exit
      <3>2. disk' = disk
        BY <2>8 DEF Exit
      <3> QED  BY <2>2, <2>4, <3>1, <3>2, Zenon
    <2>9. ASSUME NEW p \in Openers, NEW e \in Events, NEW known \in Supplied \cup {0}
          PROVE  /\ AppendRow(p, e, known) => Stays
                 /\ AppendRefused(p, e, known) => Stays
                 /\ \A remnant \in Remnants : DieInAppend(p, e, known, remnant) => Stays
      <3>1. known = 0
        OBVIOUS
      <3>2. ASSUME memory' = [memory EXCEPT ![p] = Append(@, Stamped(e, known))],
                   NEW q \in open \cap open'
            PROVE  /\ KeepsAnswers(memory[q], memory'[q])
                   /\ \A t \in 1..(clock - 1) : Snapshot(memory'[q], t) = Snapshot(memory[q], t)
        <4>1. CASE q = p
          <5>1. memory'[q] = Append(memory[q], Stamped(e, 0))
            BY <2>1, <3>1, <3>2, <4>1
          <5> QED  BY <2>3, <5>1, Zenon
        <4>2. CASE q # p
          <5>1. memory'[q] = memory[q]
            BY <2>1, <3>2, <4>2
          <5> QED  BY <2>2, <5>1, Zenon
        <4> QED  BY <4>1, <4>2
      <3>3. ASSUME AppendRow(p, e, known)
            PROVE  Stays
        <4>1. memory' = [memory EXCEPT ![p] = Append(@, Stamped(e, known))]
          BY <3>3, Zenon DEF AppendRow
        <4>2. PICK r \in Row : r = Stamped(e, known)
          BY StampedInv
        <4>3. disk' = Written(disk, <<r>>, TRUE) /\ r \in Row \cup {Part}
          BY <3>3, <4>2, Zenon DEF AppendRow
        <4> QED  BY <2>5, <3>2, <4>1, <4>3, Zenon
      <3>4. ASSUME AppendRefused(p, e, known)
            PROVE  Stays
        <4>1. memory' = [memory EXCEPT ![p] = Append(@, Stamped(e, known))] /\ disk' = disk
          BY <3>4, Zenon DEF AppendRefused
        <4> QED  BY <2>4, <3>2, <4>1, Zenon
      <3>5. ASSUME NEW remnant \in Remnants, DieInAppend(p, e, known, remnant)
            PROVE  Stays
        <4>1. /\ memory' = [memory EXCEPT ![p] = << >>] /\ open' = open \ {p}
          BY <3>5, Zenon DEF DieInAppend
        <4>2. \A q \in open \cap open' : memory'[q] = memory[q]
          BY <2>1, <4>1
        <4>3. ~Torn(disk') => KeepsAnswers(Readable(disk), Readable(disk'))
          BY <2>4, <2>5, <3>5, DeathGrows, Zenon
        <4> QED  BY <2>2, <4>2, <4>3, Zenon
      <3> QED  BY <3>3, <3>4, <3>5
    <2> HIDE DEF Stays
    <2> QED  BY <2>6, <2>7, <2>8, <2>9, Zenon DEF StoreNext
  <1> QED  BY <1>1, StoreInvariant, PTL DEF StoreSpec, AnswersStay

-----------------------------------------------------------------------------
\* The rows the reader's store holds or its file does.
WithReader(r) == r \in ToSet(memory[Reader]) \/ OnFile(disk, r)

\* Nothing is known later than now.
KnownByNow ==
    \A r \in Row :
        (OnFile(disk, r) \/ \E p \in Openers : r \in ToSet(memory[p])) => r.known_at <= clock

\* The cursor is an instant the consumer was fed; while the path is not shared,
\* what was passed was fed, and the reader holds what the file does.
FeedInv ==
    /\ StoreInv
    /\ KnownByNow
    /\ cursor \in Nat /\ cursor <= clock
    /\ cursor # 0 => cursor \in fed
    /\ ~shared =>
          /\ open \subseteq {Reader}
          /\ \A r \in Row : WithReader(r) /\ r.known_at <= cursor => r.known_at \in fed
          /\ Reader \in open => \A r \in Row : OnFile(disk, r) => r \in ToSet(memory[Reader])

\* At the start nothing is held and nothing was passed.
LEMMA InitFeedInv == FeedInit => FeedInv
  <1> SUFFICES ASSUME FeedInit
               PROVE  FeedInv
    OBVIOUS
  <1>1. StoreInv
    BY InitStoreInv DEF FeedInit
  <1>2. /\ clock = 1 /\ open = {} /\ disk = << >> /\ cursor = 0 /\ shared = FALSE
        /\ \A p \in Openers : memory[p] = << >>
    BY DEF FeedInit, StoreInit
  <1>3. \A r : ~OnFile(disk, r)
    BY <1>2 DEF OnFile
  <1>4. \A p \in Openers, r \in Row : r \notin ToSet(memory[p])
    BY <1>2 DEF ToSet
  <1>5. KnownByNow
    BY <1>3, <1>4, Zenon DEF KnownByNow
  <1>6. \A r \in Row : ~WithReader(r)
    BY <1>3, <1>4, ReaderAssumption, Zenon DEF WithReader
  <1> QED  BY <1>1, <1>2, <1>3, <1>5, <1>6 DEF FeedInv

\* What a step of the store leaves in a memory or on the file was there before,
\* or was learned now by an opener.
NewRows(p) ==
    \E r \in Row :
        /\ r.known_at = clock
        /\ \A y \in Row : OnFile(disk', y) => OnFile(disk, y) \/ y = r
        /\ \A q \in Openers, y \in Row :
              y \in ToSet(memory'[q]) => y \in ToSet(memory[q]) \/ (q = p /\ y = r)

\* append, refused, cut off or done, adds at most one row, known as of now.
LEMMA AppendAddsOneRow ==
    ASSUME Supplied = {}, StoreInv, NEW p \in Openers, NEW e \in Events, NEW known \in Supplied \cup {0},
           \/ AppendRow(p, e, known) \/ AppendRefused(p, e, known)
           \/ \E remnant \in Remnants : DieInAppend(p, e, known, remnant)
    PROVE  /\ NewRows(p) /\ clock' = clock /\ p \in open /\ open' \subseteq open
           /\ p \in open' =>
                 \A y \in Row : OnFile(disk', y) /\ ~OnFile(disk, y) => y \in ToSet(memory'[p])
           /\ \A q \in open', y \in Row : y \in ToSet(memory[q]) => y \in ToSet(memory'[q])
  <1>1. PICK r : r = Stamped(e, known)
    OBVIOUS
  <1>2. r \in Row /\ r.known_at = clock
    <2>1. known = 0
      OBVIOUS
    <2>2. clock \in 1..MaxClock
      BY DEF StoreInv, StoreTypeOK
    <2> QED  BY <1>1, <2>1, <2>2, StampedIsRow
  <1>3. memory \in [Openers -> Seq(Row)] /\ disk \in Seq(Line) /\ NoBlank(disk)
        /\ open \subseteq Openers
    BY DEF StoreInv, StoreTypeOK, NoBlank
  <1>4. ToSet(Append(memory[p], r)) = ToSet(memory[p]) \cup {r}
    BY <1>2, <1>3, MembersOfAppend
  <1>5. ToSet(<< >>) = {}
    BY DEF ToSet
  <1>6. CASE AppendRow(p, e, known)
    <2>1. /\ memory' = [memory EXCEPT ![p] = Append(memory[p], r)]
          /\ disk' = Written(disk, <<r>>, TRUE)
          /\ clock' = clock /\ p \in open /\ open' = open
      BY <1>1, <1>6, Zenon DEF AppendRow, Room
    <2>2. Grows(disk, disk', r)
      <3>1. r \in Row \cup {Part}
        BY <1>2
      <3> QED  BY <1>3, <2>1, <3>1, WriteGrows, Zenon
    <2>3. \A y : OnFile(disk', y) => OnFile(disk, y) \/ y = r
      BY <2>2, Zenon DEF Grows
    <2>4. \A q \in Openers : ToSet(memory'[q]) = IF q = p THEN ToSet(memory[q]) \cup {r} ELSE ToSet(memory[q])
      BY <1>3, <1>4, <2>1
    <2>5. NewRows(p)
      BY <1>2, <2>3, <2>4 DEF NewRows
    <2> QED  BY <1>3, <2>1, <2>3, <2>4, <2>5
  <1>7. CASE AppendRefused(p, e, known)
    <2>1. /\ memory' = [memory EXCEPT ![p] = Append(memory[p], r)]
          /\ clock' = clock /\ p \in open /\ open' = open /\ disk' = disk
      BY <1>1, <1>7, Zenon DEF AppendRefused, Room
    <2>2. \A q \in Openers : ToSet(memory'[q]) = IF q = p THEN ToSet(memory[q]) \cup {r} ELSE ToSet(memory[q])
      BY <1>3, <1>4, <2>1
    <2>3. \A y : OnFile(disk', y) => OnFile(disk, y)
      BY <2>1
    <2>4. NewRows(p)
      BY <1>2, <2>2, <2>3 DEF NewRows
    <2> QED  BY <1>3, <2>1, <2>2, <2>3, <2>4
  <1>8. ASSUME NEW remnant \in Remnants, DieInAppend(p, e, known, remnant)
        PROVE  /\ NewRows(p) /\ clock' = clock /\ p \in open /\ open' \subseteq open
               /\ p \notin open'
               /\ \A q \in open', y \in Row : y \in ToSet(memory[q]) => y \in ToSet(memory'[q])
    <2>1. /\ memory' = [memory EXCEPT ![p] = << >>]
          /\ clock' = clock /\ p \in open /\ open' = open \ {p}
      BY <1>8, Zenon DEF DieInAppend, Room
    <2>2. \A y \in Row : OnFile(disk', y) => OnFile(disk, y) \/ y = r
      <3>1. CASE disk' = disk
        BY <3>1
      <3>2. CASE disk' # disk
        <4>1. PICK x \in {Part, Stamped(e, known)} :
                 /\ x \in Row \cup {Part}
                 /\ \E ended \in BOOLEAN : disk' = Written(disk, <<x>>, ended)
          BY <1>8, <3>2, DeathGrows, Zenon
        <4>2. Grows(disk, disk', x)
          BY <1>3, <4>1, WriteGrows, Zenon
        <4>3. \A y : OnFile(disk', y) => OnFile(disk, y) \/ y = x
          BY <4>2, Zenon DEF Grows
        <4> QED  BY <1>1, <4>1, <4>3, PartIsNoRow
      <3> QED  BY <3>1, <3>2
    <2>3. \A q \in Openers : ToSet(memory'[q]) = IF q = p THEN {} ELSE ToSet(memory[q])
      BY <1>3, <1>5, <2>1
    <2>4. NewRows(p)
      BY <1>2, <2>2, <2>3 DEF NewRows
    <2> QED  BY <1>3, <2>1, <2>3, <2>4
  <1> QED  BY <1>6, <1>7, <1>8

\* A step of the store keeps the invariant when what it reaches was reached
\* before or is learned now, and what is on the file is held by the reader.
LEMMA StepKeepsFeedInv ==
    ASSUME FeedInv, StoreInv', KnownByNow', clock <= clock',
           ~shared' => ~shared /\ open' \subseteq {Reader},
           cursor' = cursor, fed' = fed,
           \A r \in Row : WithReader(r)' => WithReader(r) \/ r.known_at = clock,
           ~shared' /\ Reader \in open' =>
              \A r \in Row : OnFile(disk', r) => r \in ToSet(memory'[Reader])
    PROVE  FeedInv'
  <1>1. clock \in 1..MaxClock /\ clock' \in 1..MaxClock /\ MaxClock \in Nat
    BY BoundsAssumption DEF FeedInv, StoreInv, StoreTypeOK
  <1>2. cursor \in Nat /\ cursor <= clock /\ (cursor # 0 => cursor \in fed)
    BY DEF FeedInv
  <1>3. cursor' \in Nat /\ cursor' <= clock' /\ (cursor' # 0 => cursor' \in fed')
    BY <1>1, <1>2
  <1>4. ASSUME ~shared', NEW r \in Row, WithReader(r)', r.known_at <= cursor'
        PROVE  r.known_at \in fed'
    <2>1. CASE WithReader(r)
      BY <1>4, <2>1 DEF FeedInv
    <2>2. CASE r.known_at = clock
      <3>1. cursor = clock /\ cursor # 0
        BY <1>1, <1>2, <1>4, <2>2
      <3> QED  BY <1>2, <2>2, <3>1
    <2> QED  BY <1>4, <2>1, <2>2
  <1> QED  BY <1>3, <1>4, Zenon DEF FeedInv

\* A poll feeds every instant past the cursor that the reader holds.
LEMMA PollKeepsFeedInv ==
    ASSUME FeedInv, Poll
    PROVE  FeedInv'
  <1>1. PICK rows : rows = memory[Reader]
    OBVIOUS
  <1>2. rows \in Seq(Row) /\ clock \in 1..MaxClock /\ MaxClock \in Nat
    BY <1>1, ReaderAssumption, BoundsAssumption DEF FeedInv, StoreInv, StoreTypeOK
  <1>3. PICK instants : instants = {r.known_at : r \in ToSet(Changes(rows, cursor))}
    OBVIOUS
  <1>4. /\ Reader \in open /\ instants # {} /\ cursor' = Max(instants)
        /\ fed' = fed \cup instants /\ shared' = shared
        /\ clock' = clock /\ open' = open /\ memory' = memory /\ disk' = disk /\ acked' = acked
    BY <1>1, <1>3, Zenon DEF Poll, storeVars
  <1> DEFINE I == {i \in DOMAIN rows : cursor = 0 \/ rows[i].known_at > cursor}
  <1>5. ToSet(Changes(rows, cursor)) = {rows[i] : i \in I}
    <2>1. Changes(rows, cursor) = Keeping(rows, I)
      BY Zenon DEF Changes
    <2>2. ToSet(Changes(rows, cursor)) = {rows[i] : i \in (DOMAIN rows) \cap I}
      <3> HIDE DEF I
      <3> QED  BY <1>2, <2>1, KeptMembers
    <2>3. (DOMAIN rows) \cap I = I
      OBVIOUS
    <2> QED  BY <2>2, <2>3
  <1>6. instants = {rows[i].known_at : i \in I}
    BY <1>3, <1>5
  <1>7. \A r \in ToSet(rows) : r \in Row /\ r.known_at \in Nat /\ r.known_at <= clock
    <2>1. \A r \in ToSet(rows) : r \in Row
      BY <1>2 DEF ToSet
    <2>2. \A r \in Row : r.known_at \in Nat
      BY RowIsKept, BoundsAssumption
    <2>3. \A r \in ToSet(rows) : r.known_at <= clock
      BY <1>1, <2>1, ReaderAssumption DEF FeedInv, KnownByNow
    <2> QED  BY <2>1, <2>2, <2>3
  <1>8. instants \subseteq Nat /\ \A x \in instants : x <= clock
    BY <1>6, <1>7 DEF ToSet
  <1>9. Max(instants) \in instants /\ \A x \in instants : x <= Max(instants)
    <2>1. PICK n \in instants : \A x \in instants : x <= n
      <3>1. PICK now \in Nat : now = clock
        BY <1>2
      <3>2. \A x \in instants : x <= now
        BY <1>8, <3>1
      <3> QED  BY <1>4, <1>8, <3>2, Greatest
    <2>2. \A x \in instants : n >= x
      BY <1>8, <2>1
    <2>3. \E m \in instants : \A x \in instants : m >= x
      BY <2>2
    <2>4. Max(instants) \in instants /\ \A x \in instants : Max(instants) >= x
      BY <2>3, Zenon DEF Max
    <2> QED  BY <1>8, <2>4
  <1>10. cursor' \in Nat /\ cursor' <= clock' /\ cursor' \in fed'
    BY <1>4, <1>8, <1>9
  <1>11. ASSUME ~shared', NEW r \in Row, WithReader(r)', r.known_at <= cursor'
         PROVE  r.known_at \in fed'
    <2>1. r \in ToSet(rows) /\ ~shared
      BY <1>1, <1>4, <1>11 DEF WithReader, FeedInv
    <2>2. PICK i \in DOMAIN rows : r = rows[i]
      BY <2>1 DEF ToSet
    <2>3. CASE i \in I
      BY <1>4, <1>6, <2>2, <2>3
    <2>4. CASE i \notin I
      <3>1. ~(r.known_at > cursor)
        BY <2>2, <2>4
      <3>2. r.known_at \in Nat /\ cursor \in Nat
        BY <1>7, <2>1 DEF FeedInv
      <3>3. r.known_at <= cursor
        BY <3>1, <3>2
      <3>4. WithReader(r)
        BY <1>1, <2>1 DEF WithReader
      <3> QED  BY <1>4, <2>1, <3>3, <3>4 DEF FeedInv
    <2> QED  BY <2>3, <2>4
  <1>12. StoreInv' /\ KnownByNow'
    BY <1>4 DEF FeedInv, StoreInv, StoreTypeOK, KnownByNow
  <1>13. ~shared' =>
          /\ open' \subseteq {Reader}
          /\ Reader \in open' => \A r \in Row : OnFile(disk', r) => r \in ToSet(memory'[Reader])
    BY <1>4 DEF FeedInv
  <1> QED  BY <1>10, <1>11, <1>12, <1>13, Zenon DEF FeedInv

\* Every step keeps what the consumer can count on.
LEMMA NextFeedInv ==
    ASSUME Supplied = {}, FeedInv, [FeedNext]_feedVars
    PROVE  FeedInv'
  <1>1. CASE UNCHANGED feedVars
    <2>1. /\ clock' = clock /\ open' = open /\ memory' = memory /\ disk' = disk /\ acked' = acked
          /\ cursor' = cursor /\ fed' = fed /\ shared' = shared
      BY <1>1 DEF feedVars, storeVars
    <2>2. StoreInv' /\ KnownByNow'
      BY <2>1 DEF FeedInv, StoreInv, StoreTypeOK, KnownByNow
    <2>3. \A r \in Row : WithReader(r)' => WithReader(r)
      BY <2>1, Zenon DEF WithReader
    <2> QED  BY <2>1, <2>2, <2>3, Zenon DEF FeedInv
  <1>2. CASE Poll
    BY <1>2, PollKeepsFeedInv
  <1>3. ASSUME StoreNext, shared' = (shared \/ open' \ {Reader} # {}), UNCHANGED <<cursor, fed>>
        PROVE  FeedInv'
    <2>1. ~shared' => ~shared /\ open' \subseteq {Reader}
      <3>1. ~shared' => ~shared /\ ~(open' \ {Reader} # {})
        BY <1>3, Zenon
      <3>2. ~(open' \ {Reader} # {}) => open' \subseteq {Reader}
        OBVIOUS
      <3> QED  BY <3>1, <3>2, Zenon
    <2>2. StoreInv'
      BY <1>3, NextStoreInv, Zenon DEF FeedInv
    <2>3. cursor' = cursor /\ fed' = fed
      BY <1>3
    <2>4. /\ memory \in [Openers -> Seq(Row)] /\ disk \in Seq(Line) /\ open \subseteq Openers
          /\ clock \in 1..MaxClock /\ MaxClock \in Nat
      BY BoundsAssumption DEF FeedInv, StoreInv, StoreTypeOK
    <2>5. \A r \in Row : r.known_at \in Nat
      BY <2>4, RowIsKept
    <2>6. CASE Tick
      <3>1. /\ clock' = clock + 1 /\ clock <= clock'
            /\ open' = open /\ memory' = memory /\ disk' = disk
        BY <2>4, <2>6 DEF Tick
      <3>2. KnownByNow'
        <4> SUFFICES ASSUME NEW r \in Row,
                            OnFile(disk, r) \/ \E p \in Openers : r \in ToSet(memory[p])
                     PROVE  r.known_at <= clock + 1
          BY <3>1 DEF KnownByNow
        <4>1. r.known_at <= clock /\ r.known_at \in Nat
          BY <2>5 DEF FeedInv, KnownByNow
        <4> QED  BY <2>4, <4>1
      <3>3. \A r \in Row : WithReader(r)' => WithReader(r) \/ r.known_at = clock
        BY <3>1, Zenon DEF WithReader
      <3>4. ~shared' /\ Reader \in open' =>
                \A r \in Row : OnFile(disk', r) => r \in ToSet(memory'[Reader])
        BY <2>1, <3>1, Zenon DEF FeedInv
      <3> QED  BY <2>1, <2>2, <2>3, <3>1, <3>2, <3>3, <3>4, StepKeepsFeedInv
    <2>7. ASSUME NEW p \in Openers, Open(p)
          PROVE  FeedInv'
      <3>1. /\ ~Torn(disk) /\ open' = open \cup {p} /\ disk' = disk /\ clock' = clock
            /\ memory' = [memory EXCEPT ![p] = Readable(disk)]
        BY <2>7 DEF Open
      <3>2. \A q \in Openers : memory'[q] = IF q = p THEN Readable(disk) ELSE memory[q]
        BY <2>4, <3>1
      <3>3. \A r : OnFile(disk, r) <=> r \in ToSet(Readable(disk))
        BY <2>4, <3>1, ReadableRows
      <3>4. KnownByNow'
        <4> SUFFICES ASSUME NEW r \in Row,
                            OnFile(disk, r) \/ \E q \in Openers : r \in ToSet(memory'[q])
                     PROVE  r.known_at <= clock
          BY <3>1 DEF KnownByNow
        <4> QED  BY <3>2, <3>3 DEF FeedInv, KnownByNow
      <3>5. \A r \in Row : WithReader(r)' => WithReader(r) \/ r.known_at = clock
        BY <3>1, <3>2, <3>3, ReaderAssumption DEF WithReader
      <3>6. ~shared' /\ Reader \in open' =>
                \A r \in Row : OnFile(disk', r) => r \in ToSet(memory'[Reader])
        <4>1. ~shared' => p = Reader
          BY <2>1, <3>1
        <4> QED  BY <3>1, <3>2, <3>3, <4>1
      <3>7. clock <= clock'
        BY <2>4, <3>1
      <3> QED  BY <2>1, <2>2, <2>3, <3>4, <3>5, <3>6, <3>7, StepKeepsFeedInv
    <2>8. ASSUME NEW p \in Openers, Exit(p)
          PROVE  FeedInv'
      <3>1. /\ open' = open \ {p} /\ disk' = disk /\ clock' = clock
            /\ memory' = [memory EXCEPT ![p] = << >>]
        BY <2>8 DEF Exit
      <3>2. \A q \in Openers : memory'[q] = IF q = p THEN << >> ELSE memory[q]
        BY <2>4, <3>1
      <3>3. \A r : r \notin ToSet(<< >>)
        BY DEF ToSet
      <3>4. KnownByNow'
        <4> SUFFICES ASSUME NEW r \in Row,
                            OnFile(disk, r) \/ \E q \in Openers : r \in ToSet(memory'[q])
                     PROVE  r.known_at <= clock
          BY <3>1 DEF KnownByNow
        <4> QED  BY <3>2, <3>3 DEF FeedInv, KnownByNow
      <3>5. \A r \in Row : WithReader(r)' => WithReader(r) \/ r.known_at = clock
        BY <3>1, <3>2, <3>3, ReaderAssumption DEF WithReader
      <3>6. ~shared' /\ Reader \in open' =>
                \A r \in Row : OnFile(disk', r) => r \in ToSet(memory'[Reader])
        BY <2>1, <3>1, <3>2, ReaderAssumption DEF FeedInv
      <3>7. clock <= clock'
        BY <2>4, <3>1
      <3> QED  BY <2>1, <2>2, <2>3, <3>4, <3>5, <3>6, <3>7, StepKeepsFeedInv
    <2>9. ASSUME NEW p \in Openers, NEW e \in Events, NEW known \in Supplied \cup {0},
                 \/ AppendRow(p, e, known) \/ AppendRefused(p, e, known)
                 \/ \E remnant \in Remnants : DieInAppend(p, e, known, remnant)
          PROVE  FeedInv'
      <3>1. /\ NewRows(p) /\ clock' = clock /\ p \in open /\ open' \subseteq open
            /\ p \in open' =>
                  \A y \in Row : OnFile(disk', y) /\ ~OnFile(disk, y) => y \in ToSet(memory'[p])
            /\ \A q \in open', y \in Row : y \in ToSet(memory[q]) => y \in ToSet(memory'[q])
        BY <2>9, AppendAddsOneRow, Zenon DEF FeedInv
      <3>2. PICK r \in Row :
              /\ r.known_at = clock
              /\ \A y \in Row : OnFile(disk', y) => OnFile(disk, y) \/ y = r
              /\ \A q \in Openers, y \in Row :
                    y \in ToSet(memory'[q]) => y \in ToSet(memory[q]) \/ (q = p /\ y = r)
        BY <3>1, Zenon DEF NewRows
      <3>3. clock <= clock /\ clock <= clock'
        BY <2>4, <3>1
      <3>4. KnownByNow'
        <4> SUFFICES ASSUME NEW y \in Row,
                            OnFile(disk', y) \/ \E q \in Openers : y \in ToSet(memory'[q])
                     PROVE  y.known_at <= clock
          BY <3>1 DEF KnownByNow
        <4>1. y = r \/ OnFile(disk, y) \/ \E q \in Openers : y \in ToSet(memory[q])
          BY <3>2, Zenon
        <4> QED  BY <3>2, <3>3, <4>1 DEF FeedInv, KnownByNow
      <3>5. \A y \in Row : WithReader(y)' => WithReader(y) \/ y.known_at = clock
        BY <3>2, ReaderAssumption, Zenon DEF WithReader
      <3>6. ~shared' /\ Reader \in open' =>
                \A y \in Row : OnFile(disk', y) => y \in ToSet(memory'[Reader])
        <4> SUFFICES ASSUME ~shared', Reader \in open', NEW y \in Row, OnFile(disk', y)
                     PROVE  y \in ToSet(memory'[Reader])
          BY Zenon
        <4>1. ~shared /\ Reader \in open
          BY <2>1, <3>1
        <4>2. p = Reader
          BY <3>1, <4>1 DEF FeedInv
        <4>3. OnFile(disk, y) => y \in ToSet(memory[Reader])
          BY <4>1, Zenon DEF FeedInv
        <4> QED  BY <3>1, <4>2, <4>3, Zenon
      <3> QED  BY <2>1, <2>2, <2>3, <3>3, <3>4, <3>5, <3>6, StepKeepsFeedInv
    <2> QED  BY <1>3, <2>6, <2>7, <2>8, <2>9, Zenon DEF StoreNext
  <1> QED  BY <1>1, <1>2, <1>3, Zenon DEF FeedNext

\* What was passed and is held was fed.
LEMMA FeedInvImplies == FeedInv => FeedLosesOnlyTies
  <1> SUFFICES ASSUME FeedInv, ~shared, NEW r \in ToSet(memory[Reader]), r.known_at <= cursor
               PROVE  r.known_at \in fed
    BY DEF FeedLosesOnlyTies
  <1>1. memory[Reader] \in Seq(Row)
    BY ReaderAssumption DEF FeedInv, StoreInv, StoreTypeOK
  <1>2. r \in Row /\ WithReader(r)
    BY <1>1 DEF ToSet, WithReader
  <1> QED  BY <1>2 DEF FeedInv

\* When the stamps are the store's own, a consumer of the feed misses at most
\* what shares an instant with a row it was given.
THEOREM FeedLosesNoInstant ==
    ASSUME Supplied = {}
    PROVE  FeedSpec => []FeedLosesOnlyTies
  <1>1. FeedInv /\ [FeedNext]_feedVars => FeedInv'
    BY NextFeedInv
  <1> QED  BY <1>1, InitFeedInv, FeedInvImplies, PTL DEF FeedSpec

\* A store with a consumer is a store.
THEOREM FeedIsOfAStore == FeedSpec => StoreSpec
  <1>1. FeedInit => StoreInit
    BY DEF FeedInit
  <1>2. [FeedNext]_feedVars => [StoreNext]_storeVars
    BY DEF FeedNext, Poll, feedVars, storeVars
  <1> QED  BY <1>1, <1>2, PTL DEF FeedSpec, StoreSpec
=============================================================================

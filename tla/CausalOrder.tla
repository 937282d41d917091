---------------------------- MODULE CausalOrder ----------------------------
(***************************************************************************)
(* The linearization of a partially ordered history                        *)
(* (causal_order of runtime_contracts/models/investigation.py and          *)
(* causal_order_events of runtime_contracts/protocol/telemetry.py).        *)
(*                                                                         *)
(* Both functions run one loop over the same data: events indexed by an id *)
(* (the transition_id; the event_id), the number of unmet parents of each  *)
(* id, and a queue of ids with none, popped by lowest sequence, then id.    *)
(* The loop is a state machine whose input is any list of events; the       *)
(* telemetry function is the case of at most one parent per event.          *)
(***************************************************************************)
EXTENDS Integers, Sequences, FiniteSets, SequencesExt

CONSTANTS
    Ids,            \* the ids an event may have or name; numbers, for the tie-break
    MaxSequence,    \* bound: sequence numbers
    MaxHistory       \* bound: length of a history

ASSUME IdsAssumption == Ids \subseteq Nat /\ IsFiniteSet(Ids)
ASSUME HistoryAssumption == MaxSequence \in Nat /\ MaxHistory \in Nat

VARIABLES
    events,     \* the argument
    indeg,      \* parents of an id not yet in out
    ready,      \* the heap; the sorted list
    out,        \* indices of events, in the order of the result
    verdict     \* "running", "returned" or "raised"

orderVars == <<events, indeg, ready, out, verdict>>

HistoryEvent == [id : Ids, sequence : 0..MaxSequence, parents : SUBSET Ids]

-----------------------------------------------------------------------------
Indices == {events[k].id : k \in DOMAIN events}

\* by_id: the event of an id; the last one when several share it.
ById(i) ==
    CHOOSE k \in DOMAIN events :
        /\ events[k].id = i
        /\ \A l \in DOMAIN events : events[l].id = i => l =< k

\* children[p] as a bag: how often c was appended under p.
Links(p, c) == Cardinality({k \in DOMAIN events : events[k].id = c /\ p \in events[k].parents})

Key(i) == events[ById(i)].sequence

\* heappop: the ready id of lowest (sequence, id).
Before(i, j) == Key(i) < Key(j) \/ (Key(i) = Key(j) /\ i =< j)

Popped(i) == i \in ready /\ \A j \in ready : Before(i, j)

-----------------------------------------------------------------------------
\* Mutant: an id is ready when one of its parents is out.
Unmet_AnyParent(i) ==
    IF \E k \in DOMAIN events : events[k].id = i /\ events[k].parents \cap Indices # {}
    THEN 1 ELSE 0

\* indeg: only edges among this event set constrain the order.
Unmet(i) ==
    Cardinality({e \in (DOMAIN events) \X Indices :
                    events[e[1]].id = i /\ e[2] \in events[e[1]].parents})

OrderInit ==
    /\ events \in BoundedSeq(HistoryEvent, MaxHistory)
    /\ indeg = [i \in Indices |-> Unmet(i)]
    /\ ready = {i \in Indices : indeg[i] = 0}
    /\ out = << >>
    /\ verdict = "running"

\* One turn of the loop.
Pop(i) ==
    /\ verdict = "running"
    /\ Popped(i)
    /\ out' = Append(out, ById(i))
    /\ indeg' = [c \in Indices |-> indeg[c] - Links(i, c)]
    /\ ready' = (ready \ {i}) \cup {c \in Indices : indeg[c] > 0 /\ indeg'[c] = 0}
    /\ UNCHANGED <<events, verdict>>

\* Mutant: the length of the result is not compared with that of the argument.
Finish_Unchecked ==
    /\ verdict = "running"
    /\ ready = {}
    /\ verdict' = "returned"
    /\ UNCHANGED <<events, indeg, ready, out>>

\* The queue is empty: the result must hold every event.
Finish ==
    /\ verdict = "running"
    /\ ready = {}
    /\ verdict' = IF Len(out) = Len(events) THEN "returned" ELSE "raised"
    /\ UNCHANGED <<events, indeg, ready, out>>

OrderNext == (\E i \in Ids : Pop(i)) \/ Finish

OrderSpec == OrderInit /\ [][OrderNext]_orderVars

-----------------------------------------------------------------------------
\* The declared order restricted to this history: k must precede l.
Precedes(k, l) == events[k].id \in events[l].parents

\* Nothing is ever output before one of its parents in the history, and nothing
\* is output twice.
ParentsFirst ==
    \A n \in DOMAIN out :
        /\ \A p \in events[out[n]].parents \cap Indices :
              \E m \in 1..(n - 1) : events[out[m]].id = p
        /\ \A m \in 1..(n - 1) : out[m] # out[n]

\* Reference definition: some arrangement of all the events respects parents.
Linearizable ==
    \E f \in [DOMAIN events -> DOMAIN events] :
        /\ \A k, l \in DOMAIN events : f[k] = f[l] => k = l
        /\ \A k, l \in DOMAIN events : Precedes(k, l) => f[k] < f[l]

DistinctIds == \A k, l \in DOMAIN events : events[k].id = events[l].id => k = l

(***************************************************************************)
(* Over histories whose ids are distinct, the call returns exactly when an *)
(* arrangement exists, and then all of them; it raises only on a cycle.  A *)
(* parent that is not in the history constrains nothing: the event is      *)
(* taken for a root (`if p in by_id`), though the docstring and the text   *)
(* of the error say that such a reference is refused (DanglingRaises).     *)
(***************************************************************************)
RaisesOnlyOnCycle ==
    DistinctIds =>
        /\ verdict = "returned" => Linearizable /\ ToSet(out) = DOMAIN events
        /\ verdict = "raised" => ~Linearizable

-----------------------------------------------------------------------------
(***************************************************************************)
(* "Raises on a cycle or a dangling parent reference"                      *)
(* (runtime_contracts/models/investigation.py:235).  The loop counts only  *)
(* the parents it finds, so a history whose beginning was lost is returned *)
(* as if it were whole.                                                    *)
(***************************************************************************)
DanglingRaises ==
    verdict = "returned" => \A k \in DOMAIN events : events[k].parents \subseteq Indices
=============================================================================

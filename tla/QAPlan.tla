------------------------------- MODULE QAPlan -------------------------------
(***************************************************************************)
(* The guards of a QA plan (runtime_contracts/qa/plan.py).                 *)
(*                                                                         *)
(* A plan puts items into static lanes at positions, says which items a   *)
(* gate makes an item wait for and how many lanes may work at once.  It is *)
(* validated when it is constructed and never changed, so whatever it can *)
(* get stuck on has to be refused here.                                    *)
(***************************************************************************)
EXTENDS Integers, FiniteSets

CONSTANTS
    Items,          \* the specs a plan may schedule, by spec_ref
    Lanes           \* the names a plan may use for its lanes

\* QAPlan, PlanItem and PlanGate.  spec_ref is the key of items and item the
\* key of gates (SET_FIELDS), so both are functions.
IsPlan(p) ==
    /\ p.items \subseteq Items
    /\ p.lanes \subseteq Lanes
    /\ p.lane \in [p.items -> Lanes]
    /\ p.order \in [p.items -> Nat]
    /\ p.gates \in [DOMAIN p.gates -> SUBSET Items]
    /\ DOMAIN p.gates \subseteq Items
    /\ p.max_parallel \in Nat \ {0}
    /\ p.coverage_contract \in {"FULL", "SUBSET"}

\* PlanGate.validate
GateWellFormed(p, item) ==
    /\ p.gates[item] # {}
    /\ item \notin p.gates[item]

\* _guard_lanes
LanesWellFormed(p) ==
    /\ \A i \in p.items : p.lane[i] \in p.lanes
    /\ \A i, j \in p.items :
          i # j => <<p.lane[i], p.order[i]>> # <<p.lane[j], p.order[j]>>
    /\ p.max_parallel \in 1..Cardinality(p.lanes)

\* Mutant: a gate may name what the plan does not schedule.
GatesKnown_Any(p) == DOMAIN p.gates \subseteq p.items

\* The first loop of _guard_gates: a gate names items of the plan.
GatesKnown(p) ==
    \A item \in DOMAIN p.gates : {item} \cup p.gates[item] \subseteq p.items

\* i and j are neighbours in one lane: zip(items, items[1:]) after the sort.
Neighbours(p, i, j) ==
    /\ p.lane[i] = p.lane[j]
    /\ p.order[i] < p.order[j]
    /\ \A k \in p.items :
          p.lane[k] = p.lane[i] => ~(p.order[i] < p.order[k] /\ p.order[k] < p.order[j])

\* What item waits for by its gate.
GateOf(p, item) == IF item \in DOMAIN p.gates THEN p.gates[item] ELSE {}

\* Mutant: only gates make an item wait.
Precedes_GatesOnly(p, i, j) == i \in GateOf(p, j)

\* edges of _guard_gates: j cannot start before i.
Precedes(p, i, j) == Neighbours(p, i, j) \/ i \in GateOf(p, j)

\* visit of _guard_gates raises: the depth-first walk meets a node it is still
\* in.  On a finite graph that is a set of items of which each one waits for
\* another one of the set.
HasCycle(p) ==
    \E S \in SUBSET p.items :
        /\ S # {}
        /\ \A j \in S : \E i \in S : Precedes(p, i, j)

\* QAPlan.validate, after the validation of its gates.
Accepted(p) ==
    /\ \A item \in DOMAIN p.gates : GateWellFormed(p, item)
    /\ p.coverage_contract = "FULL"
    /\ p.items # {}
    /\ LanesWellFormed(p)
    /\ GatesKnown(p)
    /\ ~HasCycle(p)
=============================================================================

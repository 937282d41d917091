----------------------------- MODULE MCQABatch -----------------------------
(* QABatch on three items in two lanes, with gates on up to two of them, and *)
(* on one plan for every other way to be refused.                             *)
EXTENDS QABatch, TLC

MCItems == {1, 2, 3}
MCLanes == {"l1", "l2"}

MCPlan(items, firstLane, order, gates, max) ==
    [items |-> items, lanes |-> MCLanes,
     lane |-> [i \in items |-> IF i \in firstLane THEN "l1" ELSE "l2"],
     order |-> [i \in items |-> order[i]],
     gates |-> gates, max_parallel |-> max, coverage_contract |-> "FULL"]

InOrder == [i \in MCItems |-> i]
NoGates == [i \in {} |-> {}]

\* One gate, on any item and on itself, and two gates.
MCGates ==
    {NoGates} \cup UNION {[{i} -> {{j} : j \in MCItems}] : i \in MCItems}
    \cup {g \in UNION {[{i, j} -> {{k} : k \in MCItems}] : i, j \in MCItems} :
             \A i \in DOMAIN g : i \notin g[i]}

MCPlans ==
    {MCPlan(MCItems, {1} \cup lane, InOrder, gates, max) :
        lane \in SUBSET {2, 3}, gates \in MCGates, max \in 1..2}
    \cup { MCPlan(MCItems, MCItems, [i \in MCItems |-> 0], NoGates, 1),  \* one slot
           MCPlan({1, 2}, {1}, InOrder, 1 :> {3}, 1),     \* a gate on no item of it
           MCPlan({1, 2}, {1}, InOrder, NoGates, 3),      \* more parallel than lanes
           MCPlan({}, {}, InOrder, NoGates, 1),           \* nothing scheduled
           [MCPlan({1}, {1}, InOrder, NoGates, 1) EXCEPT !.coverage_contract = "SUBSET"],
           [MCPlan({1}, {1}, InOrder, NoGates, 1) EXCEPT !.lanes = {"l2"}] }
=============================================================================

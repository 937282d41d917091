---------------------------- MODULE MCDelegation ----------------------------
(* Two permissions and the wildcard, two budgets and two expiries.  The order  *)
(* of the texts is that of the instants, but for Offset, whose text says an    *)
(* early hour and whose offset makes it a late one.                            *)
EXTENDS Delegation

Early == "2026-09-01T01:00:00Z"
Late == "2026-09-01T02:00:00Z"
Offset == "2026-09-01T00:00:00-02:00"

MCTextRank == [e \in Expiries |-> IF e = Offset THEN 1 ELSE IF e = Early THEN 2 ELSE 3]
MCInstant == [e \in Expiries |-> IF e = Early THEN 1 ELSE 2]

Alice == [id |-> "alice", tenant |-> "acme"]
Agent == [id |-> "agent", tenant |-> "other"]

MCPrincipals == {Alice, Agent}

Term(scope, constraints, cost, expiry) ==
    [principal |-> IF constraints = {} THEN Alice ELSE Agent, scope |-> scope,
     constraints |-> constraints, max_cost |-> cost, expires_at |-> expiry]

MCTerms ==
    UNION {{ Term(s, {}, NoLimit, Never),
             Term(s, {}, 0, Late),
             Term(s, Constraints, 1, Early),
             Term(s, Constraints, NoLimit, IF Offset \in Expiries THEN Offset ELSE Late) }
           : s \in {{Wildcard}, {"read"}, Keep}}
=============================================================================

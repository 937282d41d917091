----------------------------- MODULE MCDecision -----------------------------
(* What stands before a mission's action: the intent that is asked for, and   *)
(* the evidence that is bought for a decision.  They share no state, so a     *)
(* behaviour is about one of them and the other stays as it began.            *)
EXTENDS VerifiedIntent, Acquisition

VARIABLE part       \* what the behaviour is about

-----------------------------------------------------------------------------
\* Two dimensions: contents for each guard, each reason for being open and
\* each part of the request, and some that no constructor makes.
Field(value, author, contested, evidence) ==
    [value |-> value, author |-> author, contested |-> contested, evidence |-> evidence]

Content(fields, open) ==
    [fields |-> fields, relations |-> {}, amendments |-> << >>, unresolved |-> open]

Open(d, reason, matters) == [dimension |-> d, reason |-> reason, result_changing |-> matters]

ByUser == Field("60/40", "USER", FALSE, FALSE)
Nothing == [d \in {} |-> ByUser]

MCContents ==
    { Content(Nothing, {Open("account", r, c)}) : r \in Reasons, c \in BOOLEAN }
    \cup { Content("weights" :> f, {}) :
             f \in {ByUser, Field("60/40", "MODEL", FALSE, FALSE), Field("50/50", "USER", FALSE, FALSE),
                    Field("60/40", "MODEL", TRUE, TRUE), Field("60/40", "MODEL", TRUE, FALSE)} }
    \cup { Content("account" :> ByUser, {Open("account", "NOT_ASKED", FALSE)}),
           Content("weights" :> ByUser, {Open("account", "USER_DECLINED", FALSE)}),
           Content("weights" :> ByUser, {Open("account", "NOT_ASKED", TRUE)}),
           [Content("weights" :> ByUser, {}) EXCEPT !.amendments = <<"50/50">>],
           [Content("weights" :> ByUser, {}) EXCEPT !.relations = {[members |-> <<"core", "satellite">>]}],
           [Content("weights" :> ByUser, {}) EXCEPT !.relations = {[members |-> << >>]}] }

\* Bound: once a record is written nothing else is constructed or drafted; what is at
\* hand is what was stored, or what was read back.
OneStored ==
    record # NoRecord => held.content \in {record.original.content, record.json.content}

-----------------------------------------------------------------------------
\* Three providers, bills up to 2, and a need for each decision of the gate.
MCProviders == <<"a", "b", "c">>

Need(capability, purpose, objective, max, valuable) ==
    [capability |-> capability, fields |-> {"name", "email"}, prohibited_fields |-> {"email"},
     purpose |-> purpose, objective |-> objective, max_cost |-> max, valuable |-> valuable]

MCNeeds ==
    { Need("company_identity", "", "", 0, TRUE),         \* free only
      Need("company_identity", "", "", 1, TRUE),
      Need("company_identity", "", "", 1, FALSE),        \* cannot change the action
      Need("person_search", "", "", 1, TRUE),            \* no purpose
      Need("person_search", "", "screen", 1, TRUE) }     \* the objective is the purpose

-----------------------------------------------------------------------------
DecisionVars == <<vars, acquisitionVars, part>>

DecisionInit ==
    /\ part \in {"intent", "acquisition"}
    /\ part = "intent" =>
          /\ need = CHOOSE d \in Needs : TRUE
          /\ price = [p \in Range(Providers) |-> 0]
          /\ entitled = {}
    /\ Init /\ AcquisitionInit
    /\ part = "acquisition" => held.content = Content("weights" :> ByUser, {})

DecisionNext ==
    \/ part = "intent" /\ Next /\ UNCHANGED <<acquisitionVars, part>>
    \/ part = "acquisition" /\ AcquisitionNext /\ UNCHANGED <<vars, part>>

DecisionSpec == DecisionInit /\ [][DecisionNext]_DecisionVars
=============================================================================

---------------------------- MODULE Containment ----------------------------
(***************************************************************************)
(* The containment state machine of one trajectory                         *)
(* (runtime_contracts/protocol/telemetry.py, Containment).                 *)
(*                                                                         *)
(* The object has three callers' methods: on_disposition, resolve_review  *)
(* and recover.  Each one calls the private _to one or more times, and _to *)
(* raises ContainmentRefused when the transition table has no such edge.  *)
(* A method that raises half way keeps what it has already assigned, so   *)
(* a call is a walk through the table that stops at the first missing     *)
(* edge.  Every method may be called in every state, by the runtime and by *)
(* people, in any order.                                                   *)
(***************************************************************************)
EXTENDS Naturals, Sequences

CONSTANT MaxHistory     \* bound: reviews are parked only below this length

ASSUME MaxHistoryAssumption == MaxHistory \in Nat

VARIABLES
    state,          \* Containment.state
    no_override,    \* Containment.no_override
    history,        \* Containment.history, the (from, to) pairs
    outcome         \* how the last call ended: "returned" or "refused"

vars == <<state, no_override, history, outcome>>

ContainmentState ==
    {"RUNNING", "CONTAINING", "CONTAINED", "REVIEW_REQUIRED", "RECOVERED"}

GovernanceDisposition == {"ALLOW", "REQUIRE_REVIEW", "NO_OVERRIDE", "DENY"}

\* _CONTAINMENT_TRANSITIONS: the edges of the table, as pairs of states.
ContainmentTransitions ==
    {"RUNNING"} \X {"RUNNING", "REVIEW_REQUIRED", "CONTAINING"}
    \cup {"REVIEW_REQUIRED"} \X {"REVIEW_REQUIRED", "RUNNING", "CONTAINING"}
    \cup {<<"CONTAINING", "CONTAINED">>}
    \cup {"CONTAINED"} \X {"CONTAINED", "RECOVERED"}
    \cup {"RECOVERED"} \X {"RECOVERED", "RUNNING"}

-----------------------------------------------------------------------------
(***************************************************************************)
(* _to on a walk w: nothing once the walk was refused, nothing when the   *)
(* target is the current state, an exception when the table has no edge.  *)
(***************************************************************************)
Begin == [at |-> state, log |-> history, refused |-> FALSE]

To(w, target) ==
    IF w.refused \/ target = w.at THEN w
    ELSE IF <<w.at, target>> \in ContainmentTransitions
    THEN [w EXCEPT !.at = target, !.log = Append(@, <<w.at, target>>)]
    ELSE [w EXCEPT !.refused = TRUE]

\* Mutant: containment is initiated and not completed.
Contain_HalfWay(w) == To(w, "CONTAINING")

Contain(w) == To(To(w, "CONTAINING"), "CONTAINED")

End(w) ==
    /\ state' = w.at
    /\ history' = w.log
    /\ outcome' = IF w.refused THEN "refused" ELSE "returned"

Refuse ==
    /\ outcome' = "refused"
    /\ UNCHANGED <<state, no_override, history>>

-----------------------------------------------------------------------------
Init ==
    /\ state = "RUNNING"
    /\ no_override = FALSE
    /\ history = << >>
    /\ outcome = "returned"

\* on_disposition: ALLOW returns the state, REQUIRE_REVIEW parks, DENY and
\* NO_OVERRIDE contain.  no_override is assigned before the first _to.
OnDisposition(disposition) ==
    \/ /\ disposition = "ALLOW"
       /\ outcome' = "returned"
       /\ UNCHANGED <<state, no_override, history>>
    \/ /\ disposition = "REQUIRE_REVIEW"
       /\ Len(history) < MaxHistory
       /\ End(To(Begin, "REVIEW_REQUIRED"))
       /\ UNCHANGED no_override
    \/ /\ disposition \in {"DENY", "NO_OVERRIDE"}
       /\ no_override' = (no_override \/ disposition = "NO_OVERRIDE")
       /\ End(Contain(Begin))

ResolveReview(approved) ==
    \/ /\ state # "REVIEW_REQUIRED"
       /\ Refuse
    \/ /\ state = "REVIEW_REQUIRED"
       /\ End(IF approved THEN To(Begin, "RUNNING") ELSE Contain(Begin))
       /\ UNCHANGED no_override

\* Mutant: a recovery that forgets to ask for no_override.
Recover_Always ==
    /\ End(To(Begin, "RECOVERED"))
    /\ UNCHANGED no_override

Recover ==
    \/ /\ no_override
       /\ Refuse
    \/ /\ ~no_override
       /\ End(To(Begin, "RECOVERED"))
       /\ UNCHANGED no_override

Next ==
    \/ \E disposition \in GovernanceDisposition : OnDisposition(disposition)
    \/ \E approved \in BOOLEAN : ResolveReview(approved)
    \/ Recover

Spec == Init /\ [][Next]_vars

-----------------------------------------------------------------------------
\* Type invariant of the object.
TypeOK ==
    /\ state \in ContainmentState
    /\ no_override \in BOOLEAN
    /\ history \in Seq(ContainmentState \X ContainmentState)
    /\ outcome \in {"returned", "refused"}

\* No caller ever observes a trajectory half contained: the two _to calls of
\* on_disposition and resolve_review either both happen or neither does.
NeverHalfContained == state # "CONTAINING"

\* The audit trail replays to the state: history is a connected walk of table
\* edges from RUNNING to the current state ("records every transition for the
\* audit/replay trail").
HistoryReplays ==
    LET From(i) == history[i][1]
        Into(i) == history[i][2]
    IN  /\ \A i \in 1..Len(history) :
             /\ history[i] \in ContainmentTransitions
             /\ From(i) = IF i = 1 THEN "RUNNING" ELSE Into(i - 1)
        /\ state = IF history = << >> THEN "RUNNING" ELSE Into(Len(history))

\* A refused call moves nothing and writes nothing in the audit trail; only
\* the no_override mark of a NO_OVERRIDE disposition survives the exception.
RefusedCallMovesNothing ==
    [][outcome' = "refused" => UNCHANGED <<state, history>>]_vars

\* The contract this object implements.
Posture ==
    CASE state \in {"RUNNING", "REVIEW_REQUIRED"} -> "free"
      [] state \in {"CONTAINING", "CONTAINED"} -> "held"
      [] state = "RECOVERED" -> "released"

Contract == INSTANCE ContainmentContract
                WITH posture <- Posture, sealed <- no_override

\* Containment implements ContainmentContract: once held, a trajectory is let
\* go only by a recovery, only once, and never under NO_OVERRIDE.
ContractHolds == Contract!Spec
=============================================================================

----------------------------- MODULE MCHistory -----------------------------
(* What is written down and read again: the ledger of an investigation, the   *)
(* linearization of a history, and an evidence store with the feed from it.   *)
(* They share no state, so a behaviour is about one of them and the others    *)
(* stay as they began.                                                        *)
EXTENDS Ledger, CausalOrder, EvidenceFeed

\* Events, the openers and the contents are told apart.
CONSTANTS p1, p2

VARIABLE part       \* what the behaviour is about

MCHandover(id) ==
    CASE id = "assign" -> "owner"
      [] id = "cancel" -> None
      [] OTHER -> "unchanged"

\* Bound: only the first two events of a history are altered on the way.
AlteredBelow == 2

\* Another sequence number, another pin, an outcome its move does not produce,
\* a private reference on a public event.
MCAltered(e) ==
    IF e.sequence >= AlteredBelow THEN {}
    ELSE { [e EXCEPT !.sequence = @ + 1],
           [e EXCEPT !.program_hash = "rcv1:other"],
           [e EXCEPT !.terminal_outcome = IF @ = None THEN "CANCELLED" ELSE None],
           [e EXCEPT !.leaks = TRUE] }

MCOpeners == {p1, p2}

\* "e" is an id of the caller's own under which two contents come, and "h" a
\* content: that of the first "e", and of a decision, which is named by it.
MCArtifacts ==
    {[class |-> "RuntimeSecurityEvent", event_id |-> "e", parent_event_id |-> "h", payload |-> "h"],
     [class |-> "TraceContext", span_id |-> "e", parent_span_id |-> NoId, payload |-> "g"],
     [class |-> "SecurityDecision", payload |-> "h"]}
MCNoStamps == {}

-----------------------------------------------------------------------------
HistoryVars == <<vars, orderVars, feedVars, part>>

HistoryInit ==
    /\ part \in {"ledger", "order", "evidence"}
    /\ part # "order" => events = << >>
    /\ Init /\ OrderInit /\ FeedInit

HistoryNext ==
    \/ part = "ledger" /\ Next /\ UNCHANGED <<orderVars, feedVars, part>>
    \/ part = "order" /\ OrderNext /\ UNCHANGED <<vars, feedVars, part>>
    \/ part = "evidence" /\ FeedNext /\ UNCHANGED <<vars, orderVars, part>>

HistorySpec == HistoryInit /\ [][HistoryNext]_HistoryVars
                           /\ \A i \in 1..MaxEvents : WF_vars(Deliver(i))
=============================================================================

------------------------- MODULE SecurityTrajectory -------------------------
(***************************************************************************)
(* The projection of a security-telemetry stream and its correlation into *)
(* a disposition (runtime_contracts/protocol/telemetry.py,                *)
(* SecurityTrajectory and correlate).                                      *)
(*                                                                         *)
(* An event keeps the fields the correlation reads; a trajectory is the   *)
(* sequence of events added so far.                                        *)
(***************************************************************************)
EXTENDS Integers, Sequences, FiniteSets, SequencesExt, FiniteSetsExt

CONSTANTS
    Planned,                \* planned_capabilities
    MaxExternalRecords,     \* max_external_records
    MaxFanout,              \* max_fanout
    None                    \* the empty string of an unset field

\* RuntimeSecurityEvent: hard stands for the event types PRIVILEGE_ESCALATION
\* and SANDBOX_VIOLATION, sensitive for a classification in
\* SENSITIVE_CLASSIFICATIONS, external for a non-empty network field, records
\* for the count of the records_read side effect.
IsSecurityEvent(e) ==
    /\ e.hard \in BOOLEAN
    /\ e.sensitive \in BOOLEAN
    /\ e.external \in BOOLEAN
    /\ e.records \in Nat

-----------------------------------------------------------------------------
Capabilities(traj) == {e.capability : e \in ToSet(traj)} \ {None}

RecordsRead(traj) == FoldLeft(LAMBDA n, e : n + e.records, 0, traj)

\* fanout: the largest number of events under one cause, 0 when none has one.
Fanout(traj) ==
    Max({0} \cup {Cardinality({i \in DOMAIN traj : traj[i].cause = c}) :
                    c \in {e.cause : e \in ToSet(traj)} \ {None}})

Divergence(traj) == Capabilities(traj) \ Planned

\* GovernanceDisposition.rank
Rank(disposition) ==
    CASE disposition = "ALLOW" -> 0
      [] disposition = "REQUIRE_REVIEW" -> 1
      [] disposition = "NO_OVERRIDE" -> 2
      [] disposition = "DENY" -> 3

HardTransition(traj) == \E e \in ToSet(traj) : e.hard

Exfiltration(traj) ==
    /\ \E e \in ToSet(traj) : e.sensitive
    /\ \E e \in ToSet(traj) : e.external
    /\ RecordsRead(traj) > MaxExternalRecords

\* The reasons list of correlate, as the set of dispositions that fired.
Reasons(traj) ==
    {d \in {"NO_OVERRIDE", "REQUIRE_REVIEW", "DENY"} :
        \/ d = "NO_OVERRIDE" /\ HardTransition(traj)
        \/ d = "DENY" /\ Exfiltration(traj)
        \/ /\ d = "REQUIRE_REVIEW"
           /\ \/ Planned # {} /\ Divergence(traj) # {}
              \/ Fanout(traj) > MaxFanout}

\* correlate: ALLOW when no reason fired, else the reason of highest rank.
Correlate(traj) ==
    IF Reasons(traj) = {} THEN "ALLOW"
    ELSE CHOOSE d \in Reasons(traj) : \A r \in Reasons(traj) : Rank(r) =< Rank(d)
=============================================================================

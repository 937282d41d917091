-------------------------- MODULE EvidenceProjection --------------------------
(***************************************************************************)
(* The rows of the evidence plane: the envelope that fills in its own      *)
(* identity, and the projection of the runtime's artifacts onto it         *)
(* (runtime_contracts/store/envelope.py).                                  *)
(*                                                                         *)
(* A payload stands for its own content hash, and ids and hashes are names *)
(* of one kind, because a reference may be either.  Of the columns the     *)
(* ones by which a trajectory is walked are kept.                          *)
(***************************************************************************)
NoId == ""

\* EvidenceEnvelope.__post_init__: an envelope without an id is named by its hash.
Envelope(id, parent, payload) ==
    [event_id |-> IF id = NoId THEN payload ELSE id, parent_event_id |-> parent,
     body |-> payload]

\* The artifacts that are named by their content alone: they have no occurrence
\* of their own and no place in a trajectory.
ContentAddressed == {"SecurityDecision", "GovernanceDisposition", "TrajectoryDisposition"}

\* project: which attribute of an artifact becomes which column.
Project(a) ==
    CASE a.class \in ContentAddressed -> Envelope(NoId, NoId, a.payload)
      [] a.class = "TraceContext" -> Envelope(a.span_id, a.parent_span_id, a.payload)
      [] OTHER -> Envelope(a.event_id, a.parent_event_id, a.payload)
=============================================================================

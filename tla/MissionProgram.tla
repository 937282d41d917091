--------------------------- MODULE MissionProgram ---------------------------
(***************************************************************************)
(* A versioned lifecycle and the moves it permits                          *)
(* (runtime_contracts/models/mission.py).                                  *)
(*                                                                         *)
(* A program is a record.  Its transitions are a set of records; a         *)
(* constructed program has one per transition id.  The content hash of a   *)
(* program is a token: equal for the same program, distinct for programs   *)
(* that differ, which is what SHA-256 over the canonical form is used for. *)
(***************************************************************************)
EXTENDS FiniteSets

CONSTANT None       \* the Python None of an optional field

-----------------------------------------------------------------------------
Reached(p) == {t.to_state : t \in p.transitions}

DeclaredOutcomes(p) == {t.outcome : t \in p.transitions} \ {None}

\* Transition.__post_init__
WellFormedTransition(t) ==
    /\ t.from_states # {}
    /\ t.needs_verifier => t.verification_method # None

\* The checks of MissionProgram.__post_init__ on one transition.
TransitionFits(p, t) ==
    /\ t.from_states \cup {t.to_state} \subseteq p.states
    /\ t.to_state \in p.terminal <=> t.outcome # None
    /\ t.outcome # None => t.outcome \in DOMAIN p.outcomes
    /\ t.from_states \cap p.terminal = {}
    /\ t.retries => p.supports.retries
    /\ t.compensation # None => p.supports.compensation

\* MissionProgram.__post_init__: a program that violates one of these raises
\* and never exists.
WellFormed(p) ==
    /\ p.initial_state \in p.states
    /\ \A t, u \in p.transitions : t.transition_id = u.transition_id => t = u
    /\ \A t \in p.transitions : WellFormedTransition(t) /\ TransitionFits(p, t)
    /\ \E o \in DOMAIN p.outcomes : p.outcomes[o].disposition = "PRODUCED_NOTHING"
    /\ p.states \ {p.initial_state} \subseteq Reached(p)
    /\ DOMAIN p.outcomes \subseteq DeclaredOutcomes(p)
    /\ p.supports.pause =>
          {t.to_state : t \in {u \in p.transitions : u.pauses}}
              \subseteq UNION {t.from_states : t \in p.transitions}
    /\ UNION {p.outcomes[o].emits : o \in DOMAIN p.outcomes} \subseteq p.emitted_outputs

\* permits: the transitions that match; at most one in a well-formed program.
Permits(p, from, to, id) ==
    {t \in p.transitions :
        from \in t.from_states /\ t.to_state = to /\ t.transition_id = id}

-----------------------------------------------------------------------------
Transition(id, from, to, outcome, method, verifier, compensation) ==
    [transition_id |-> id, from_states |-> from, to_state |-> to,
     outcome |-> outcome, verification_method |-> method,
     needs_verifier |-> verifier, compensation |-> compensation,
     retries |-> FALSE, pauses |-> id = "pause"]

TerminalOutcome(disposition, emits) ==
    [disposition |-> disposition, emits |-> emits]

\* The lifecycle of an investigation.
INVESTIGATION_PROGRAM ==
    [content_hash  |-> "rcv1:investigation/default@1",
     initial_state |-> "PROPOSED",
     states        |-> {"PROPOSED", "ASSIGNED", "ACTIVE", "PAUSED", "BLOCKED",
                        "CONCLUDED"},
     terminal      |-> {"CONCLUDED"},
     supports      |-> [pause |-> TRUE, cancellation |-> TRUE,
                        retries |-> FALSE, compensation |-> TRUE],
     emitted_outputs |-> {"evidence", "finding", "investigation_transition_event"},
     outcomes |->
        [o \in {"FINDING_PRODUCED", "INCONCLUSIVE", "NO_MATERIAL_IMPACT", "CANCELLED"} |->
            CASE o = "FINDING_PRODUCED" -> TerminalOutcome("PRODUCED_RESULT", {"finding"})
              [] o = "CANCELLED" -> TerminalOutcome("STOPPED", {})
              [] OTHER -> TerminalOutcome("PRODUCED_NOTHING", {})],
     transitions |->
        { Transition("assign", {"PROPOSED"}, "ASSIGNED", None, None, FALSE, None),
          Transition("start", {"ASSIGNED", "PAUSED"}, "ACTIVE", None, None, FALSE, None),
          Transition("pause", {"ACTIVE"}, "PAUSED", None, None, FALSE, "start"),
          Transition("block", {"ACTIVE"}, "BLOCKED", None, None, FALSE, None),
          Transition("unblock", {"BLOCKED"}, "ACTIVE", None, None, FALSE, None),
          Transition("conclude_with_finding", {"ACTIVE"}, "CONCLUDED",
                     "FINDING_PRODUCED", "finding_is_evidenced", TRUE, None),
          Transition("conclude_inconclusive", {"ACTIVE"}, "CONCLUDED",
                     "INCONCLUSIVE", "examined_something", FALSE, None),
          Transition("conclude_no_impact", {"ACTIVE"}, "CONCLUDED",
                     "NO_MATERIAL_IMPACT", "examined_something", FALSE, None),
          Transition("cancel", {"PROPOSED", "ASSIGNED", "ACTIVE", "PAUSED", "BLOCKED"},
                     "CONCLUDED", "CANCELLED", None, FALSE, None) }]
=============================================================================

------------------------------- MODULE QASpec -------------------------------
(***************************************************************************)
(* What a TestSpec is made of and the guards it is constructed under       *)
(* (runtime_contracts/qa/spec.py), and what a later version of it needs    *)
(* (runtime_contracts/qa/integrity.py).                                    *)
(*                                                                         *)
(* A spec has ordered steps and a frozen function of assertions by id.     *)
(* Locators, resources and texts are not kept; an optional field is a set  *)
(* of at most one element.                                                 *)
(***************************************************************************)
EXTENDS FiniteSets, Sequences, Naturals

UI_ACTIONS == {"click", "fill", "press", "select", "check", "uncheck", "hover", "navigate"}
RESOURCE_ACTIONS == {"resolve"}
VALUE_ACTIONS == {"fill", "press", "select", "navigate"}

PermittedRecovery ==
    {"RETRY_SAME", "SEMANTIC_LOCATOR", "MODEL_CANDIDATE", "RESET_FIXTURE", "CHECKPOINT_RESUME"}

\* Action: a value, a secret reference, or neither, as its kind asks for.
ActionHolds(a) ==
    Cardinality(a.carries) = (IF a.kind \in VALUE_ACTIONS THEN 1 ELSE 0)

\* StepTarget: a ui target has a locator, a resource target a resource.
TargetHolds(t) == t.has = (IF t.kind = "ui" THEN {"locator"} ELSE {"resource"})

ActionMatchesTarget(s) ==
    s.action.kind \in (IF s.target.kind = "ui" THEN UI_ACTIONS ELSE RESOURCE_ACTIONS)

\* Mutant: whatever is not marked at-most-once may be retried blind.
RecoveryIsSafe_Unmarked(s) ==
    /\ "RETRY_SAME" \in s.permitted_recovery => s.idempotency # "AT_MOST_ONCE"
    /\ ~(s.retry_safety = "SAFE" /\ s.idempotency = "AT_MOST_ONCE")

\* _guard_recovery_is_safe
RecoveryIsSafe(s) ==
    /\ "RETRY_SAME" \in s.permitted_recovery => s.idempotency = "IDEMPOTENT"
    /\ ~(s.retry_safety = "SAFE" /\ s.idempotency = "AT_MOST_ONCE")
    /\ s.target.kind = "resource" =>
          s.permitted_recovery \cap {"SEMANTIC_LOCATOR", "MODEL_CANDIDATE"} = {}

StepHolds(s) ==
    ActionHolds(s.action) /\ TargetHolds(s.target) /\ ActionMatchesTarget(s) /\ RecoveryIsSafe(s)

-----------------------------------------------------------------------------
\* SCRIPT reads the inputs of a check program, PLAYWRIGHT reads the rest.
ExecutorMatchesSubject(a) == a.executor = "SCRIPT" <=> a.subject = "RESOURCE_INPUTS"

\* A check program is pinned for SCRIPT, and only for it.
CheckProgramPinned(a) == a.executor = "SCRIPT" <=> a.check_program_ref # {}

\* Predicate: an expected value unless the operator takes none.
PredicateHolds(a) == a.op \in {"EXISTS", "ABSENT"} <=> a.expected = {}

AssertionHolds(a) ==
    /\ a.determinism = "DETERMINISTIC"
    /\ a.on_unresolvable = "INDETERMINATE"
    /\ ExecutorMatchesSubject(a)
    /\ CheckProgramPinned(a)
    /\ PredicateHolds(a)

\* Predicate.digest: what a result repeats of the assertion it is about.
ExpectedHash(a) == [op |-> a.op, expected |-> a.expected]

\* assertion_set_hash, as what it is the hash of.
AssertionSetHash(spec) == spec.assertions

\* spec_ref: id and hash of everything but custody.
SpecRef(spec) == [f \in DOMAIN spec \ {"author"} |-> spec[f]]

UniqueIds(spec) ==
    \A i, j \in DOMAIN spec.steps : i # j => spec.steps[i].step_id # spec.steps[j].step_id

SideEffectsAllowed(spec) ==
    \A i \in DOMAIN spec.steps :
        spec.steps[i].side_effect \in spec.allowed_side_effects \cup {"NONE"}

\* TestSpec.validate, and the constructors of what is in the spec.
SpecHolds(spec) ==
    /\ \A i \in DOMAIN spec.steps : StepHolds(spec.steps[i])
    /\ \A id \in DOMAIN spec.assertions : AssertionHolds(spec.assertions[id])
    /\ UniqueIds(spec)
    /\ DOMAIN spec.assertions # {}
    /\ SideEffectsAllowed(spec)
    /\ spec.id \notin spec.depends_on

-----------------------------------------------------------------------------
\* _guard_successor
Succeeds(new, previous) == new.id = previous.id /\ new.version > previous.version

\* required_approvals of a successor.
RequiredApprovals(previous, new) ==
    IF AssertionSetHash(previous) # AssertionSetHash(new) THEN 2 ELSE 1
=============================================================================

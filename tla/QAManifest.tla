----------------------------- MODULE QAManifest -----------------------------
(***************************************************************************)
(* The accounting of a QA run: the guards a RunManifest is constructed     *)
(* under (runtime_contracts/qa/manifest.py) and the classification of      *)
(* refusals (runtime_contracts/qa/integrity.py).                           *)
(*                                                                         *)
(* A manifest m is what the runner hands over: the assertion sets, one     *)
(* verdict per assertion it has a result for, which of the results were    *)
(* produced under another assertion set, how steps and faults ended, and   *)
(* the outcome it claims.                                                  *)
(***************************************************************************)
EXTENDS FiniteSets

CONSTANT Assertions     \* the assertions of a spec

Outcome ==
    {"PASS", "PRODUCT_FAIL", "TEST_DEFECT", "ENVIRONMENT_FAIL", "INCONCLUSIVE"}

Verdict == {"PASS", "FAIL", "INDETERMINATE"}

\* outcome_to_verdict
OutcomeVerdict(out) ==
    CASE out = "PASS" -> "PASS"
      [] out = "PRODUCT_FAIL" -> "FAIL"
      [] out \in Outcome \ {"PASS", "PRODUCT_FAIL"} -> "INDETERMINATE"

\* The manifests a runner may hand over for a spec: whatever its bookkeeping
\* lost, repeated or mixed up.  Each assertion is declared, as the spec's
\* frozen set is what was loaded.
Manifests ==
    UNION { [declared : {Assertions},
             executed : SUBSET Assertions,
             skipped : SUBSET Assertions,
             verdict : [reported -> Verdict],
             foreign : SUBSET reported,
             steps_ok : BOOLEAN,
             unrecovered : BOOLEAN,
             outcome : Outcome,
             reason : {"ASSERTION_INTEGRITY", "OTHER"}] :
            reported \in SUBSET Assertions }

\* coverage_violations is not empty.
CoverageBroken(m) ==
    \/ ~(m.executed \subseteq m.declared)
    \/ ~(m.skipped \subseteq m.declared)
    \/ m.executed \cap m.skipped # {}
    \/ m.declared \ (m.executed \cup m.skipped) # {}

\* Mutant: results are not compared with what was executed.
IntegrityBroken_AnyResults(m) == CoverageBroken(m) \/ m.foreign # {}

\* integrity_violations is not empty.
IntegrityBroken(m) ==
    \/ CoverageBroken(m)
    \/ DOMAIN m.verdict # m.executed
    \/ m.foreign # {}

ClaimsIntegrity(m) == m.outcome = "INCONCLUSIVE" /\ m.reason = "ASSERTION_INTEGRITY"

\* _guard_manifest_integrity raises AssertionIntegrityError(COVERAGE_VIOLATION)
HidesViolation(m) == IntegrityBroken(m) /\ ~ClaimsIntegrity(m)

\* _guard_pass_is_earned.  A verdict PASS is deterministic by the shape of an
\* AssertionResult.
PassEarned(m) ==
    /\ m.declared # {}
    /\ m.skipped = {}
    /\ m.executed = m.declared
    /\ \A a \in DOMAIN m.verdict : m.verdict[a] = "PASS"
    /\ m.steps_ok
    /\ ~m.unrecovered

\* RunManifest.validate returns: the guards on integrity, PASS and PRODUCT_FAIL.
Recordable(m) ==
    /\ ~HidesViolation(m)
    /\ m.reason = "ASSERTION_INTEGRITY" => IntegrityBroken(m)
    /\ m.outcome = "PASS" => PassEarned(m)
    /\ m.outcome = "PRODUCT_FAIL" => \E a \in DOMAIN m.verdict : m.verdict[a] = "FAIL"

-----------------------------------------------------------------------------
IntegrityCodes ==
    {"ASSERTION_INTEGRITY", "ASSERTION_PIN_NOT_FOUND",
     "ASSERTION_HASH_MISMATCH", "ASSERTION_PROGRAM_UNREGISTERED",
     "ASSERTION_PROGRAM_MISMATCH", "COVERAGE_VIOLATION", "BATCH_HALTED"}

\* A code of another kind, and one this version has never heard of.
OtherKnownCodes == {"SPEC_INVALID"}
UnknownCodes == {"NEWER_CODE"}

\* classify_refusal and refusal_halts_batch, fail closed.
HaltsBatch(code) == code \in IntegrityCodes \/ code \notin OtherKnownCodes
=============================================================================

----------------------------- MODULE QARecords -----------------------------
(***************************************************************************)
(* The records of a QA run: the guards they are constructed under          *)
(* (runtime_contracts/qa/records.py, fault.py), what an adapter error      *)
(* allows (errors.py), what recovery may hand back and how a manifest is   *)
(* held against its spec (conformance.py), and how records are written and *)
(* read (base.py).                                                         *)
(*                                                                         *)
(* A hash is what it is the hash of.  A record as JSON is                  *)
(* [version, body, extra, content_hash]: extra are fields that a newer     *)
(* writer adds, and a hash that may be missing is a set of at most one.    *)
(***************************************************************************)
EXTENDS QASpec, QAManifest

-----------------------------------------------------------------------------
Error(retryable, recoverable) == [retryable |-> retryable, recoverable |-> recoverable]

\* The typed error a result code stands for; its category and hint are left out.
ADAPTER_ERRORS ==
    [LOCATOR_NOT_FOUND |-> Error(FALSE, TRUE), LOCATOR_AMBIGUOUS |-> Error(FALSE, TRUE),
     TARGET_NOT_ACTIONABLE |-> Error(TRUE, TRUE), ACTION_TIMEOUT |-> Error(TRUE, TRUE),
     UNEXPECTED_DIALOG |-> Error(FALSE, TRUE), SESSION_LOST |-> Error(FALSE, TRUE),
     NAVIGATION_DENIED |-> Error(FALSE, FALSE), ACTION_BLOCKED_BY_POLICY |-> Error(FALSE, FALSE),
     ENVIRONMENT_UNHEALTHY |-> Error(FALSE, TRUE), ADAPTER_CRASH |-> Error(FALSE, TRUE),
     BROWSER_CRASH |-> Error(FALSE, TRUE), RESET_FAILED |-> Error(FALSE, FALSE),
     RESOURCE_LIMIT_EXCEEDED |-> Error(FALSE, FALSE), REDACTION_FAILED |-> Error(FALSE, FALSE),
     UNSUPPORTED_OPERATION |-> Error(FALSE, FALSE)]

ResultCode == {"OK"} \cup DOMAIN ADAPTER_ERRORS

\* error_for: nothing went wrong for OK.
ErrorFor(code) == IF code = "OK" THEN {} ELSE {ADAPTER_ERRORS[code]}

PostconditionResult == {"SATISFIED", "NOT_SATISFIED", "NOT_EVALUATED"}

\* ActionReceipt: a satisfied postcondition follows an action that ended OK, an
\* evaluated one says what was observed, and a blocked action changed nothing.
ReceiptHolds(r) ==
    /\ r.result \in ResultCode
    /\ r.postcondition = "SATISFIED" => r.result = "OK"
    /\ r.postcondition # "NOT_EVALUATED" => r.observed
    /\ r.result = "ACTION_BLOCKED_BY_POLICY" => r.state_after = r.state_before

\* ObservedValue: a value only for a subject that resolved to one element.
ObservedHolds(v) ==
    CASE v.resolution = "RESOLVED" -> v.match_count = 1
      [] v.resolution = "UNRESOLVED" -> v.match_count = 0 /\ v.value = {}
      [] v.resolution = "AMBIGUOUS" -> v.match_count >= 2 /\ v.value = {}

\* AssertionResult.  A conclusive verdict is deterministic and says what was read.
ResultHolds(r) ==
    /\ r.verdict # "NOT_APPLICABLE"
    /\ r.verdict \in {"PASS", "FAIL"} =>
          r.determinism = "DETERMINISTIC" /\ r.reason_code = {} /\ r.actual # {}
    /\ r.verdict = "INDETERMINATE" => r.reason_code # {}

-----------------------------------------------------------------------------
DetectionHolds(d) ==
    /\ d.detected => d.signal # "NONE"
    /\ ~d.detected => d.signal = "NONE" /\ d.claimed_class = "UNKNOWN"

\* FaultRecovery: the shape, and RECOVERED as the step's own postcondition says.
RecoveryHolds(r) ==
    /\ r.attempted => /\ r.strategy # "NONE" /\ r.attempts >= 1
                      /\ r.result # "NOT_ATTEMPTED" /\ r.suppressed_reason = "NONE"
    /\ ~r.attempted => /\ r.attempts = 0 /\ r.result = "NOT_ATTEMPTED"
                       /\ ~r.postcondition_verified
    /\ r.result = "RECOVERED" <=> r.postcondition_verified

\* Mutant: the detection a recovery names is not compared.
FaultHolds_Unbound(e) == ~e.detection.detected => ~e.recovery.attempted

\* FaultEvent: the recovery names the detection by its hash.
FaultHolds(e) ==
    /\ e.detection_ref = e.detection
    /\ ~e.detection.detected => ~e.recovery.attempted

\* What a recoverer hands back is a bounded list of strict candidates, or is
\* refused whole: no authored locator, no empty one, no other key.
CANDIDATE_KEYS == {"strategy", "role", "name", "test_id", "label"}

CandidateHolds(c) ==
    /\ c.keys \subseteq CANDIDATE_KEYS
    /\ c.strategy # "AUTHORED"
    /\ c.keys \ {"strategy"} # {}

\* parse_recovery_candidates: the candidates, or none.
ParseCandidates(list, limit) ==
    IF Len(list) <= limit /\ \A i \in DOMAIN list : CandidateHolds(list[i])
    THEN {list[i] : i \in DOMAIN list} ELSE {}

-----------------------------------------------------------------------------
\* Mutant: keys are compared within the attempts of a step.
KeyViolations_PerStep(receipts) ==
    IF \E r, s \in receipts : r.step_id = s.step_id /\ r.key # s.key
    THEN {"IDEMPOTENCY_KEY_CHANGED_ACROSS_ATTEMPTS"} ELSE {}

\* idempotency_key_violations of the receipts of one run.
KeyViolations(receipts) ==
    LET KeysOf(step) == {r.key : r \in {s \in receipts : s.step_id = step}}
        StepsOf(key) == {r.step_id : r \in {s \in receipts : s.key = key}}
    IN  (IF \E r \in receipts : Cardinality(KeysOf(r.step_id)) > 1
         THEN {"IDEMPOTENCY_KEY_CHANGED_ACROSS_ATTEMPTS"} ELSE {})
        \cup
        (IF \E r \in receipts : Cardinality(StepsOf(r.key)) > 1
         THEN {"IDEMPOTENCY_KEY_SHARED_ACROSS_STEPS"} ELSE {})

-----------------------------------------------------------------------------
\* What the guards of a RunManifest look at.  Every result is deterministic if
\* it is conclusive; a recovered fault is one its postcondition says is.
Account(m) ==
    [declared |-> m.declared, executed |-> m.executed, skipped |-> m.skipped,
     verdict |-> [a \in DOMAIN m.results |-> m.results[a].verdict],
     foreign |-> {a \in DOMAIN m.results : m.results[a].set_hash # m.assertion_set_hash},
     steps_ok |-> \A s \in m.step_results : s.result = "OK" /\ s.postcondition = "SATISFIED",
     unrecovered |-> \E e \in m.faults :
                        e.detection.detected /\ ~e.recovery.postcondition_verified,
     outcome |-> m.outcome, reason |-> m.outcome_reason]

ManifestHolds(m) ==
    /\ \A a \in DOMAIN m.results : ResultHolds(m.results[a])
    /\ \A e \in m.faults : FaultHolds(e)
    /\ Recordable(Account(m))

\* Mutant: results are held against the assertion but not against its value.
ResultMatches_AnyExpected(r, assertion) == r.executor = assertion.executor

\* check_result_matches_assertion
ResultMatches(r, assertion) ==
    r.executor = assertion.executor /\ r.expected_hash = ExpectedHash(assertion)

\* Mutant: assertion sets are compared, specs are not.
ManifestMatches_SameSet(m, spec) ==
    /\ m.assertion_set_hash = AssertionSetHash(spec)
    /\ m.declared = DOMAIN spec.assertions
    /\ \A a \in DOMAIN m.results : ResultMatches(m.results[a], spec.assertions[a])

\* verify_manifest_against_spec returns.
ManifestMatches(m, spec) ==
    /\ m.spec_ref = SpecRef(spec)
    /\ m.assertion_set_hash = AssertionSetHash(spec)
    /\ m.declared = DOMAIN spec.assertions
    /\ \A a \in DOMAIN m.results :
          /\ a \in DOMAIN spec.assertions
          /\ ResultMatches(m.results[a], spec.assertions[a])

-----------------------------------------------------------------------------
\* The canonical form of a Check leaves its wording out.
ResultIdentity(r) == [f \in DOMAIN r \ {"detail"} |-> r[f]]

\* What a manifest is the hash of: no custody, and the identity of its results.
Identity(m) ==
    [f \in DOMAIN m \ {"custody"} |->
        IF f = "results" THEN [a \in DOMAIN m.results |-> ResultIdentity(m.results[a])]
        ELSE m[f]]

\* to_json: everything is written, a reused type with every field of it.
ToJson(m, extra) ==
    [version |-> "0.1", body |-> m, extra |-> extra,
     content_hash |-> {[fields |-> Identity(m), extra |-> extra]}]

\* Mutant: the stored hash is not compared.
FromJson_NoHash(json) ==
    IF json.version # "0.1" THEN "SCHEMA_VERSION_UNSUPPORTED"
    ELSE IF json.extra # {} THEN "UNKNOWN_FIELD"
    ELSE IF ~ManifestHolds(json.body) THEN "INVALID"
    ELSE "read"

\* from_json: the code it raises, or "read".
FromJson(json) ==
    IF json.version # "0.1" THEN "SCHEMA_VERSION_UNSUPPORTED"
    ELSE IF json.extra # {} THEN "UNKNOWN_FIELD"
    ELSE IF ~ManifestHolds(json.body) THEN "INVALID"
    ELSE IF ~(json.content_hash \subseteq {[fields |-> Identity(json.body), extra |-> {}]})
         THEN "HASH_MISMATCH"
    ELSE "read"

\* strip_non_identity: hash and custody go from every record, and nothing else.
StripNonIdentity(json) ==
    [fields |-> [f \in DOMAIN json.body \ {"custody"} |-> json.body[f]], extra |-> json.extra]

\* verify_stored_hash, for a reader that may not know every field.
VerifyStoredHash(json) == json.content_hash = {StripNonIdentity(json)}
=============================================================================

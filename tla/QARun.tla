------------------------------- MODULE QARun -------------------------------
(***************************************************************************)
(* One QA run of one version of a spec: its steps are attempted, faults    *)
(* are detected and recovered, a verifier evaluates the assertions, the    *)
(* runner writes a manifest, and a consumer reads it from a store and      *)
(* holds it against a spec (runtime_contracts/qa).                         *)
(*                                                                         *)
(* Runner, verifier, adapter and recoverer are not in this repository.     *)
(* They do what the adapter protocol, the typed errors and the docs let    *)
(* them do.  A runner that reports leaves out what it likes: results,      *)
(* faults, steps, and how a step ended; what the verifier read is trusted. *)
(* The store may change a record between writing and reading, and a        *)
(* successor of the spec may be published meanwhile.                       *)
(***************************************************************************)
EXTENDS QARecords, Functions

CONSTANTS
    Specs,          \* the specs somebody writes
    Payloads,       \* the lists of candidates a recoverer may hand back
    CandidateLimit, \* how many candidates a list may have
    Keys,           \* idempotency keys
    Endings,        \* how attempts may end: <<result, took effect, postcondition>>
    Claims,         \* the verdicts and outcomes a runner claims
    MaxVersions     \* bound: versions of the spec in a behaviour

\* The steps that are in a spec, and what they are called.
Steps == UNION {{spec.steps[i] : i \in DOMAIN spec.steps} : spec \in Specs}
StepIds == {step.step_id : step \in Steps}

ASSUME SpecsAssumption == \A spec \in Specs : spec.steps \in Seq(Steps)
ASSUME EndingsAssumption == Endings \subseteq ResultCode \X BOOLEAN \X PostconditionResult
ASSUME BoundsAssumption == MaxVersions \in Nat

VARIABLES
    published,      \* the versions of the spec, each with its approvals
    run,            \* index of the version that runs, next step, ended or not
    receipts,       \* the action receipts, in order
    effects,        \* how often the action of each step took effect (history)
    pending,        \* the fault at hand, if any: its detection, and the result it followed
    redo,           \* if earlier steps are done again: by which recovery, and the next one
    first,          \* the detections as they were hashed, by step (history)
    faults,         \* the fault events
    evaluated,      \* what the verifier did for each assertion (history)
    results,        \* the assertion results it handed over
    stored,         \* the manifest in the store, if any
    reading         \* how the consumer's last reading ended

stepVars == <<receipts, effects, pending, redo, first, faults>>
resultVars == <<evaluated, results>>
vars == <<published, run, stepVars, resultVars, stored, reading>>

Spec_(i) == published[i].spec
TheSpec == Spec_(run.version)
TheStep == TheSpec.steps[run.step]

Attempts(step) == {i \in DOMAIN receipts : receipts[i].step_id = step}

-----------------------------------------------------------------------------
Init ==
    /\ \E spec \in Specs : SpecHolds(spec) /\ published = <<[spec |-> spec, approvals |-> 1]>>
    /\ run = [version |-> 1, step |-> 1, ended |-> FALSE]
    /\ receipts = << >>
    /\ effects = [s \in StepIds |-> 0]
    /\ pending = {} /\ redo = {} /\ first = {} /\ faults = {}
    /\ evaluated = << >> /\ results = << >>
    /\ stored = {}
    /\ reading = [code |-> "unread", spec |-> 0]

\* A successor is published with the approvals it needs.
Publish(spec) ==
    /\ Len(published) < MaxVersions
    /\ SpecHolds(spec)
    /\ Succeeds(spec, Spec_(Len(published)))
    /\ published' = Append(published, [spec |-> spec,
                          approvals |-> RequiredApprovals(Spec_(Len(published)), spec)])
    /\ UNCHANGED <<run, stepVars, resultVars, stored, reading>>

Receipt(step, key, result, postcondition, changed) ==
    [step_id |-> step.step_id, key |-> key, result |-> result,
     postcondition |-> postcondition, observed |-> postcondition # "NOT_EVALUATED",
     state_before |-> 0, state_after |-> IF changed THEN 1 ELSE 0]

\* The errors that say the action was not carried out.
NotCarriedOut ==
    {"LOCATOR_NOT_FOUND", "LOCATOR_AMBIGUOUS", "TARGET_NOT_ACTIONABLE",
     "ACTION_BLOCKED_BY_POLICY", "UNSUPPORTED_OPERATION"}

\* An attempt at a step: a policy decision, act, and its receipt.  A timeout, a
\* crash or a lost session does not say whether the action took effect.
Act(step, key, result, took, postcondition) ==
    LET r == Receipt(step, key, result, postcondition, took) IN
    /\ result \in NotCarriedOut => ~took
    /\ result = "OK" => took
    /\ ReceiptHolds(r)
    /\ receipts' = Append(receipts, r)
    /\ effects' = [effects EXCEPT ![r.step_id] = @ + (IF took THEN 1 ELSE 0)]

\* The signal a detection names for how an attempt ended.
SignalOf(result) ==
    CASE result = "OK" -> "TRANSITION_NOT_OBSERVED"
      [] result \in {"LOCATOR_NOT_FOUND", "LOCATOR_AMBIGUOUS", "ACTION_TIMEOUT", "SESSION_LOST"} -> result
      [] result = "ACTION_BLOCKED_BY_POLICY" -> "POLICY_DENIED"
      [] result = "NAVIGATION_DENIED" -> "NETWORK_BLOCKED"
      [] result = "UNEXPECTED_DIALOG" -> "UNEXPECTED_OVERLAY"
      [] OTHER -> "ENV_UNHEALTHY"

Done(result, postcondition) == result = "OK" /\ postcondition = "SATISFIED"

\* The first attempt at a step.  If it did not do, a detection is hashed.
FirstAttempt(key, result, took, postcondition) ==
    /\ ~run.ended /\ run.step <= Len(TheSpec.steps) /\ pending = {}
    /\ Act(TheStep, key, result, took, postcondition)
    /\ LET d == [detected |-> TRUE, signal |-> SignalOf(result), claimed_class |-> "UNKNOWN"]
       IN  IF Done(result, postcondition)
           THEN run' = [run EXCEPT !.step = @ + 1] /\ UNCHANGED <<pending, first>>
           ELSE /\ DetectionHolds(d)
                /\ pending' = {[detection |-> d, result |-> result]}
                /\ first' = first \cup {[step_id |-> TheStep.step_id, detection |-> d]}
                /\ UNCHANGED run
    /\ UNCHANGED <<published, redo, faults, resultVars, stored, reading>>

\* What the runner tries after an error that is recoverable but not retryable: a
\* lost locator is located by another one, a sick environment is reset, after a
\* lost session, a dialog or a crash the run resumes from a checkpoint.
RecoveredBy(code) ==
    IF code \in {"LOCATOR_NOT_FOUND", "LOCATOR_AMBIGUOUS"} THEN {"SEMANTIC_LOCATOR", "MODEL_CANDIDATE"}
    ELSE IF code = "ENVIRONMENT_UNHEALTHY" THEN {"RESET_FIXTURE"}
    ELSE {"CHECKPOINT_RESUME"}

\* What the runner may try of what the step permits; an action that ended OK
\* without its transition may be tried the same.
Strategies(step, result) ==
    step.permitted_recovery \cap
        (IF result = "OK" THEN {"RETRY_SAME"}
         ELSE UNION {IF e.retryable THEN {"RETRY_SAME"} ELSE RecoveredBy(result) :
                        e \in {f \in ErrorFor(result) : f.recoverable}})

\* The recoveries that go back to a checkpoint, and do its steps again.
StartsOver == {"RESET_FIXTURE", "CHECKPOINT_RESUME"}

\* The event of the fault at hand, with the detection as the runner hands it
\* over and the recovery that names the one that was hashed.
FaultEvent(handedOver, recovery) ==
    [step_id |-> TheStep.step_id, detection |-> handedOver, recovery |-> recovery,
     detection_ref |-> (CHOOSE p \in pending : TRUE).detection]

Handovers == {[p.detection EXCEPT !.claimed_class = c, !.signal = s] :
                 p \in pending, c \in {"UNKNOWN", "BENIGN_DRIFT"},
                 s \in {"ENV_UNHEALTHY"} \cup {q.detection.signal : q \in pending}}

\* The step is over, with its fault recorded.
CloseFault(recovery) ==
    \E handedOver \in Handovers :
        LET e == FaultEvent(handedOver, recovery) IN
        /\ DetectionHolds(handedOver) /\ RecoveryHolds(recovery) /\ FaultHolds(e)
        /\ faults' = faults \cup {e}
        /\ pending' = {} /\ redo' = {}
        /\ run' = [run EXCEPT !.step = IF recovery.postcondition_verified
                                       THEN @ + 1 ELSE Len(TheSpec.steps) + 1]

Attempted(strategy, verified) ==
    [attempted |-> TRUE, strategy |-> strategy, attempts |-> 1,
     result |-> IF verified THEN "RECOVERED" ELSE "NOT_RECOVERED",
     postcondition_verified |-> verified, suppressed_reason |-> "NONE"]

\* Recovery is not attempted: the run goes on to its assertions.
Suppress(reason) ==
    /\ pending # {} /\ redo = {}
    /\ CloseFault([attempted |-> FALSE, strategy |-> "NONE", attempts |-> 0,
                   result |-> "NOT_ATTEMPTED", postcondition_verified |-> FALSE,
                   suppressed_reason |-> reason])
    /\ UNCHANGED <<published, receipts, effects, first, resultVars, stored, reading>>

\* The environment is reset or the session opened again, and the run goes back to
\* the checkpoint that was taken before step k.
StartOver(strategy, k) ==
    /\ redo = {} /\ k \in 1..run.step
    /\ \E p \in pending : strategy \in StartsOver \cap Strategies(TheStep, p.result)
    /\ redo' = {[strategy |-> strategy, step |-> k]}
    /\ UNCHANGED <<published, run, receipts, effects, pending, first, faults,
                   resultVars, stored, reading>>

\* A step before the faulty one is done again.  If it does not do, the fault is
\* not recovered.
Redo(key, result, took, postcondition) ==
    /\ \E at \in redo :
          /\ at.step < run.step
          /\ Act(TheSpec.steps[at.step], key, result, took, postcondition)
          /\ IF Done(result, postcondition)
             THEN redo' = {[at EXCEPT !.step = @ + 1]} /\ UNCHANGED <<run, pending, faults>>
             ELSE CloseFault(Attempted(at.strategy, FALSE))
    /\ UNCHANGED <<published, first, resultVars, stored, reading>>

\* One more attempt at the faulty step: with the same or, by a candidate, with
\* another locator, or when the steps since the checkpoint are done again.
Recover(strategy, payload, key, result, took, postcondition) ==
    /\ IF strategy \in StartsOver THEN redo = {[strategy |-> strategy, step |-> run.step]}
                                  ELSE redo = {}
    /\ \E p \in pending : strategy \in Strategies(TheStep, p.result)
    /\ strategy \in {"SEMANTIC_LOCATOR", "MODEL_CANDIDATE"} =>
          ParseCandidates(payload, CandidateLimit) # {}
    /\ Act(TheStep, key, result, took, postcondition)
    /\ CloseFault(Attempted(strategy, Done(result, postcondition)))
    /\ UNCHANGED <<published, first, resultVars, stored, reading>>

-----------------------------------------------------------------------------
\* What a subject may read as.
Observed ==
    {[resolution |-> "RESOLVED", match_count |-> 1, value |-> {v}] : v \in {"saved", "other"}}
    \cup {[resolution |-> "UNRESOLVED", match_count |-> 0, value |-> {}]}

\* What is reported of an assertion goes with the others.
Entered(f, a, r) == [b \in DOMAIN f \cup {a} |-> IF b = a THEN r ELSE f[b]]

\* The verifier evaluates an assertion as it was handed to it, which may not be
\* the frozen one: by an executor, against an expected value.
Evaluate(a, executor, expected, v) ==
    /\ ~run.ended /\ run.step > Len(TheSpec.steps) /\ pending = {}
    /\ a \notin DOMAIN results
    /\ ObservedHolds(v)
    /\ LET resolved == v.resolution = "RESOLVED"
           r == [verdict |-> IF ~resolved THEN TheSpec.assertions[a].on_unresolvable
                             ELSE IF v.value = expected THEN "PASS" ELSE "FAIL",
                 determinism |-> "DETERMINISTIC",
                 reason_code |-> IF resolved THEN {} ELSE {"SUBJECT_UNRESOLVED"},
                 actual |-> v.value, executor |-> executor,
                 expected_hash |-> [op |-> TheSpec.assertions[a].op, expected |-> expected],
                 set_hash |-> AssertionSetHash(TheSpec), detail |-> "wording"]
       IN  /\ ResultHolds(r)
           /\ results' = Entered(results, a, r)
    /\ evaluated' = Entered(evaluated, a, [executor |-> executor, value |-> v.value])
    /\ UNCHANGED <<published, run, stepVars, stored, reading>>

\* How each step ended: as its last attempt did.
StepResults ==
    {[step_id |-> receipts[i].step_id, result |-> receipts[i].result,
      postcondition |-> receipts[i].postcondition] :
        i \in {j \in DOMAIN receipts : \A k \in Attempts(receipts[j].step_id) : k <= j}}

\* What a runner may say of the steps: any of them, as it ended or as if it did.
StepReports ==
    LET Fine(s) == [s EXCEPT !.result = "OK", !.postcondition = "SATISFIED"]
    IN  UNION {{claimed \cup {Fine(s) : s \in told \ claimed} : claimed \in SUBSET told} :
                  told \in SUBSET StepResults}

\* What it hands over: any of the results, of the faults and of the steps.
Reports == [results : SUBSET DOMAIN results, faults : SUBSET faults, steps : StepReports]

Manifest(claim, report, custody) ==
    LET declared == DOMAIN TheSpec.assertions
        executed == report.results \cup claim.executed
    IN  [spec_ref |-> SpecRef(TheSpec), assertion_set_hash |-> AssertionSetHash(TheSpec),
         declared |-> declared, executed |-> executed, skipped |-> declared \ executed,
         results |-> Restrict(results, report.results), faults |-> report.faults,
         step_results |-> report.steps,
         outcome |-> claim.outcome, outcome_reason |-> claim.reason, custody |-> custody]

\* The run ends with the manifest the runner claims, if its constructor returns.
\* A newer writer adds fields this version does not know.
Write(claim, report, extra) ==
    /\ ~run.ended /\ run.step > Len(TheSpec.steps) /\ pending = {}
    /\ LET m == Manifest(claim, report, "counters") IN
       /\ ManifestHolds(m)
       /\ stored' = {[json |-> ToJson(m, extra), written |-> m, edited |-> FALSE]}
    /\ run' = [run EXCEPT !.ended = TRUE]
    /\ UNCHANGED <<published, stepVars, resultVars, reading>>

\* What an edit of the store makes of a manifest.
Edits(m) ==
    {[m EXCEPT !.outcome = out] : out \in {"PASS", "INCONCLUSIVE"}}
    \cup {[m EXCEPT !.results = [@ EXCEPT ![a].verdict = "PASS", ![a].reason_code = {},
                                          ![a].actual = {"saved"}]] : a \in DOMAIN m.results}
    \cup {[m EXCEPT !.faults = {}]}

\* An edit changes a field, or takes the hash away.
Edit(m, hash) ==
    /\ \E s \in stored :
          /\ ~s.edited
          /\ m \in Edits(s.json.body) \/ (m = s.json.body /\ hash = {})
          /\ stored' = {[s EXCEPT !.json.body = m, !.edited = TRUE, !.json.content_hash = hash]}
    /\ reading' = [code |-> "unread", spec |-> 0]
    /\ UNCHANGED <<published, run, stepVars, resultVars>>

\* A consumer reads the manifest and holds it against a version of the spec.
Read(i) ==
    /\ \E s \in stored :
          LET code == FromJson(s.json) IN
          reading' = [code |-> IF code # "read" THEN code
                               ELSE IF ManifestMatches(s.json.body, Spec_(i)) THEN "accepted"
                               ELSE "ASSERTION_INTEGRITY",
                      spec |-> i]
    /\ UNCHANGED <<published, run, stepVars, resultVars, stored>>

-----------------------------------------------------------------------------
Next ==
    \/ \E spec \in Specs : Publish(spec)
    \/ \E key \in Keys, e \in Endings :
          \/ FirstAttempt(key, e[1], e[2], e[3])
          \/ Redo(key, e[1], e[2], e[3])
    \/ \E strategy \in PermittedRecovery, payload \in Payloads, key \in Keys, e \in Endings :
          Recover(strategy, payload, key, e[1], e[2], e[3])
    \/ \E strategy \in StartsOver, k \in 1..run.step : StartOver(strategy, k)
    \/ Suppress("NOT_PERMITTED")
    \/ \E a \in DOMAIN TheSpec.assertions, executor \in {"PLAYWRIGHT", "SCRIPT"},
          expected \in {{"saved"}, {"other"}}, v \in Observed : Evaluate(a, executor, expected, v)
    \/ \E claim \in Claims, report \in Reports, extra \in {{}, {"newer_field"}} :
          Write(claim, report, extra)
    \/ \E s \in stored :
          \/ \E m \in Edits(s.json.body) : Edit(m, s.json.content_hash)
          \/ Edit(s.json.body, {})
    \/ \E i \in DOMAIN published : Read(i)

Spec == Init /\ [][Next]_vars

-----------------------------------------------------------------------------
(***************************************************************************)
(* An action is only done twice where the spec says so: its step is marked *)
(* idempotent, or it or a later step permits a reset or resuming from a    *)
(* checkpoint and ended in an error that asks for one.  A timeout, an      *)
(* unobserved transition and a healed locator never repeat what must       *)
(* happen once.  Going back to a checkpoint does: _guard_recovery_is_safe  *)
(* keeps RETRY_SAME from a step that is not idempotent, and nothing else.  *)
(***************************************************************************)
RepeatsAreAllowed ==
    \A i \in DOMAIN TheSpec.steps :
        effects[TheSpec.steps[i].step_id] > 1 =>
            \/ TheSpec.steps[i].idempotency = "IDEMPOTENT"
            \/ \E j \in DOMAIN TheSpec.steps, n \in DOMAIN receipts :
                  /\ j >= i
                  /\ receipts[n].step_id = TheSpec.steps[j].step_id
                  /\ Strategies(TheSpec.steps[j], receipts[n].result) \cap StartsOver # {}

(***************************************************************************)
(* A fault stays as it was detected before recovery began, however the     *)
(* runner classifies it afterwards.                                        *)
(***************************************************************************)
FaultsStayAsDetected ==
    \A e \in faults : [step_id |-> e.step_id, detection |-> e.detection] \in first

(***************************************************************************)
(* Receipts without a key violation let a target tell a replay from a new  *)
(* action: two attempts carry one key exactly if they are of one step.     *)
(***************************************************************************)
KeysTellReplays ==
    KeyViolations({receipts[i] : i \in DOMAIN receipts}) = {} =>
        \A i, j \in DOMAIN receipts :
            receipts[i].step_id = receipts[j].step_id <=> receipts[i].key = receipts[j].key

(***************************************************************************)
(* A PASS that a consumer accepts, from a manifest it wrote or whose hash  *)
(* was kept, was earned in this run and for that version of the spec:      *)
(* every assertion of it was read by its own executor and as its own       *)
(* expected value, whatever the runner left out or claimed.  Of the        *)
(* actions it says nothing: steps and faults that the runner leaves out of *)
(* the manifest are not missed.                                            *)
(***************************************************************************)
AcceptedPassIsEarned ==
    reading.code = "accepted" =>
        \A s \in stored :
            s.json.body.outcome = "PASS" /\ s.json.content_hash # {} =>
                /\ SpecRef(Spec_(reading.spec)) = SpecRef(TheSpec)
                /\ \A a \in DOMAIN TheSpec.assertions :
                      /\ a \in DOMAIN evaluated
                      /\ evaluated[a] = [executor |-> TheSpec.assertions[a].executor,
                                         value |-> TheSpec.assertions[a].expected]

(***************************************************************************)
(* What a consumer reads with its hash kept is what was written, custody   *)
(* and wording aside, though the store was edited in between and though    *)
(* the hash of a reused type leaves fields out that are written.           *)
(***************************************************************************)
AcceptedIsAsWritten ==
    reading.code \in {"accepted", "ASSERTION_INTEGRITY"} =>
        \A s \in stored :
            s.json.content_hash # {} => Identity(s.json.body) = Identity(s.written)

-----------------------------------------------------------------------------
(***************************************************************************)
(* "True when a received record's content_hash equals the rcv1 hash of its *)
(* own identity bytes.  Works on any same-major payload"                   *)
(* (runtime_contracts/qa/base.py:522-524).  A manifest with results is not *)
(* verified as it was written: to_json writes the detail of a Check, the   *)
(* hash leaves it out, and strip_non_identity does not take it away.       *)
(***************************************************************************)
WrittenVerifies == \A s \in stored : ~s.edited => VerifyStoredHash(s.json)
=============================================================================

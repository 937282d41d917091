------------------------------ MODULE MCQARun ------------------------------
(* QARun on specs of one and two steps, well formed ones and ones that only   *)
(* the guards of a spec keep out, and one successor.                          *)
EXTENDS QARun, TLC

CONSTANTS k1, k2   \* model values

Step(id, idempotency, permitted) ==
    [step_id |-> id, target |-> [kind |-> "ui", has |-> {"locator"}],
     action |-> [kind |-> "click", carries |-> {}], side_effect |-> "WRITE",
     idempotency |-> idempotency, retry_safety |-> "UNSAFE", permitted_recovery |-> permitted]

Resource(id, permitted) ==
    [Step(id, "IDEMPOTENT", permitted) EXCEPT
        !.target = [kind |-> "resource", has |-> {"resource"}],
        !.action = [kind |-> "resolve", carries |-> {}]]

Playwright(expected) ==
    [executor |-> "PLAYWRIGHT", subject |-> "UI_ELEMENT", op |-> "EQUALS", expected |-> {expected},
     determinism |-> "DETERMINISTIC", on_unresolvable |-> "INDETERMINATE", check_program_ref |-> {}]

Script == [Playwright("saved") EXCEPT !.executor = "SCRIPT", !.subject = "RESOURCE_INPUTS",
                                      !.check_program_ref = {"program"}]

MCSpec(version, steps, assertions) ==
    [id |-> "spec", version |-> version, steps |-> steps, assertions |-> assertions,
     allowed_side_effects |-> {"WRITE"}, depends_on |-> {}, author |-> "a"]

One == [a1 |-> Playwright("saved")]
Retried == Step("s1", "IDEMPOTENT", {"RETRY_SAME"})
Healed == Step("s1", "AT_MOST_ONCE", {"SEMANTIC_LOCATOR"})

Published(version, steps, assertions) == [MCSpec(version, steps, assertions) EXCEPT !.id = "followed"]

\* One spec has successors, one of them with the same assertions.
MCSpecs ==
    { MCSpec(1, <<Retried>>, One),
      Published(1, <<Healed>>, One),
      MCSpec(1, <<Step("s1", "UNKNOWN", {"RETRY_SAME"})>>, One),              \* retried blind
      MCSpec(1, <<Resource("s1", {"SEMANTIC_LOCATOR"})>>, One),               \* nothing to heal
      MCSpec(1, <<Retried, Retried>>, One),                                   \* one id twice
      MCSpec(1, <<Step("s1", "AT_MOST_ONCE", {"RESET_FIXTURE"})>>, One),
      MCSpec(1, <<Step("s1", "AT_MOST_ONCE", {}),
                  Step("s2", "AT_MOST_ONCE", {"SEMANTIC_LOCATOR", "CHECKPOINT_RESUME"})>>, One),
      MCSpec(1, << >>, [a1 |-> Playwright("saved"), a2 |-> Script]),
      MCSpec(1, << >>, [a1 |-> [Script EXCEPT !.check_program_ref = {}]]),    \* no program
      Published(2, <<Step("s1", "AT_MOST_ONCE", {})>>, One),
      Published(2, << >>, [a1 |-> [Playwright("saved") EXCEPT !.subject = "URL"]]) }

Candidate == [keys |-> {"strategy", "test_id"}, strategy |-> "SEMANTIC_ALTERNATE"]
MCPayloads ==
    {<<Candidate>>, <<Candidate, [Candidate EXCEPT !.keys = @ \cup {"expected"}]>>,
     <<Candidate, Candidate, Candidate>>, <<[Candidate EXCEPT !.strategy = "AUTHORED"]>>}

Claim(outcome, reason, executed) == [outcome |-> outcome, reason |-> reason, executed |-> executed]

MCClaims ==
    { Claim("PASS", "OTHER", {}), Claim("PASS", "OTHER", {"a1"}), Claim("PRODUCT_FAIL", "OTHER", {}),
      Claim("INCONCLUSIVE", "OTHER", {}), Claim("INCONCLUSIVE", "ASSERTION_INTEGRITY", {}) }

\* Ended in every way the run tells apart: done, without its transition, not known
\* whether it took effect, not carried out, and in errors with a recovery of their own.
MCEndings ==
    { <<"OK", TRUE, "SATISFIED">>, <<"OK", TRUE, "NOT_SATISFIED">>,
      <<"ACTION_TIMEOUT", TRUE, "NOT_EVALUATED">>, <<"LOCATOR_NOT_FOUND", FALSE, "NOT_EVALUATED">>,
      <<"ACTION_BLOCKED_BY_POLICY", FALSE, "NOT_EVALUATED">>,
      <<"SESSION_LOST", TRUE, "NOT_EVALUATED">>, <<"BROWSER_CRASH", TRUE, "NOT_EVALUATED">>,
      <<"UNEXPECTED_DIALOG", FALSE, "NOT_SATISFIED">>, <<"ENVIRONMENT_UNHEALTHY", TRUE, "NOT_EVALUATED">> }

\* Bound: past its steps a run is followed that had at most one more attempt than
\* its first, and that one did.
Followed ==
    evaluated # << >> =>
        \A i \in DOMAIN receipts : i = 1 \/ (i = 2 /\ Done(receipts[i].result, receipts[i].postcondition))

KeySymmetry == Permutations(Keys)
=============================================================================

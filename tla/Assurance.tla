------------------------------ MODULE Assurance ------------------------------
(***************************************************************************)
(* What bounds a decision and what carries a result forward                *)
(* (runtime_contracts): the validation of a decision provider's answer,    *)
(* the verdict of a verification and the ladder a verifier must reach, and *)
(* the KPIs a mission template promises.                                   *)
(*                                                                         *)
(* Scores, values and bounds are small integers, 1 standing for a          *)
(* probability of one; optional fields are sets of at most one element.    *)
(***************************************************************************)
EXTENDS FiniteSetsExt, Sequences, Naturals

\* DecisionProviderRequest.validation_errors is empty.
RequestHolds(r) ==
    /\ r.permitted # << >>
    /\ \A i, j \in DOMAIN r.permitted : i # j => r.permitted[i] # r.permitted[j]
    /\ r.latency_budget > 0

Options(r) == {r.permitted[i] : i \in DOMAIN r.permitted}

\* The scores of a result are what its semantics says they are.
ScoresHold(a) ==
    /\ a.semantics \in {"CLASS_PROB", "OUTCOME_PROB"} => \A o \in DOMAIN a.scores : a.scores[o] <= 1
    /\ a.semantics = "CLASS_PROB" /\ DOMAIN a.scores # {} =>
          MapThenSumSet(LAMBDA o : a.scores[o], DOMAIN a.scores) = 1

\* Mutant: the digest of the request is not compared.
AnswerHolds_AnyInput(a, r) ==
    /\ RequestHolds(r) /\ a.decision_id = r.decision_id
    /\ a.abstained => a.selected = {} /\ r.abstain_allowed
    /\ ~a.abstained => a.selected # {} /\ a.selected \subseteq Options(r)

\* DecisionProviderResult.validation_errors(request) is empty.
AnswerHolds(a, r) ==
    /\ RequestHolds(r)
    /\ a.decision_id = r.decision_id
    /\ a.input = r
    /\ a.abstained => a.selected = {} /\ r.abstain_allowed /\ a.abstain_reason # {}
    /\ ~a.abstained => a.selected # {} /\ a.selected \subseteq Options(r)
    /\ DOMAIN a.scores \subseteq Options(r)
    /\ ScoresHold(a)

-----------------------------------------------------------------------------
Verdict == {"PASS", "FAIL", "INDETERMINATE", "NOT_APPLICABLE"}
Completion == {"COMPLETE", "PARTIAL", "ABORTED"}
Determinism == {"DETERMINISTIC", "NON_DETERMINISTIC"}

\* VerificationResult.verdict: the weakest outcome present.
Verdict_(checks) ==
    LET present == {checks[c].verdict : c \in DOMAIN checks} IN
    IF "FAIL" \in present THEN "FAIL"
    ELSE IF "INDETERMINATE" \in present THEN "INDETERMINATE"
    ELSE IF "PASS" \in present THEN "PASS"
    ELSE "NOT_APPLICABLE"

\* Mutant: what was left out is not asked for.
MayPromote_Omissions(r) ==
    Verdict_(r.checks) \notin {"FAIL", "INDETERMINATE"} /\ r.completion = "COMPLETE"

MayPromote(r) ==
    /\ Verdict_(r.checks) \notin {"FAIL", "INDETERMINATE"}
    /\ r.completion = "COMPLETE"
    /\ r.omissions = {}

AssuranceTier ==
    <<"STRUCTURAL", "DETERMINISTIC", "EVIDENTIAL", "SEMANTIC", "ENSEMBLE", "HUMAN">>
TierRank(tier) == CHOOSE i \in DOMAIN AssuranceTier : AssuranceTier[i] = tier

\* Mutant: the tier decides alone.
IsSufficient_TierOnly(verifier, requirement) ==
    TierRank(verifier.tier) >= TierRank(requirement.min_tier)

\* is_sufficient: the tier is reached, and no model closes the gate alone.
IsSufficient(verifier, requirement) ==
    /\ TierRank(verifier.tier) >= TierRank(requirement.min_tier)
    /\ requirement.require_deterministic_final =>
          verifier.determinism = "DETERMINISTIC" \/ verifier.tier \in {"ENSEMBLE", "HUMAN"}

-----------------------------------------------------------------------------
\* KPIDeclaration.__post_init__: a hard direction has a bound.
IsSafety(k) == k.direction \in {"MUST_NOT_EXCEED", "MUST_EQUAL"}
KPIHolds(k) == IsSafety(k) => k.bound # {}

SatisfiedBy(k, value) ==
    \A bound \in k.bound :
        CASE k.direction = "MUST_EQUAL" -> value = bound
          [] k.direction = "MAXIMIZE" -> value >= bound
          [] OTHER -> value <= bound

\* Mutant: a target is a bar as well, and a bar is not.
Judge_Targets(k, m) ==
    LET ok == SatisfiedBy(k, m.value) IN
    IF m.kpi_id # k.kpi_id THEN {}
    ELSE {[kpi_id |-> k.kpi_id, satisfied |-> ok, blocking |-> ~IsSafety(k) /\ ~ok]}

\* judge: an outcome, or ValueError for the measurement of another KPI.
Judge(k, m) ==
    LET ok == SatisfiedBy(k, m.value) IN
    IF m.kpi_id # k.kpi_id THEN {}
    ELSE {[kpi_id |-> k.kpi_id, satisfied |-> ok, blocking |-> IsSafety(k) /\ ~ok]}

\* MissionKPISet.__post_init__
KPISetHolds(kpis) ==
    \A i, j \in DOMAIN kpis : kpis[i].kpi_id = kpis[j].kpi_id => i = j

\* kpi_set_id, whatever the order the KPIs were declared in.
KPISetId(kpis) == {kpis[i] : i \in DOMAIN kpis}

\* MissionKPISet.safety
Safety(kpis) == {k \in KPISetId(kpis) : IsSafety(k)}
=============================================================================

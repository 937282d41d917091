---------------------------- MODULE MissionAction ----------------------------
(***************************************************************************)
(* One action of a mission, from the view it is decided on to the end of   *)
(* the mission: a decision provider is asked for one of the permitted      *)
(* options, the gates combine, an envelope is issued for the target that   *)
(* was selected, a backend is admitted and runs it, verifiers look at what *)
(* came of it, and the mission is closed on its scorecard.                 *)
(*                                                                         *)
(* The control plane that makes these calls, the people who review, the    *)
(* provider, the executor and the verifiers are not in this repository.    *)
(* Answers may be late, envelopes may change on the way, before or after a *)
(* backend is admitted for them; a model may say anything, a deterministic *)
(* check and a person say what is the case, or that it does not arise.     *)
(***************************************************************************)
EXTENDS ContextAssembly, ActionGates, Assurance, SequencesExt

CONSTANTS
    MissionTenancy, \* whose mission it is
    Capabilities,   \* the descriptors that may be deployed for an option
    Situations,     \* evidence, authority and broker an action is considered with
    Constraints,    \* the pins, publishers, floor and sources of the deployment
    Places,         \* the targets, policy and prohibition a step may have
    Backends,       \* the backends there are
    Profiles,       \* the enforcement profiles asked for
    Verifiers,      \* the verifiers there are
    Requirement,    \* the assurance the action demands
    Scorecard       \* the KPIs the mission's template promises

ASSUME CandidatesAreLists == \A p \in Places : DOMAIN p.candidates = 1..Len(p.candidates)

VARIABLES
    phase,      \* where the action stands
    request,    \* the request that is open, if any
    answers,    \* the answers under way
    chosen,     \* the answer that was accepted, if one was
    concerns,   \* what spoke against the action considered, and what it obliges to (history)
    reviewed,   \* a person said yes
    issued,     \* the envelope that was issued, and where it was to run
    admission,  \* the admission of a backend, if any
    presented,  \* the envelope as it reaches the executor
    world,      \* what came of it: the postconditions that hold, and violations
    excused     \* postconditions it was promoted without being vouched for (history)

actionVars == <<phase, request, answers, chosen, concerns, reviewed, issued, admission, presented,
                world, excused>>
vars == <<contextVars, actionVars>>

Postconditions == {"p1", "p2"}

\* Mutant: the parameters are not bound.
Binding_NoParameters(e) == [f \in DOMAIN e \ {"signature", "parameters"} |-> e[f]]

\* ExecutionEnvelope.binding: everything but the signature.
Binding(e) == [f \in DOMAIN e \ {"signature"} |-> e[f]]

-----------------------------------------------------------------------------
Init ==
    /\ ContextInit
    /\ phase = "context"
    /\ request = {} /\ answers = {} /\ chosen = {}
    /\ concerns = [hard |-> FALSE, soft |-> FALSE, owed |-> {}, carried |-> {}] /\ reviewed = FALSE
    /\ issued = {} /\ admission = {} /\ presented = {}
    /\ world = [holds |-> {}, violations |-> 0] /\ excused = {}

\* The working set is assembled before anything is decided on it.
Context ==
    /\ phase = "context"
    /\ ContextNext
    /\ UNCHANGED actionVars

RequestOn(v, permitted) ==
    [decision_id |-> "d", view |-> v, permitted |-> permitted, abstain_allowed |-> TRUE,
     latency_budget |-> 1]

\* Bound: on a view of one required item, made before anything changed.
Ask(v) ==
    /\ phase = "context" /\ plan = << >> /\ views = {v}
    /\ reader = MissionTenancy /\ v.reader = reader
    /\ Len(v.items) = 1 /\ v.items[1].necessity = "REQUIRED" /\ backing = InitialBacking
    /\ request' = {RequestOn(v.identity, <<"c1", "c2">>)}
    /\ phase' = "asked"
    /\ UNCHANGED <<contextVars, answers, chosen, concerns, reviewed, issued, admission,
                   presented, world, excused>>

\* Policy changes what is permitted while an answer may be under way.
Revise ==
    /\ phase = "asked"
    /\ \E r \in request :
          /\ Len(r.permitted) = 2
          /\ request' = {[r EXCEPT !.permitted = <<"c2">>]}
    /\ UNCHANGED <<contextVars, phase, answers, chosen, concerns, reviewed, issued, admission,
                   presented, world, excused>>

\* The provider scores what it was asked and selects, or not what was permitted.
AnswersTo(r) ==
    LET A(selected, abstained, scores) ==
            [decision_id |-> r.decision_id, input |-> r, semantics |-> "CLASS_PROB", scores |-> scores,
             selected |-> selected, abstained |-> abstained,
             abstain_reason |-> IF abstained THEN {"low_confidence"} ELSE {}]
    IN  {A({"c2"}, FALSE, [c \in {"c2"} |-> 1]), A({"c3"}, FALSE, [c \in {"c3"} |-> 1]),
         A({"c1"}, FALSE, [c \in {"c1"} |-> 1]), A({"c1"}, FALSE, [c \in {"c1", "c2"} |-> 1]), A({}, TRUE, [c \in {} |-> 0])}

Answer ==
    /\ phase = "asked" /\ answers = {}
    /\ \E r \in request : \E a \in AnswersTo(r) : answers' = {a}
    /\ UNCHANGED <<contextVars, phase, request, chosen, concerns, reviewed, issued, admission,
                   presented, world, excused>>

\* validate_decision: an answer that does not hold raises.
Accept ==
    /\ phase = "asked"
    /\ \E a \in answers, r \in request :
          IF AnswerHolds(a, r) /\ ~a.abstained
          THEN chosen' = {[option |-> o, asked |-> a.input, open |-> r] : o \in a.selected} /\ phase' = "chosen"
          ELSE phase' = "over" /\ UNCHANGED chosen
    /\ request' = {} /\ answers' = {}
    /\ UNCHANGED <<contextVars, concerns, reviewed, issued, admission, presented, world, excused>>

-----------------------------------------------------------------------------
\* The gates, asked one after the other of one situation.
Gates(d, s) ==
    <<ValidateEvidence(s.evidence, Constraints.trusted, s.classification),
      CheckCrossSourceContradiction({s.evidence} \cup s.others),
      Admit(d, Constraints.pins, Constraints.publishers, Constraints.floor),
      IF AuthoritySatisfiedBy(d, s.granted) THEN Allow ELSE Decision("DENY", "authority", {}),
      AdmitCredentials(d.credentials, s.broker)>>

\* What was deployed is not what was pinned.
Unpinned(d) ==
    IF d.id \in DOMAIN Constraints.pins THEN d.digest # {Constraints.pins[d.id]}
    ELSE d.artifact_id \in DOMAIN Constraints.pins /\ d.digest # {Constraints.pins[d.artifact_id]}

\* What nobody may override, and what a person has to look at, in a situation.
Hard(d, s) ==
    \/ (s.evidence.text \cup s.evidence.metadata) \cap {"injection", "self_authority"} # {}
    \/ s.evidence.source \in Constraints.trusted /\ ~s.evidence.proven
    \/ Unpinned(d)
    \/ Constraints.publishers # {} /\ d.provenance \notin Constraints.publishers
    \/ ~(d.required_authority \subseteq s.granted \/ "*" \in s.granted)
    \/ "production" \notin s.broker /\ \E r \in d.credentials : r.production_broker_required

Soft(d, s) ==
    \/ "hidden" \in s.evidence.text
    \/ ClassificationRank(s.evidence.classification) > ClassificationRank(s.classification)
    \/ /\ s.evidence.field # ""
       /\ \E f \in s.others : f.field = s.evidence.field /\ f.value # s.evidence.value
    \/ \E f \in Constraints.floor : \A t \in d.trust : t < f

\* What is to be put aside, whatever else spoke against the action.
Owed(d, s) ==
    {o \in {"quarantine_evidence", "quarantine_capability"} :
        IF o = "quarantine_evidence" THEN s.evidence.text \cap {"injection", "self_authority"} # {}
        ELSE s.evidence.metadata \cap {"injection", "self_authority"} # {} \/ Unpinned(d)}

\* The action is considered with the descriptor deployed for the option.
Consider(d, s) ==
    /\ phase = "chosen"
    /\ \E c \in chosen : d.id = c.option
    /\ DescriptorHolds(d)
    /\ LET decision == Combine(Gates(d, s)) IN
       /\ phase' = CASE decision.verdict = "ALLOW" -> "allowed"
                     [] decision.verdict = "REQUIRE_REVIEW" -> "review"
                     [] OTHER -> "over"
       /\ concerns' = [hard |-> Hard(d, s), soft |-> Soft(d, s), owed |-> Owed(d, s),
                       carried |-> decision.obligations]
    /\ UNCHANGED <<contextVars, request, answers, chosen, reviewed, issued, admission, presented,
                   world, excused>>

Review(yes) ==
    /\ phase = "review"
    /\ reviewed' = yes
    /\ phase' = IF yes THEN "allowed" ELSE "over"
    /\ UNCHANGED <<contextVars, request, answers, chosen, concerns, issued, admission, presented,
                   world, excused>>

\* An envelope is issued for the place that is selected; a remote one behind
\* approval is asked for.
Issue(p, approved) ==
    /\ phase = "allowed"
    /\ LET t == SelectExecutionTarget(p.candidates, p.policy, p.prohibit_raw_remote, p.require_offline) IN
       IF t.outcome = "SELECTED" \/ (t.outcome = "REQUIRES_APPROVAL" /\ approved)
       THEN /\ \E c \in chosen, target \in t.selected :
                  issued' = {[envelope |-> [capability |-> c.option, view |-> c.open.view,
                                            target |-> target.capability_id, parameters |-> "as issued",
                                            signature |-> "s"],
                              place |-> p, target |-> target, approved |-> approved]}
            /\ presented' = {i.envelope : i \in issued'}
            /\ phase' = "issued"
       ELSE phase' = "over" /\ UNCHANGED <<issued, presented>>
    /\ UNCHANGED <<contextVars, request, answers, chosen, concerns, reviewed, admission, world,
                   excused>>

\* A backend is admitted, before it is given anything, for the envelope it is handed.
AdmitRun(profile, backend, allow_downgrade) ==
    /\ phase = "issued" /\ admission = {}
    /\ \E e \in presented :
          LET granted == AdmitBackend(profile, backend, Binding(e), allow_downgrade) IN
          /\ admission' = {[a |-> g, handed |-> e, backend |-> backend, allowed |-> allow_downgrade] :
                              g \in granted}
          /\ phase' = IF granted = {} THEN "over" ELSE "admitted"
    /\ UNCHANGED <<contextVars, request, answers, chosen, concerns, reviewed, issued, presented,
                   world, excused>>

\* The envelope changes on its way.
Alter ==
    /\ phase \in {"issued", "admitted"}
    /\ \E e \in presented :
          presented' \in {{[e EXCEPT !.parameters = "other"]}, {[e EXCEPT !.target = "other"]},
                          {[e EXCEPT !.capability = "c3"]}}
    /\ \A i \in issued : presented = {i.envelope}
    /\ UNCHANGED <<contextVars, phase, request, answers, chosen, concerns, reviewed, issued,
                   admission, world, excused>>

\* The executor recomputes the binding and runs what was admitted, or refuses.
Execute(holds, violations) ==
    /\ phase = "admitted"
    /\ \E e \in presented, a \in admission :
          IF Binding(e) = a.a.binding
          THEN phase' = "ran" /\ world' = [holds |-> holds, violations |-> violations]
          ELSE phase' = "over" /\ UNCHANGED world
    /\ UNCHANGED <<contextVars, request, answers, chosen, concerns, reviewed, issued, admission,
                   presented, excused>>

-----------------------------------------------------------------------------
\* A rule's deterministic check and a person's are right where they are conclusive;
\* whether a postcondition arises at all is the verifier's to say.
Decides(verifier, check) ==
    \/ verifier.tier = "HUMAN"
    \/ verifier.tier = "DETERMINISTIC" /\ check.determinism = "DETERMINISTIC"

Checks == UNION {[ids -> [verdict : Verdict, determinism : Determinism]] : ids \in SUBSET Postconditions}

\* The results a verifier may come to: it says what it left out.
ResultsOf(verifier) ==
    {[checks |-> checks, completion |-> completion, omissions |-> Postconditions \ DOMAIN checks] :
        completion \in Completion,
        checks \in {f \in Checks : \A p \in DOMAIN f :
            Decides(verifier, f[p]) /\ f[p].verdict \in {"PASS", "FAIL"} =>
                (f[p].verdict = "PASS" <=> p \in world.holds)}}

\* What a result lets pass unchecked: what does not arise, and what a check says that
\* calls itself a model's, unless a person stands for it.
Excused(verifier, result) ==
    {p \in DOMAIN result.checks :
        \/ result.checks[p].verdict = "NOT_APPLICABLE"
        \/ verifier.tier # "HUMAN" /\ result.checks[p].determinism = "NON_DETERMINISTIC"}

\* The acceptance chain: the result may promote and the verifier may close it.
Verify(verifier, result) ==
    /\ phase = "ran"
    /\ IF MayPromote(result) /\ IsSufficient(verifier, Requirement)
       THEN phase' = "promoted" /\ excused' = Excused(verifier, result)
       ELSE phase' = "over" /\ UNCHANGED excused
    /\ UNCHANGED <<contextVars, request, answers, chosen, concerns, reviewed, issued, admission,
                   presented, world>>

\* What is measured of a KPI.
Measured(k) ==
    [kpi_id |-> k.kpi_id, value |-> IF k.kpi_id = "violations" THEN world.violations
                                    ELSE Cardinality(world.holds)]

\* The mission is closed on a scorecard if it is the promised one and nothing
\* blocks.
Close(kpis) ==
    /\ phase = "promoted"
    /\ KPISetHolds(kpis) /\ \A i \in DOMAIN kpis : KPIHolds(kpis[i])
    /\ phase' = IF /\ KPISetId(kpis) = KPISetId(Scorecard)
                   /\ \A k \in Safety(kpis) : \A o \in Judge(k, Measured(k)) : ~o.blocking
                THEN "closed" ELSE "over"
    /\ UNCHANGED <<contextVars, request, answers, chosen, concerns, reviewed, issued, admission,
                   presented, world, excused>>

\* The promised scorecard, in another order and with a KPI twice, and one with a bar lowered.
Scorecards ==
    {Scorecard, Reverse(Scorecard), Scorecard \o Scorecard,
     [i \in DOMAIN Scorecard |-> [Scorecard[i] EXCEPT !.bound = {n + 1 : n \in @}]]}

Next ==
    \/ Context
    \/ \E v \in views : Ask(v)
    \/ Revise \/ Answer \/ Accept
    \/ \E d \in Capabilities, s \in Situations : Consider(d, s)
    \/ \E yes \in BOOLEAN : Review(yes)
    \/ \E p \in Places, approved \in BOOLEAN : Issue(p, approved)
    \/ \E profile \in Profiles, b \in Backends, allow \in BOOLEAN : AdmitRun(profile, b, allow)
    \/ Alter
    \/ \E holds \in SUBSET Postconditions, n \in 0..1 : Execute(holds, n)
    \/ \E verifier \in Verifiers : \E r \in ResultsOf(verifier) : Verify(verifier, r)
    \/ \E kpis \in Scorecards : Close(kpis)

Spec == Init /\ [][Next]_vars

-----------------------------------------------------------------------------
HasRun == phase \in {"ran", "promoted", "closed"}

(***************************************************************************)
(* Nothing runs that one gate denied, whatever another gate said and a     *)
(* person decided; what a gate left to a person has been reviewed; and     *)
(* what one gate asks to be put aside is asked for by the decision that    *)
(* governs, though another gate made it.                                   *)
(***************************************************************************)
NoGateOverridden ==
    /\ HasRun => ~concerns.hard /\ (concerns.soft => reviewed)
    /\ concerns.owed \subseteq concerns.carried

(***************************************************************************)
(* What runs is, parameter for parameter, what a backend was admitted for, *)
(* and an envelope was issued for the option the provider chose when it    *)
(* was asked the request that was still open: no late answer is acted on,  *)
(* and no envelope runs that was altered after its admission.  Admission   *)
(* itself takes the envelope it is handed for the one that was issued.     *)
(***************************************************************************)
RanAsChosen ==
    HasRun =>
        \E c \in chosen, i \in issued, a \in admission :
            /\ c.asked = c.open /\ c.option \in Options(c.open)
            /\ i.envelope.capability = c.option /\ i.envelope.view = c.open.view
            /\ presented = {a.handed}

(***************************************************************************)
(* An action runs in the isolation its profile demands, or its admission   *)
(* names what is missing and the deployment allowed it; and where it was   *)
(* admitted as issued, no raw data leaves the device where the step        *)
(* prohibits it or nobody approved.                                        *)
(***************************************************************************)
RanWhereAllowed ==
    HasRun =>
        \E i \in issued, a \in admission :
            /\ LET missing == ProfileRequirements[a.a.profile] \ a.backend.capabilities IN
               a.a.downgrade = missing /\ (missing # {} => a.allowed)
            /\ a.handed = i.envelope =>
                  /\ \A e \in presented : e.target = i.target.capability_id
                  /\ i.place.prohibit_raw_remote => ~i.target.raw_data_may_leave_device
                  /\ i.target.locality = "SERVER" =>
                        /\ i.place.policy \notin {"LOCAL_ONLY", "DEFER_IF_LOCAL_UNAVAILABLE"}
                        /\ i.place.policy = "REMOTE_REQUIRES_APPROVAL" => i.approved

\* Where what is sufficient is a rule or a person: the action demands a
\* deterministic check at least and no verifier is an ensemble of models.
RulesDecide ==
    /\ Requirement.require_deterministic_final
    /\ TierRank(Requirement.min_tier) \in TierRank("DETERMINISTIC")..Len(AssuranceTier)
    /\ \A v \in Verifiers : v.determinism = "DETERMINISTIC" \/ v.tier \in {"ENSEMBLE", "HUMAN"} =>
          v.tier \in {"STRUCTURAL", "DETERMINISTIC", "HUMAN"}

(***************************************************************************)
(* What is promoted has each of its postconditions, but for those of which *)
(* the result it was promoted on says that they do not arise, or that a    *)
(* model judged them: may_promote lets both pass.  Verifiers may be models *)
(* themselves, stop half way or leave checks out, wherever rules and       *)
(* people decide.  And a mission that is closed kept every hard bar its    *)
(* template promised.                                                      *)
(***************************************************************************)
PromotedTrulyHolds ==
    /\ phase \in {"promoted", "closed"} /\ RulesDecide =>
          Postconditions \ excused \subseteq world.holds
    /\ phase = "closed" =>
          \A i \in DOMAIN Scorecard :
              LET k == Scorecard[i] value == Measured(k).value IN
              \A bound \in k.bound :
                  /\ k.direction = "MUST_EQUAL" => value = bound
                  /\ k.direction = "MUST_NOT_EXCEED" => value <= bound
=============================================================================

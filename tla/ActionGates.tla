----------------------------- MODULE ActionGates -----------------------------
(***************************************************************************)
(* The gates before an action, each a function of what it is given         *)
(* (runtime_contracts): the deny-wins reduction of security decisions, the *)
(* validators of retrieved evidence, the admission of a capability and of  *)
(* its credentials, of a backend under an enforcement profile, and of the  *)
(* place a step runs in.                                                   *)
(*                                                                         *)
(* A text is the set of the patterns it matches.  Optional fields are sets *)
(* of at most one element; resources, reasons and wording are left out.    *)
(***************************************************************************)
EXTENDS FiniteSets, Sequences, Naturals

SecurityVerdict == <<"ALLOW", "ATTESTATION", "ISOLATION", "STRONGER_AUTH", "REQUIRE_REVIEW", "DENY">>

Rank(verdict) == CHOOSE i \in DOMAIN SecurityVerdict : SecurityVerdict[i] = verdict

Decision(verdict, by, obligations) ==
    [verdict |-> verdict, by |-> by, obligations |-> obligations]
Allow == Decision("ALLOW", "", {})

\* Mutant: the decision that came last governs.
Combine_Last(ds) == IF ds = << >> THEN Allow ELSE ds[Len(ds)]

\* Mutant: the governing decision keeps only its own obligations.
Combine_OwnObligations(ds) ==
    IF ds = << >> THEN Allow
    ELSE ds[CHOOSE i \in DOMAIN ds :
                \A j \in DOMAIN ds : \/ Rank(ds[j].verdict) < Rank(ds[i].verdict)
                                     \/ Rank(ds[j].verdict) = Rank(ds[i].verdict) /\ i <= j]

\* SecurityDecision.combine: the first of the most severe governs, and carries
\* the obligations of all.  Nothing objected: ALLOW.
Combine(ds) ==
    IF ds = << >> THEN Allow
    ELSE LET worst == CHOOSE i \in DOMAIN ds :
                 \A j \in DOMAIN ds : \/ Rank(ds[j].verdict) < Rank(ds[i].verdict)
                                      \/ Rank(ds[j].verdict) = Rank(ds[i].verdict) /\ i <= j
         IN  [ds[worst] EXCEPT !.obligations = UNION {ds[i].obligations : i \in DOMAIN ds}]

-----------------------------------------------------------------------------
CheckInjection(e) ==
    IF "injection" \in e.text
    THEN Decision("DENY", "injection", {"quarantine_evidence"}) ELSE Allow

CheckSelfGrantedAuthority(e) ==
    IF "self_authority" \in e.text
    THEN Decision("DENY", "self_authority", {"quarantine_evidence"}) ELSE Allow

CheckHiddenInstructions(e) ==
    IF "hidden" \in e.text THEN Decision("REQUIRE_REVIEW", "hidden_instructions", {}) ELSE Allow

\* A trusted source is claimed without a hash or a signature.
CheckSourceSpoofing(e, trusted) ==
    IF e.source \in trusted /\ ~e.proven THEN Decision("DENY", "source_spoofing", {}) ELSE Allow

CheckPoisonedToolMetadata(e) ==
    IF e.metadata \cap {"injection", "self_authority"} # {}
    THEN Decision("DENY", "poisoned_metadata", {"quarantine_capability"}) ELSE Allow

\* A classification nobody knows ranks as public.
ClassificationRank(c) ==
    CASE c = "internal" -> 1 [] c = "confidential" -> 2 [] c \in {"restricted", "pii"} -> 3
      [] c = "secret" -> 4 [] OTHER -> 0

CheckClassificationEscalation(e, context) ==
    IF ClassificationRank(e.classification) > ClassificationRank(context)
    THEN Decision("REQUIRE_REVIEW", "classification_escalation", {}) ELSE Allow

\* Two items say different things of one field.
CheckCrossSourceContradiction(items) ==
    IF \E e, f \in items : e.field # "" /\ e.field = f.field /\ e.value # f.value
    THEN Decision("REQUIRE_REVIEW", "cross_source_contradiction", {}) ELSE Allow

ValidateEvidence(e, trusted, context) ==
    Combine(<<CheckInjection(e), CheckSelfGrantedAuthority(e), CheckHiddenInstructions(e),
              CheckSourceSpoofing(e, trusted), CheckPoisonedToolMetadata(e),
              CheckClassificationEscalation(e, context)>>)

-----------------------------------------------------------------------------
\* CapabilityDescriptor.__post_init__
DescriptorHolds(d) ==
    /\ d.postconditions # {} => d.verification_method # {}
    /\ ~(d.retry_safety = "SAFE" /\ d.idempotency = "AT_MOST_ONCE")

AuthoritySatisfiedBy(d, granted) == "*" \in granted \/ d.required_authority \subseteq granted

\* A pin names the capability, or its artifact: the capability at a version.
PinOf(d, pins) ==
    IF d.id \in DOMAIN pins THEN {pins[d.id]}
    ELSE IF d.artifact_id \in DOMAIN pins THEN {pins[d.artifact_id]} ELSE {}

\* Mutant: an artifact without a digest passes a pin.
Admit_MissingDigest(d, pins, publishers, floor) ==
    LET pin == PinOf(d, pins) IN
    IF pin # {} /\ d.digest # {} /\ d.digest # pin THEN Decision("DENY", "digest", {})
    ELSE IF publishers # {} /\ d.provenance \notin publishers THEN Decision("DENY", "provenance", {})
    ELSE IF \E f \in floor : \A t \in d.trust : t < f THEN Decision("REQUIRE_REVIEW", "trust", {})
    ELSE Allow

\* CapabilityDescriptor.admit: pin, provenance and trust, where declared.
Admit(d, pins, publishers, floor) ==
    LET pin == PinOf(d, pins) IN
    IF pin # {} /\ d.digest # pin
    THEN Decision("DENY", "digest", {"quarantine_capability"})
    ELSE IF publishers # {} /\ d.provenance \notin publishers THEN Decision("DENY", "provenance", {})
    ELSE IF \E f \in floor : \A t \in d.trust : t < f THEN Decision("REQUIRE_REVIEW", "trust", {})
    ELSE Allow

\* admit_credentials: the assurance of the broker that is wired, if one is.
AdmitCredentials(requirements, broker) ==
    IF \E r \in requirements : r.production_broker_required /\ "production" \notin broker
    THEN Decision("DENY", "credentials", {}) ELSE Allow

-----------------------------------------------------------------------------
ISOLATED == {"filesystem_isolation", "network_egress_control", "resource_limits", "process_isolation"}
HARDENED == ISOLATED \cup {"quarantine", "identity_binding", "attestation"}

ProfileRequirements ==
    [standard |-> {}, isolated |-> ISOLATED, hardened |-> HARDENED,
     hardware_attested |-> HARDENED \cup {"hardware_attestation"}]

\* Mutant: a backend that offers something is good enough.
AdmitBackend_Some(profile, backend, binding, allow_downgrade) ==
    LET missing == ProfileRequirements[profile] \ backend.capabilities IN
    IF missing = {} \/ backend.capabilities # {} \/ allow_downgrade
    THEN {[binding |-> binding, profile |-> profile, backend |-> backend.id, downgrade |-> {}]}
    ELSE {}

\* admit_backend: an admission, or EnforcementDowngrade.  The admission of a
\* backend that falls short names what is missing.
AdmitBackend(profile, backend, binding, allow_downgrade) ==
    LET missing == ProfileRequirements[profile] \ backend.capabilities IN
    IF missing = {} \/ allow_downgrade
    THEN {[binding |-> binding, profile |-> profile, backend |-> backend.id, downgrade |-> missing]}
    ELSE {}

-----------------------------------------------------------------------------
Target(outcome, selected) == [outcome |-> outcome, selected |-> selected]

\* The candidates a step may run on now.
Permitted(candidates, prohibit_raw_remote, require_offline) ==
    {i \in DOMAIN candidates :
        /\ candidates[i].availability = "AVAILABLE"
        /\ require_offline => candidates[i].offline_capable
        /\ ~(prohibit_raw_remote /\ candidates[i].raw_data_may_leave_device)}

FirstOf(candidates, indices) == candidates[CHOOSE i \in indices : \A j \in indices : i <= j]

\* Mutant: what is preferred is chosen before it is asked what is permitted.
SelectExecutionTarget_Preferred(candidates, policy, prohibit_raw_remote, require_offline) ==
    LET available == Permitted(candidates, FALSE, require_offline) IN
    IF available = {} THEN Target("DEFERRED", {})
    ELSE Target("SELECTED", {FirstOf(candidates, available)})

\* select_execution_target: a local target if one is permitted, otherwise what
\* the policy says of remote ones.
SelectExecutionTarget(candidates, policy, prohibit_raw_remote, require_offline) ==
    LET permitted == Permitted(candidates, prohibit_raw_remote, require_offline)
        remotes == {i \in permitted : candidates[i].locality = "SERVER"}
        locals == permitted \ remotes
    IN  IF locals # {} THEN Target("SELECTED", {FirstOf(candidates, locals)})
        ELSE IF policy \in {"LOCAL_ONLY", "DEFER_IF_LOCAL_UNAVAILABLE"} \/ remotes = {}
        THEN Target("DEFERRED", {})
        ELSE IF policy = "REMOTE_REQUIRES_APPROVAL"
        THEN Target("REQUIRES_APPROVAL", {FirstOf(candidates, remotes)})
        ELSE Target("SELECTED", {FirstOf(candidates, remotes)})
=============================================================================

------------------------- MODULE MissionActionProofs -------------------------
(***************************************************************************)
(* What holds of a mission for every set of artifacts, capabilities,       *)
(* situations, places, backends, verifiers and constraints: no gate is     *)
(* overridden, what runs is what a backend was admitted for, nothing       *)
(* private reaches a view of another tenant, views of one plan hash differ *)
(* in what diverged or collapsed only, and what is promoted is so.         *)
(***************************************************************************)
EXTENDS MissionAction, WellFoundedInduction, TLAPS

Verdicts == {"ALLOW", "REQUIRE_REVIEW", "DENY"}

LEMMA Ranks ==
    /\ Rank("ALLOW") = 1
    /\ Rank("REQUIRE_REVIEW") = 5
    /\ Rank("DENY") = 6
  <1>1. DOMAIN SecurityVerdict = 1..6
    BY DEF SecurityVerdict
  <1>2. /\ SecurityVerdict[1] = "ALLOW" /\ SecurityVerdict[2] = "ATTESTATION"
        /\ SecurityVerdict[3] = "ISOLATION" /\ SecurityVerdict[4] = "STRONGER_AUTH"
        /\ SecurityVerdict[5] = "REQUIRE_REVIEW" /\ SecurityVerdict[6] = "DENY"
    BY DEF SecurityVerdict
  <1>3. \A i \in 1..6 : i = 1 \/ i = 2 \/ i = 3 \/ i = 4 \/ i = 5 \/ i = 6
    OBVIOUS
  <1>4. \A i \in DOMAIN SecurityVerdict :
            /\ SecurityVerdict[i] = "ALLOW" <=> i = 1
            /\ SecurityVerdict[i] = "REQUIRE_REVIEW" <=> i = 5
            /\ SecurityVerdict[i] = "DENY" <=> i = 6
    BY <1>1, <1>2, <1>3
  <1>5. Rank("ALLOW") = 1
    BY <1>1, <1>4 DEF Rank
  <1>6. Rank("REQUIRE_REVIEW") = 5
    BY <1>1, <1>4 DEF Rank
  <1>7. Rank("DENY") = 6
    BY <1>1, <1>4 DEF Rank
  <1> QED  BY <1>5, <1>6, <1>7

\* A set of naturals that is not empty has a least element.
LEMMA Least ==
    ASSUME NEW S, S \subseteq Nat, S # {}
    PROVE  \E n \in S : \A m \in S : n <= m
  <1>1. PICK x \in S : \A y \in S : <<y, x>> \notin OpToRel(<, Nat)
    BY WFMin, NatLessThanWellFounded, Zenon
  <1>2. \A y \in S : ~(y < x)
    BY <1>1, Zenon DEF OpToRel
  <1> QED
    BY <1>2

Causes ==
    {"", "injection", "self_authority", "hidden_instructions", "source_spoofing",
     "poisoned_metadata", "classification_escalation", "cross_source_contradiction",
     "digest", "provenance", "trust", "authority", "credentials"}
Duties == {"quarantine_evidence", "quarantine_capability"}

\* The gates only allow, deny, or ask for a person.
Decisions == [verdict : Verdicts, by : Causes, obligations : SUBSET Duties]

\* Of decisions there are some, the most severe governs.
LEMMA MostSevereGoverns ==
    ASSUME NEW ds \in Seq(Decisions), ds # << >>
    PROVE  /\ Combine(ds) \in Decisions
           /\ \A i \in DOMAIN ds : Rank(ds[i].verdict) <= Rank(Combine(ds).verdict)
           /\ \A i \in DOMAIN ds : ds[i].obligations \subseteq Combine(ds).obligations
  <1> DEFINE R == [i \in DOMAIN ds |-> Rank(ds[i].verdict)]
             Gaps == {6 - R[i] : i \in DOMAIN ds}
             Governs(i) == \A j \in DOMAIN ds : \/ R[j] < R[i]
                                                \/ R[j] = R[i] /\ i <= j
  <1>0. \A i \in DOMAIN ds : ds[i] \in Decisions
    OBVIOUS
  <1>1. \A i \in DOMAIN ds : R[i] \in Nat /\ R[i] <= 6
    <2>1. \A i \in DOMAIN ds : ds[i].verdict \in Verdicts
      BY <1>0 DEF Decisions
    <2>2. \A v \in Verdicts : Rank(v) \in Nat /\ Rank(v) <= 6
      BY Ranks DEF Verdicts
    <2> QED  BY <2>1, <2>2
  <1>2. DOMAIN ds \subseteq Nat /\ DOMAIN ds # {}
    OBVIOUS
  <1> HIDE DEF R
  <1>3. Gaps \subseteq Nat /\ Gaps # {}
    BY <1>1, <1>2
  <1> HIDE DEF Gaps
  <1>4. PICK g \in Gaps : \A h \in Gaps : g <= h
    BY <1>3, Least
  <1>5. PICK k \in DOMAIN ds : g = 6 - R[k]
    BY DEF Gaps
  <1>6. \A j \in DOMAIN ds : R[j] <= R[k]
    <2>1. ASSUME NEW j \in DOMAIN ds PROVE R[j] <= R[k]
      <3>1. 6 - R[k] <= 6 - R[j]
        BY <1>4, <1>5 DEF Gaps
      <3> QED  BY <1>1, <3>1
    <2> QED  BY <2>1
  <1> DEFINE Worst == {i \in DOMAIN ds : R[i] = R[k]}
  <1>7. Worst \subseteq Nat /\ Worst # {}
    BY <1>2
  <1>8. \E i \in Worst : \A j \in Worst : i <= j
    <2> HIDE DEF Worst
    <2> QED  BY <1>7, Least
  <1>9. \E i \in DOMAIN ds : Governs(i)
    <2>1. PICK i \in Worst : \A j \in Worst : i <= j
      BY <1>8
    <2>2. ASSUME NEW j \in DOMAIN ds PROVE R[j] < R[i] \/ (R[j] = R[i] /\ i <= j)
      BY <1>1, <1>6, <2>1
    <2> QED  BY <2>1, <2>2
  <1>10. PICK w \in DOMAIN ds : w = CHOOSE i \in DOMAIN ds : Governs(i)
    BY <1>9, Zenon
  <1>11. Governs(w)
    BY <1>9, <1>10, Zenon
  <1>12. w = CHOOSE i \in DOMAIN ds :
                 \A j \in DOMAIN ds : \/ Rank(ds[j].verdict) < Rank(ds[i].verdict)
                                      \/ Rank(ds[j].verdict) = Rank(ds[i].verdict) /\ i <= j
    BY <1>10 DEF R
  <1>13. Combine(ds) = [ds[w] EXCEPT !.obligations = UNION {ds[i].obligations : i \in DOMAIN ds}]
    BY <1>12 DEF Combine
  <1>14. ds[w] \in Decisions /\ UNION {ds[i].obligations : i \in DOMAIN ds} \in SUBSET Duties
    <2>1. \A i \in DOMAIN ds : ds[i].obligations \in SUBSET Duties
      BY <1>0 DEF Decisions
    <2> QED  BY <1>0, <2>1
  <1>15. Combine(ds) \in Decisions /\ Combine(ds).verdict = ds[w].verdict
    BY <1>13, <1>14 DEF Decisions
  <1>16. \A i \in DOMAIN ds : R[i] <= R[w]
    BY <1>1, <1>11
  <1>17. Combine(ds).obligations = UNION {ds[i].obligations : i \in DOMAIN ds}
    BY <1>13, <1>14 DEF Decisions
  <1>18. \A i \in DOMAIN ds : ds[i].obligations \subseteq Combine(ds).obligations
    BY <1>17
  <1> QED  BY <1>15, <1>16, <1>18 DEF R

-----------------------------------------------------------------------------
\* What a combination of decisions comes to.
LEMMA Combination ==
    ASSUME NEW ds \in Seq(Decisions), ds # << >>
    PROVE  LET verdict == Combine(ds).verdict IN
           /\ Combine(ds) \in Decisions
           /\ verdict \in Verdicts
           /\ (\E i \in DOMAIN ds : ds[i].verdict = "DENY") => verdict = "DENY"
           /\ (\E i \in DOMAIN ds : ds[i].verdict = "REQUIRE_REVIEW") => verdict # "ALLOW"
           /\ \A i \in DOMAIN ds : ds[i].obligations \subseteq Combine(ds).obligations
  <1>1. /\ Combine(ds) \in Decisions
        /\ \A i \in DOMAIN ds : Rank(ds[i].verdict) <= Rank(Combine(ds).verdict)
        /\ \A i \in DOMAIN ds : ds[i].obligations \subseteq Combine(ds).obligations
    BY MostSevereGoverns
  <1>2. Combine(ds).verdict \in Verdicts
    BY <1>1 DEF Decisions
  <1>3. ASSUME NEW i \in DOMAIN ds, ds[i].verdict = "DENY" PROVE Combine(ds).verdict = "DENY"
    BY <1>1, <1>2, <1>3, Ranks DEF Verdicts
  <1>4. ASSUME NEW i \in DOMAIN ds, ds[i].verdict = "REQUIRE_REVIEW" PROVE Combine(ds).verdict # "ALLOW"
    BY <1>1, <1>2, <1>4, Ranks DEF Verdicts
  <1> QED  BY <1>1, <1>2, <1>3, <1>4

\* Retrieved text, its source and its metadata are refused for what is in
\* them, and looked at for what is hidden in them or above the context; what is
\* to be put aside is named.
LEMMA EvidenceIsValidated ==
    ASSUME NEW e, NEW trusted, NEW context
    PROVE  LET x == ValidateEvidence(e, trusted, context) IN
           /\ x \in Decisions
           /\ \/ (e.text \cup e.metadata) \cap {"injection", "self_authority"} # {}
              \/ e.source \in trusted /\ ~e.proven
              => x.verdict = "DENY"
           /\ \/ "hidden" \in e.text
              \/ ClassificationRank(e.classification) > ClassificationRank(context)
              => x.verdict # "ALLOW"
           /\ e.text \cap {"injection", "self_authority"} # {} =>
                 "quarantine_evidence" \in x.obligations
           /\ e.metadata \cap {"injection", "self_authority"} # {} =>
                 "quarantine_capability" \in x.obligations
  <1> DEFINE ds == <<CheckInjection(e), CheckSelfGrantedAuthority(e), CheckHiddenInstructions(e),
                     CheckSourceSpoofing(e, trusted), CheckPoisonedToolMetadata(e),
                     CheckClassificationEscalation(e, context)>>
  <1>1. /\ CheckInjection(e) \in Decisions
        /\ "injection" \in e.text =>
              /\ CheckInjection(e).verdict = "DENY"
              /\ "quarantine_evidence" \in CheckInjection(e).obligations
    BY DEF Decision, Decisions, Causes, Duties, Allow, CheckInjection, Verdicts
  <1>2. /\ CheckSelfGrantedAuthority(e) \in Decisions
        /\ "self_authority" \in e.text =>
              /\ CheckSelfGrantedAuthority(e).verdict = "DENY"
              /\ "quarantine_evidence" \in CheckSelfGrantedAuthority(e).obligations
    BY DEF Decision, Decisions, Causes, Duties, Allow, CheckSelfGrantedAuthority, Verdicts
  <1>3. /\ CheckHiddenInstructions(e) \in Decisions
        /\ "hidden" \in e.text => CheckHiddenInstructions(e).verdict = "REQUIRE_REVIEW"
    BY DEF Decision, Decisions, Causes, Duties, Allow, CheckHiddenInstructions, Verdicts
  <1>4. /\ CheckSourceSpoofing(e, trusted) \in Decisions
        /\ e.source \in trusted /\ ~e.proven => CheckSourceSpoofing(e, trusted).verdict = "DENY"
    BY DEF Decision, Decisions, Causes, Duties, Allow, CheckSourceSpoofing, Verdicts
  <1>5. /\ CheckPoisonedToolMetadata(e) \in Decisions
        /\ e.metadata \cap {"injection", "self_authority"} # {} =>
              /\ CheckPoisonedToolMetadata(e).verdict = "DENY"
              /\ "quarantine_capability" \in CheckPoisonedToolMetadata(e).obligations
    BY DEF Decision, Decisions, Causes, Duties, Allow, CheckPoisonedToolMetadata, Verdicts
  <1>6. /\ CheckClassificationEscalation(e, context) \in Decisions
        /\ ClassificationRank(e.classification) > ClassificationRank(context) =>
              CheckClassificationEscalation(e, context).verdict = "REQUIRE_REVIEW"
    BY DEF Decision, Decisions, Causes, Duties, Allow, CheckClassificationEscalation, Verdicts
  <1>7. ds \in Seq(Decisions) /\ ds # << >> /\ DOMAIN ds = 1..6
    BY <1>1, <1>2, <1>3, <1>4, <1>5, <1>6
  <1>8. /\ ds[1] = CheckInjection(e) /\ ds[2] = CheckSelfGrantedAuthority(e)
        /\ ds[3] = CheckHiddenInstructions(e) /\ ds[4] = CheckSourceSpoofing(e, trusted)
        /\ ds[5] = CheckPoisonedToolMetadata(e) /\ ds[6] = CheckClassificationEscalation(e, context)
    OBVIOUS
  <1>9. ValidateEvidence(e, trusted, context) = Combine(ds)
    BY DEF ValidateEvidence
  <1> HIDE DEF ds
  <1>10. /\ Combine(ds) \in Decisions
         /\ (\E i \in DOMAIN ds : ds[i].verdict = "DENY") => Combine(ds).verdict = "DENY"
         /\ (\E i \in DOMAIN ds : ds[i].verdict = "REQUIRE_REVIEW") => Combine(ds).verdict # "ALLOW"
         /\ \A i \in DOMAIN ds : ds[i].obligations \subseteq Combine(ds).obligations
    BY <1>7, Combination
  <1>11. \/ (e.text \cup e.metadata) \cap {"injection", "self_authority"} # {}
         \/ e.source \in trusted /\ ~e.proven
         => \E i \in DOMAIN ds : ds[i].verdict = "DENY"
    BY <1>1, <1>2, <1>4, <1>5, <1>7, <1>8
  <1>12. \/ "hidden" \in e.text
         \/ ClassificationRank(e.classification) > ClassificationRank(context)
         => \E i \in DOMAIN ds : ds[i].verdict = "REQUIRE_REVIEW"
    BY <1>3, <1>6, <1>7, <1>8
  <1>13. /\ e.text \cap {"injection", "self_authority"} # {} =>
                \E i \in DOMAIN ds : "quarantine_evidence" \in ds[i].obligations
         /\ e.metadata \cap {"injection", "self_authority"} # {} =>
                \E i \in DOMAIN ds : "quarantine_capability" \in ds[i].obligations
    BY <1>1, <1>2, <1>5, <1>7, <1>8
  <1>14. /\ e.text \cap {"injection", "self_authority"} # {} =>
                "quarantine_evidence" \in Combine(ds).obligations
         /\ e.metadata \cap {"injection", "self_authority"} # {} =>
                "quarantine_capability" \in Combine(ds).obligations
    BY <1>10, <1>13
  <1> QED  BY <1>9, <1>10, <1>11, <1>12, <1>14

\* Whatever speaks against an action is decided on by the gates.
LEMMA GatesDecide ==
    ASSUME NEW d, NEW s
    PROVE  LET verdict == Combine(Gates(d, s)).verdict IN
           /\ verdict \in Verdicts
           /\ Hard(d, s) => verdict = "DENY"
           /\ Soft(d, s) => verdict # "ALLOW"
           /\ Owed(d, s) \subseteq Combine(Gates(d, s)).obligations
  <1> DEFINE ds == Gates(d, s)
             E == ValidateEvidence(s.evidence, Constraints.trusted, s.classification)
             X == CheckCrossSourceContradiction({s.evidence} \cup s.others)
             A == Admit(d, Constraints.pins, Constraints.publishers, Constraints.floor)
             B == IF AuthoritySatisfiedBy(d, s.granted) THEN Allow ELSE Decision("DENY", "authority", {})
             C == AdmitCredentials(d.credentials, s.broker)
  <1>1. /\ E \in Decisions
        /\ \/ (s.evidence.text \cup s.evidence.metadata) \cap {"injection", "self_authority"} # {}
           \/ s.evidence.source \in Constraints.trusted /\ ~s.evidence.proven
           => E.verdict = "DENY"
        /\ \/ "hidden" \in s.evidence.text
           \/ ClassificationRank(s.evidence.classification) > ClassificationRank(s.classification)
           => E.verdict # "ALLOW"
        /\ s.evidence.text \cap {"injection", "self_authority"} # {} =>
              "quarantine_evidence" \in E.obligations
        /\ s.evidence.metadata \cap {"injection", "self_authority"} # {} =>
              "quarantine_capability" \in E.obligations
    BY EvidenceIsValidated
  <1>2. /\ X \in Decisions
        /\ s.evidence.field # "" /\ (\E f \in s.others :
               f.field = s.evidence.field /\ f.value # s.evidence.value) => X.verdict = "REQUIRE_REVIEW"
    BY DEF Decision, Decisions, Causes, Duties, Allow, CheckCrossSourceContradiction, Verdicts
  <1>3. /\ A \in Decisions
        /\ Unpinned(d) => A.verdict = "DENY" /\ "quarantine_capability" \in A.obligations
        /\ Constraints.publishers # {} /\ d.provenance \notin Constraints.publishers => A.verdict = "DENY"
        /\ (\E f \in Constraints.floor : \A t \in d.trust : t < f) => A.verdict # "ALLOW"
    BY DEF Decision, Decisions, Causes, Duties, Allow, Admit, PinOf, Unpinned, Verdicts
  <1>4. /\ B \in Decisions
        /\ ~(d.required_authority \subseteq s.granted \/ "*" \in s.granted) => B.verdict = "DENY"
    BY DEF Decision, Decisions, Causes, Duties, Allow, AuthoritySatisfiedBy, Verdicts
  <1>5. /\ C \in Decisions
        /\ "production" \notin s.broker /\ (\E r \in d.credentials : r.production_broker_required) =>
              C.verdict = "DENY"
    BY DEF Decision, Decisions, Causes, Duties, Allow, AdmitCredentials, Verdicts
  <1>6. ds = <<E, X, A, B, C>>
    BY DEF Gates
  <1> HIDE DEF E, X, A, B, C, ds
  <1>7. ds \in Seq(Decisions) /\ ds # << >> /\ DOMAIN ds = 1..5
    <2>1. <<E, X, A, B, C>> \in Seq(Decisions)
      <3>1. E \in Decisions /\ X \in Decisions /\ A \in Decisions /\ B \in Decisions /\ C \in Decisions
        BY <1>1, <1>2, <1>3, <1>4, <1>5
      <3> QED  BY <3>1
    <2>2. <<E, X, A, B, C>> # << >> /\ DOMAIN <<E, X, A, B, C>> = 1..5
      OBVIOUS
    <2> QED  BY <2>1, <2>2, <1>6
  <1>8. ds[1] = E /\ ds[2] = X /\ ds[3] = A /\ ds[4] = B /\ ds[5] = C
    BY <1>6
  <1>9. /\ Combine(ds).verdict \in Verdicts
        /\ (\E i \in DOMAIN ds : ds[i].verdict = "DENY") => Combine(ds).verdict = "DENY"
        /\ (\E i \in DOMAIN ds : ds[i].verdict = "REQUIRE_REVIEW") => Combine(ds).verdict # "ALLOW"
        /\ \A i \in DOMAIN ds : ds[i].obligations \subseteq Combine(ds).obligations
    BY <1>7, Combination
  <1>10. Hard(d, s) => \E i \in DOMAIN ds : ds[i].verdict = "DENY"
    BY <1>1, <1>3, <1>4, <1>5, <1>7, <1>8 DEF Hard
  <1>11. \A i \in DOMAIN ds : ds[i].verdict \in Verdicts
    <2>1. /\ ds[1] \in Decisions /\ ds[2] \in Decisions /\ ds[3] \in Decisions
          /\ ds[4] \in Decisions /\ ds[5] \in Decisions
      BY <1>1, <1>2, <1>3, <1>4, <1>5, <1>8
    <2>2. \A i \in DOMAIN ds : i = 1 \/ i = 2 \/ i = 3 \/ i = 4 \/ i = 5
      BY <1>7
    <2>3. \A i \in DOMAIN ds : ds[i] \in Decisions
      BY <2>1, <2>2
    <2> QED  BY <2>3 DEF Decisions
  <1>12. Soft(d, s) => \E i \in DOMAIN ds : ds[i].verdict \in {"DENY", "REQUIRE_REVIEW"}
    <2>1. Soft(d, s) => E.verdict # "ALLOW" \/ X.verdict = "REQUIRE_REVIEW" \/ A.verdict # "ALLOW"
      BY <1>1, <1>2, <1>3 DEF Soft
    <2>2. 1 \in DOMAIN ds /\ 2 \in DOMAIN ds /\ 3 \in DOMAIN ds
      BY <1>7
    <2>3. Soft(d, s) => \E i \in DOMAIN ds : ds[i].verdict # "ALLOW"
      BY <2>1, <2>2, <1>8
    <2> QED  BY <2>3, <1>11 DEF Verdicts
  <1>13. Combine(ds).verdict \in Verdicts /\ "DENY" # "ALLOW"
    BY <1>9
  <1>14. Soft(d, s) => Combine(ds).verdict # "ALLOW"
    BY <1>9, <1>12, <1>13
  <1>15. 1 \in DOMAIN ds /\ 3 \in DOMAIN ds
    BY <1>7
  <1>16. E.obligations \subseteq Combine(ds).obligations /\ A.obligations \subseteq Combine(ds).obligations
    BY <1>8, <1>9, <1>15
  <1>17. Owed(d, s) \subseteq Combine(ds).obligations
    BY <1>1, <1>3, <1>16 DEF Owed
  <1> QED  BY <1>9, <1>10, <1>14, <1>17 DEF ds

-----------------------------------------------------------------------------
(***************************************************************************)
(* The gates.  A step of the invariant only has to look at phase, concerns *)
(* and reviewed: after the gates nothing changes the last two.             *)
(***************************************************************************)
Cleared == {"allowed", "issued", "admitted", "ran", "promoted", "closed"}

GateInv ==
    /\ phase \in Cleared => ~concerns.hard /\ (concerns.soft => reviewed)
    /\ phase = "review" => ~concerns.hard
    /\ concerns.owed \subseteq concerns.carried

LEMMA GateInit == Init => GateInv
  BY DEF Init, GateInv, Cleared

\* Considering an action: what a gate objects to is not cleared, and what it asks
\* to be put aside is carried.
LEMMA ConsiderClears ==
    ASSUME NEW d, NEW s, Consider(d, s)
    PROVE  GateInv'
  <1>1. PICK decision : decision = Combine(Gates(d, s))
    OBVIOUS
  <1>2. /\ decision.verdict \in Verdicts
        /\ Hard(d, s) => decision.verdict = "DENY"
        /\ Soft(d, s) => decision.verdict # "ALLOW"
        /\ Owed(d, s) \subseteq decision.obligations
    BY <1>1, GatesDecide
  <1>3. /\ phase' = CASE decision.verdict = "ALLOW" -> "allowed"
                      [] decision.verdict = "REQUIRE_REVIEW" -> "review"
                      [] OTHER -> "over"
        /\ concerns' = [hard |-> Hard(d, s), soft |-> Soft(d, s), owed |-> Owed(d, s),
                        carried |-> decision.obligations]
    BY <1>1, Zenon DEF Consider
  <1>4. concerns'.hard = Hard(d, s) /\ concerns'.soft = Soft(d, s)
    BY <1>3, Zenon
  <1>5. concerns'.owed \subseteq concerns'.carried
    <2>1. concerns'.owed = Owed(d, s) /\ concerns'.carried = decision.obligations
      BY <1>3, Zenon
    <2> QED  BY <1>2, <2>1, Zenon
  <1>6. CASE decision.verdict = "ALLOW"
    <2>1. ~Hard(d, s) /\ ~Soft(d, s) /\ phase' = "allowed"
      BY <1>2, <1>3, <1>6
    <2>2. ~concerns'.hard /\ ~concerns'.soft
      BY <2>1, <1>4, Zenon
    <2> QED  BY <2>1, <2>2, <1>5 DEF GateInv
  <1>7. CASE decision.verdict = "REQUIRE_REVIEW"
    <2>1. ~Hard(d, s) /\ phase' = "review"
      BY <1>2, <1>3, <1>7
    <2>2. ~concerns'.hard
      BY <2>1, <1>4, Zenon
    <2> QED  BY <2>1, <2>2, <1>5 DEF GateInv, Cleared
  <1>8. CASE decision.verdict = "DENY"
    <2>1. phase' = "over"
      BY <1>3, <1>8
    <2> QED  BY <2>1, <1>5 DEF GateInv, Cleared
  <1> QED  BY <1>2, <1>6, <1>7, <1>8 DEF Verdicts

LEMMA GateStep == GateInv /\ [Next]_vars => GateInv'
  <1> SUFFICES ASSUME GateInv, [Next]_vars PROVE GateInv'
    OBVIOUS
  <1> USE DEF GateInv, Cleared
  <1>1. CASE Context
    BY <1>1 DEF Context, actionVars
  <1>2. CASE \E v \in views : Ask(v)
    BY <1>2 DEF Ask
  <1>3. CASE Revise \/ Answer \/ Accept
    BY <1>3 DEF Revise, Answer, Accept
  <1>4. CASE \E d \in Capabilities, s \in Situations : Consider(d, s)
    BY <1>4, ConsiderClears
  <1>5. CASE \E yes \in BOOLEAN : Review(yes)
    BY <1>5 DEF Review
  <1>6. CASE \E p \in Places, approved \in BOOLEAN : Issue(p, approved)
    <2>1. phase = "allowed" /\ concerns' = concerns /\ reviewed' = reviewed
      BY <1>6, Zenon DEF Issue
    <2> QED  BY <2>1
  <1>7. CASE \E profile \in Profiles, b \in Backends, allow \in BOOLEAN : AdmitRun(profile, b, allow)
    BY <1>7 DEF AdmitRun
  <1>8. CASE Alter
    BY <1>8 DEF Alter
  <1>9. CASE \E holds \in SUBSET Postconditions, n \in 0..1 : Execute(holds, n)
    BY <1>9 DEF Execute
  <1>10. CASE \E verifier \in Verifiers : \E r \in ResultsOf(verifier) : Verify(verifier, r)
    BY <1>10 DEF Verify
  <1>11. CASE \E kpis \in Scorecards : Close(kpis)
    BY <1>11 DEF Close
  <1>12. CASE UNCHANGED vars
    BY <1>12 DEF vars, actionVars
  <1> QED
    BY <1>1, <1>2, <1>3, <1>4, <1>5, <1>6, <1>7, <1>8, <1>9, <1>10, <1>11, <1>12 DEF Next

\* Whatever the situation and whoever says yes: what a gate denied does not
\* run, what it left to a person was seen by one, and what it asked to be put
\* aside the governing decision carries.
THEOREM GatesAreNotOverridden == Spec => []NoGateOverridden
  <1>1. GateInv => NoGateOverridden
    BY DEF GateInv, Cleared, NoGateOverridden, HasRun
  <1> QED
    BY <1>1, GateInit, GateStep, PTL DEF Spec

-----------------------------------------------------------------------------
(***************************************************************************)
(* What runs.  Before an envelope is issued there is none; from then on    *)
(* one was issued for the choice, an admission is bound to the envelope it *)
(* was handed, and what is presented is one envelope, signed as it was.    *)
(***************************************************************************)
Early == {"context", "asked", "chosen", "review", "allowed"}
Ran == {"ran", "promoted", "closed"}

IsEnvelope(e) ==
    e = [capability |-> e.capability, view |-> e.view, target |-> e.target,
         parameters |-> e.parameters, signature |-> "s"]

IssuedFor(i) ==
    /\ IsEnvelope(i.envelope)
    /\ \E c \in chosen : /\ c.asked = c.open /\ c.option \in Options(c.open)
                         /\ i.envelope.capability = c.option /\ i.envelope.view = c.open.view

RunInv ==
    /\ phase \in Early \/ phase \in {"issued", "admitted", "over"} \/ phase \in Ran
    /\ phase \in Early => issued = {} /\ admission = {} /\ presented = {}
    /\ \A c \in chosen : c.asked = c.open /\ c.option \in Options(c.open)
    /\ \A i \in issued : IssuedFor(i)
    /\ \A e \in presented : IsEnvelope(e) /\ presented = {e}
    /\ \A a \in admission : IsEnvelope(a.handed) /\ a.a.binding = Binding(a.handed)
    /\ phase \in {"issued", "admitted"} \cup Ran => issued # {}
    /\ phase \in Ran => \E a \in admission : presented = {a.handed}

LEMMA RunInit == Init => RunInv
  BY DEF Init, RunInv, Early, Ran

\* One binding, one signature: one envelope.
LEMMA BindingPins ==
    ASSUME NEW e, NEW f, IsEnvelope(e), IsEnvelope(f), Binding(e) = Binding(f)
    PROVE  e = f
  <1>1. /\ DOMAIN e = {"capability", "view", "target", "parameters", "signature"}
        /\ DOMAIN f = {"capability", "view", "target", "parameters", "signature"}
    BY DEF IsEnvelope
  <1> DEFINE Bound == {"capability", "view", "target", "parameters"}
  <1>2. /\ Binding(e) = [x \in Bound |-> e[x]]
        /\ Binding(f) = [x \in Bound |-> f[x]]
    BY <1>1 DEF Binding
  <1>3. \A x \in Bound : e[x] = f[x]
    BY <1>2
  <1> QED
    BY <1>3 DEF IsEnvelope

\* An altered envelope is signed as before.
LEMMA AlterKeepsSigning ==
    ASSUME Alter, RunInv
    PROVE  \A f \in presented' : IsEnvelope(f) /\ presented' = {f}
  <1>1. PICK e \in presented :
            presented' \in {{[e EXCEPT !.parameters = "other"]}, {[e EXCEPT !.target = "other"]},
                            {[e EXCEPT !.capability = "c3"]}}
    BY DEF Alter
  <1>2. IsEnvelope(e)
    BY DEF RunInv
  <1>3. /\ IsEnvelope([e EXCEPT !.parameters = "other"])
        /\ IsEnvelope([e EXCEPT !.target = "other"])
        /\ IsEnvelope([e EXCEPT !.capability = "c3"])
    BY <1>2 DEF IsEnvelope
  <1> QED  BY <1>1, <1>3

\* An answer that is accepted was asked the request that is open.
LEMMA AcceptChooses ==
    ASSUME Accept, RunInv
    PROVE  RunInv'
  <1>1. PICK a \in answers, r \in request :
            IF AnswerHolds(a, r) /\ ~a.abstained
            THEN chosen' = {[option |-> o, asked |-> a.input, open |-> r] : o \in a.selected} /\ phase' = "chosen"
            ELSE phase' = "over" /\ UNCHANGED chosen
    BY Zenon DEF Accept
  <1>2. /\ phase = "asked"
        /\ UNCHANGED <<issued, admission, presented>>
    BY Zenon DEF Accept
  <1>3. issued' = {} /\ admission' = {} /\ presented' = {}
    BY <1>2 DEF RunInv, Early
  <1>4. phase' \in {"chosen", "over"}
    BY <1>1
  <1>5. \A c \in chosen' : c.asked = c.open /\ c.option \in Options(c.open)
    <2>1. CASE AnswerHolds(a, r) /\ ~a.abstained
      <3>1. a.input = r /\ a.selected \subseteq Options(r)
        BY <2>1 DEF AnswerHolds
      <3>2. chosen' = {[option |-> o, asked |-> a.input, open |-> r] : o \in a.selected}
        BY <1>1, <2>1
      <3> QED  BY <3>1, <3>2
    <2>2. CASE ~(AnswerHolds(a, r) /\ ~a.abstained)
      BY <1>1, <2>2 DEF RunInv
    <2> QED  BY <2>1, <2>2
  <1> QED  BY <1>3, <1>4, <1>5 DEF RunInv, Early, Ran

\* An envelope is issued for what was chosen.
LEMMA IssueIssues ==
    ASSUME NEW p, NEW approved, Issue(p, approved), RunInv
    PROVE  RunInv'
  <1>1. /\ phase = "allowed"
        /\ chosen' = chosen /\ admission' = admission
    BY Zenon DEF Issue
  <1>2. issued = {} /\ admission = {} /\ presented = {}
    BY <1>1 DEF RunInv, Early
  <1> DEFINE t == SelectExecutionTarget(p.candidates, p.policy, p.prohibit_raw_remote, p.require_offline)
             I(c, target) == [envelope |-> [capability |-> c.option, view |-> c.open.view,
                                            target |-> target.capability_id, parameters |-> "as issued",
                                            signature |-> "s"],
                              place |-> p, target |-> target, approved |-> approved]
  <1>3. \/ phase' = "over" /\ issued' = issued /\ presented' = presented
        \/ /\ phase' = "issued"
           /\ \E c \in chosen, target \in t.selected : issued' = {I(c, target)}
           /\ presented' = {i.envelope : i \in issued'}
    BY Zenon DEF Issue
  <1>4. CASE phase' = "over" /\ issued' = issued /\ presented' = presented
    BY <1>1, <1>2, <1>4 DEF RunInv, Early, Ran
  <1>5. CASE /\ phase' = "issued"
             /\ \E c \in chosen, target \in t.selected : issued' = {I(c, target)}
             /\ presented' = {i.envelope : i \in issued'}
    <2> HIDE DEF t
    <2>1. PICK c \in chosen, target \in t.selected : issued' = {I(c, target)}
      BY <1>5
    <2>2. c.asked = c.open /\ c.option \in Options(c.open)
      BY DEF RunInv
    <2>3. /\ IsEnvelope(I(c, target).envelope)
          /\ I(c, target).envelope.capability = c.option
          /\ I(c, target).envelope.view = c.open.view
      BY DEF IsEnvelope
    <2> HIDE DEF I
    <2>4. presented' = {I(c, target).envelope}
      BY <1>5, <2>1
    <2>5. \A i \in issued' : IssuedFor(i)'
      BY <1>1, <2>1, <2>2, <2>3 DEF IssuedFor
    <2>6. \A e \in presented' : IsEnvelope(e) /\ presented' = {e}
      BY <2>3, <2>4
    <2> QED  BY <1>1, <1>2, <1>5, <2>5, <2>6 DEF RunInv, Early, Ran
  <1> QED  BY <1>3, <1>4, <1>5

\* A backend is admitted for the envelope it is handed.
LEMMA AdmitBinds ==
    ASSUME NEW profile, NEW b, NEW allow, AdmitRun(profile, b, allow), RunInv
    PROVE  RunInv'
  <1>1. PICK e \in presented :
           /\ admission' = {[a |-> g, handed |-> e, backend |-> b, allowed |-> allow] :
                               g \in AdmitBackend(profile, b, Binding(e), allow)}
           /\ phase' \in {"over", "admitted"}
    BY Zenon DEF AdmitRun
  <1>2. phase = "issued" /\ UNCHANGED <<chosen, issued, presented>>
    BY Zenon DEF AdmitRun
  <1>3. IsEnvelope(e)
    BY DEF RunInv
  <1>4. \A g \in AdmitBackend(profile, b, Binding(e), allow) : g.binding = Binding(e)
    <2>1. PICK bound : bound = Binding(e)
      OBVIOUS
    <2>2. \A g \in AdmitBackend(profile, b, bound, allow) : g.binding = bound
      BY DEF AdmitBackend
    <2> QED  BY <2>1, <2>2
  <1>5. \A a \in admission' : IsEnvelope(a.handed) /\ a.a.binding = Binding(a.handed)
    <2>1. ASSUME NEW a \in admission'
          PROVE  a.handed = e /\ a.a \in AdmitBackend(profile, b, Binding(e), allow)
      BY <1>1
    <2> QED  BY <1>3, <1>4, <2>1
  <1> QED  BY <1>1, <1>2, <1>5 DEF RunInv, Early, Ran, IssuedFor

\* What is executed is what was admitted.
LEMMA ExecuteRuns ==
    ASSUME NEW holds, NEW n, Execute(holds, n), RunInv
    PROVE  RunInv'
  <1>1. UNCHANGED <<chosen, issued, admission, presented>>
    BY Zenon DEF Execute
  <1>2. \/ phase' = "over"
        \/ /\ phase' = "ran"
           /\ \E e \in presented, a \in admission : Binding(e) = a.a.binding
    BY Zenon DEF Execute
  <1>3. CASE phase' = "over"
    BY <1>1, <1>3 DEF RunInv, Early, Ran, IssuedFor
  <1>4. CASE /\ phase' = "ran"
             /\ \E e \in presented, a \in admission : Binding(e) = a.a.binding
    <2>1. PICK e \in presented, a \in admission : Binding(e) = a.a.binding
      BY <1>4
    <2>2. a.a.binding = Binding(a.handed) /\ IsEnvelope(a.handed)
      BY DEF RunInv
    <2>3. IsEnvelope(e) /\ presented = {e}
      BY DEF RunInv
    <2>4. e = a.handed
      BY <2>1, <2>2, <2>3, BindingPins
    <2>5. phase = "admitted" /\ issued # {}
      BY DEF Execute, RunInv
    <2> QED  BY <1>1, <1>4, <2>3, <2>4, <2>5 DEF RunInv, Early, Ran, IssuedFor
  <1> QED  BY <1>2, <1>3, <1>4

LEMMA RunStep == RunInv /\ [Next]_vars => RunInv'
  <1> SUFFICES ASSUME RunInv, [Next]_vars PROVE RunInv'
    OBVIOUS
  <1>1. CASE Context
    BY <1>1 DEF Context, actionVars, RunInv, Early, Ran, IssuedFor
  <1>2. CASE \E v \in views : Ask(v)
    BY <1>2 DEF Ask, RunInv, Early, Ran, IssuedFor
  <1>3. CASE Revise \/ Answer
    BY <1>3 DEF Revise, Answer, RunInv, Early, Ran, IssuedFor
  <1>4. CASE Accept
    BY <1>4, AcceptChooses
  <1>5. CASE \E d \in Capabilities, s \in Situations : Consider(d, s)
    <2>1. /\ phase = "chosen" /\ phase' \in {"allowed", "review", "over"}
          /\ UNCHANGED <<chosen, issued, admission, presented>>
      BY <1>5 DEF Consider
    <2> QED  BY <2>1 DEF RunInv, Early, Ran, IssuedFor
  <1>6. CASE \E yes \in BOOLEAN : Review(yes)
    BY <1>6 DEF Review, RunInv, Early, Ran, IssuedFor
  <1>7. CASE \E p \in Places, approved \in BOOLEAN : Issue(p, approved)
    BY <1>7, IssueIssues
  <1>8. CASE \E profile \in Profiles, b \in Backends, allow \in BOOLEAN : AdmitRun(profile, b, allow)
    BY <1>8, AdmitBinds
  <1>9. CASE Alter
    <2>1. /\ \A f \in presented' : IsEnvelope(f) /\ presented' = {f}
          /\ phase \in {"issued", "admitted"}
          /\ UNCHANGED <<phase, chosen, issued, admission>>
      BY <1>9, AlterKeepsSigning DEF Alter
    <2> QED  BY <2>1 DEF RunInv, Early, Ran, IssuedFor
  <1>10. CASE \E holds \in SUBSET Postconditions, n \in 0..1 : Execute(holds, n)
    BY <1>10, ExecuteRuns
  <1>11. CASE \E verifier \in Verifiers : \E r \in ResultsOf(verifier) : Verify(verifier, r)
    BY <1>11 DEF Verify, RunInv, Early, Ran, IssuedFor
  <1>12. CASE \E kpis \in Scorecards : Close(kpis)
    BY <1>12 DEF Close, RunInv, Early, Ran, IssuedFor
  <1>13. CASE UNCHANGED vars
    BY <1>13 DEF vars, actionVars, RunInv, Early, Ran, IssuedFor
  <1> QED
    BY <1>1, <1>2, <1>3, <1>4, <1>5, <1>6, <1>7, <1>8, <1>9, <1>10, <1>11, <1>12, <1>13 DEF Next

\* Whatever answers come late and however envelopes change on the way, one was
\* issued for what was chosen of the open request, and what runs is the one a
\* backend was admitted for (validate_decision, ExecutionEnvelope.binding).
THEOREM RunsAsChosen == Spec => []RanAsChosen
  <1>1. RunInv => RanAsChosen
    BY DEF RunInv, Ran, RanAsChosen, HasRun, IssuedFor
  <1> QED
    BY <1>1, RunInit, RunStep, PTL DEF Spec

-----------------------------------------------------------------------------
(***************************************************************************)
(* Where it runs.  What is issued names a target the place permits, what   *)
(* is admitted names what its backend lacks, and both are there when       *)
(* something runs.                                                         *)
(***************************************************************************)
PermittedAt(t, p, approved) ==
    /\ p.prohibit_raw_remote => ~t.raw_data_may_leave_device
    /\ t.locality = "SERVER" =>
          /\ p.policy \notin {"LOCAL_ONLY", "DEFER_IF_LOCAL_UNAVAILABLE"}
          /\ p.policy = "REMOTE_REQUIRES_APPROVAL" => approved

PlacedRight(i) ==
    PermittedAt(i.target, i.place, i.approved) /\ i.envelope.target = i.target.capability_id

Isolated(a) ==
    LET missing == ProfileRequirements[a.a.profile] \ a.backend.capabilities IN
    a.a.downgrade = missing /\ (missing # {} => a.allowed)

PlaceInv ==
    /\ \A i \in issued : PlacedRight(i)
    /\ \A a \in admission : Isolated(a)

LEMMA PlaceInit == Init => PlaceInv
  BY DEF Init, PlaceInv

\* The first of some candidates is one of them.
LEMMA FirstIsOne ==
    ASSUME NEW candidates, NEW S, S \subseteq Nat, S # {}
    PROVE  \E i \in S : FirstOf(candidates, S) = candidates[i]
  <1>1. \E i \in S : \A j \in S : i <= j
    BY Least
  <1>2. (CHOOSE i \in S : \A j \in S : i <= j) \in S
    BY <1>1
  <1> QED  BY <1>2 DEF FirstOf

\* A target that is selected, or may be approved, is one its place permits.
LEMMA SelectionIsPermitted ==
    ASSUME NEW p \in Places, NEW approved,
           NEW t, t = SelectExecutionTarget(p.candidates, p.policy, p.prohibit_raw_remote, p.require_offline),
           t.outcome = "SELECTED" \/ (t.outcome = "REQUIRES_APPROVAL" /\ approved),
           NEW target \in t.selected
    PROVE  PermittedAt(target, p, approved)
  <1> DEFINE permitted == Permitted(p.candidates, p.prohibit_raw_remote, p.require_offline)
             remotes == {i \in permitted : p.candidates[i].locality = "SERVER"}
             locals == permitted \ remotes
  <1>1. permitted \subseteq Nat
    BY CandidatesAreLists DEF Permitted
  <1>2. \A i \in permitted : p.prohibit_raw_remote => ~p.candidates[i].raw_data_may_leave_device
    BY DEF Permitted
  <1>3. t = IF locals # {} THEN Target("SELECTED", {FirstOf(p.candidates, locals)})
            ELSE IF p.policy \in {"LOCAL_ONLY", "DEFER_IF_LOCAL_UNAVAILABLE"} \/ remotes = {}
            THEN Target("DEFERRED", {})
            ELSE IF p.policy = "REMOTE_REQUIRES_APPROVAL"
            THEN Target("REQUIRES_APPROVAL", {FirstOf(p.candidates, remotes)})
            ELSE Target("SELECTED", {FirstOf(p.candidates, remotes)})
    BY Zenon DEF SelectExecutionTarget
  <1> HIDE DEF permitted
  <1>4. \A i \in locals : i \in permitted /\ p.candidates[i].locality # "SERVER"
    OBVIOUS
  <1>5. \A i \in remotes : i \in permitted
    OBVIOUS
  <1>6. locals \subseteq Nat /\ remotes \subseteq Nat
    BY <1>1
  <1> HIDE DEF locals, remotes
  <1>7. CASE locals # {}
    <2>1. target = FirstOf(p.candidates, locals)
      BY <1>3, <1>7 DEF Target
    <2>2. PICK i \in locals : target = p.candidates[i]
      BY <2>1, <1>6, <1>7, FirstIsOne
    <2> QED  BY <2>2, <1>2, <1>4 DEF PermittedAt
  <1>8. CASE locals = {}
    <2>1. /\ p.policy \notin {"LOCAL_ONLY", "DEFER_IF_LOCAL_UNAVAILABLE"} /\ remotes # {}
          /\ target = FirstOf(p.candidates, remotes)
          /\ p.policy = "REMOTE_REQUIRES_APPROVAL" => t.outcome = "REQUIRES_APPROVAL"
      BY <1>3, <1>8 DEF Target
    <2>2. PICK i \in remotes : target = p.candidates[i]
      BY <2>1, <1>6, FirstIsOne
    <2>3. p.policy = "REMOTE_REQUIRES_APPROVAL" => approved
      BY <2>1
    <2> QED  BY <2>1, <2>2, <2>3, <1>2, <1>5 DEF PermittedAt
  <1> QED  BY <1>7, <1>8

\* An envelope is only issued for a target its place permits.
LEMMA IssuePlaces ==
    ASSUME NEW p \in Places, NEW approved, Issue(p, approved), PlaceInv
    PROVE  PlaceInv'
  <1> DEFINE I(c, target) == [envelope |-> [capability |-> c.option, view |-> c.open.view,
                                            target |-> target.capability_id, parameters |-> "as issued",
                                            signature |-> "s"],
                              place |-> p, target |-> target, approved |-> approved]
  <1>1. PICK t : t = SelectExecutionTarget(p.candidates, p.policy, p.prohibit_raw_remote, p.require_offline)
    OBVIOUS
  <1>2. /\ admission' = admission
        /\ \/ phase' = "over" /\ issued' = issued
           \/ /\ phase' = "issued"
              /\ t.outcome = "SELECTED" \/ (t.outcome = "REQUIRES_APPROVAL" /\ approved)
              /\ \E c \in chosen, target \in t.selected : issued' = {I(c, target)}
    BY <1>1, Zenon DEF Issue
  <1>3. \A c, target : /\ I(c, target).place = p /\ I(c, target).approved = approved
                       /\ I(c, target).target = target
                       /\ I(c, target).envelope.target = target.capability_id
    BY Zenon
  <1> HIDE DEF I
  <1>4. \A i \in issued' : PlacedRight(i)
    <2>1. CASE issued' = issued
      BY <2>1 DEF PlaceInv
    <2>2. CASE issued' # issued
      <3>1. PICK c \in chosen, target \in t.selected : issued' = {I(c, target)}
        BY <1>2, <2>2
      <3>2. PermittedAt(target, p, approved)
        BY <1>1, <1>2, <2>2, SelectionIsPermitted
      <3> QED  BY <1>3, <3>1, <3>2 DEF PlacedRight
    <2> QED  BY <2>1, <2>2
  <1> QED  BY <1>2, <1>4 DEF PlaceInv

LEMMA PlaceStep == PlaceInv /\ [Next]_vars => PlaceInv'
  <1> SUFFICES ASSUME PlaceInv, [Next]_vars PROVE PlaceInv'
    OBVIOUS
  <1> USE DEF PlaceInv, Isolated, PlacedRight, PermittedAt
  <1>1. CASE Context
    BY <1>1 DEF Context, actionVars
  <1>2. CASE \E v \in views : Ask(v)
    BY <1>2 DEF Ask
  <1>3. CASE Revise \/ Answer \/ Accept
    BY <1>3 DEF Revise, Answer, Accept
  <1>4. CASE \E d \in Capabilities, s \in Situations : Consider(d, s)
    <2>1. phase' \in {"allowed", "review", "over"} /\ UNCHANGED <<issued, admission>>
      BY <1>4 DEF Consider
    <2> QED  BY <2>1
  <1>5. CASE \E yes \in BOOLEAN : Review(yes)
    BY <1>5 DEF Review
  <1>6. CASE \E p \in Places, approved \in BOOLEAN : Issue(p, approved)
    BY <1>6, IssuePlaces
  <1>7. CASE \E profile \in Profiles, b \in Backends, allow \in BOOLEAN : AdmitRun(profile, b, allow)
    BY <1>7 DEF AdmitRun, AdmitBackend
  <1>8. CASE Alter
    BY <1>8 DEF Alter
  <1>9. CASE \E holds \in SUBSET Postconditions, n \in 0..1 : Execute(holds, n)
    BY <1>9 DEF Execute
  <1>10. CASE \E verifier \in Verifiers : \E r \in ResultsOf(verifier) : Verify(verifier, r)
    BY <1>10 DEF Verify
  <1>11. CASE \E kpis \in Scorecards : Close(kpis)
    BY <1>11 DEF Close
  <1>12. CASE UNCHANGED vars
    BY <1>12 DEF vars, actionVars
  <1> QED
    BY <1>1, <1>2, <1>3, <1>4, <1>5, <1>6, <1>7, <1>8, <1>9, <1>10, <1>11, <1>12 DEF Next

\* For every list of candidates, policy and backend: what runs does so in the
\* isolation asked for, or in one whose shortfall is named and was allowed, and,
\* where it was admitted as issued, where its place permits.
THEOREM RunsWhereAllowed == Spec => []RanWhereAllowed
  <1>1. RunInv /\ PlaceInv => RanWhereAllowed
    <2> SUFFICES ASSUME RunInv, PlaceInv, HasRun
                 PROVE  \E i \in issued, a \in admission :
                           /\ Isolated(a)
                           /\ a.handed = i.envelope =>
                                 /\ \A e \in presented : e.target = i.target.capability_id
                                 /\ PermittedAt(i.target, i.place, i.approved)
      BY Zenon DEF RanWhereAllowed, Isolated, PermittedAt
    <2>1. PICK a \in admission : presented = {a.handed}
      BY DEF RunInv, HasRun, Ran
    <2>2. PICK i \in issued : TRUE
      BY DEF RunInv, HasRun, Ran
    <2> QED  BY <2>1, <2>2 DEF PlaceInv, PlacedRight
  <1> QED
    BY <1>1, RunInit, RunStep, PlaceInit, PlaceStep, PTL DEF Spec


-----------------------------------------------------------------------------
(***************************************************************************)
(* The working set.  What was seen may be cited by who saw it, what is      *)
(* planned as granted may be cited by who the plan is for, and what an      *)
(* artifact cites may be cited by it: since references run one way, a       *)
(* reader never reaches what it may not cite.                              *)
(***************************************************************************)
ArtifactFields == {"content", "tenancy", "cites", "tokens"}

Visible(a, r) == a \in DOMAIN backing /\ MayBeCitedBy(backing[a].tenancy, r)

CitesRight ==
    \A a \in DOMAIN backing :
        /\ DOMAIN backing[a] = ArtifactFields
        /\ \A c \in backing[a].cites : Visible(c, backing[a].tenancy)

PlanIsForReader ==
    /\ \E S : plan \in Seq(S)
    /\ \A j \in DOMAIN plan :
          plan[j].authorization = "GRANTED" => Visible(plan[j].handle.artifact_id, reader)

SeenIsVisible == \A v \in views : \A s \in v.seen : Visible(s[1], v.reader)

ContextInv == CitesRight /\ PlanIsForReader /\ SeenIsVisible

LEMMA CitationsCompose ==
    ASSUME NEW s, NEW t, NEW r, MayBeCitedBy(s, t), MayBeCitedBy(t, r)
    PROVE  MayBeCitedBy(s, r)
  BY DEF MayBeCitedBy

LEMMA SeqGrows ==
    ASSUME NEW S, NEW s \in Seq(S), NEW x
    PROVE  /\ Append(s, x) \in Seq(S \cup {x})
           /\ \A j \in DOMAIN Append(s, x) :
                 \/ j \in DOMAIN s /\ Append(s, x)[j] = s[j]
                 \/ Append(s, x)[j] = x
  <1>1. s \in Seq(S \cup {x})
    OBVIOUS
  <1> QED  BY <1>1

LEMMA ContextStarts == Init => ContextInv
  <1>1. << >> \in Seq({})
    OBVIOUS
  <1> QED
    BY <1>1, BackingAssumption
    DEF Init, ContextInit, ContextInv, CitesRight, PlanIsForReader, SeenIsVisible, Visible,
        ArtifactFields

\* Artifacts come and change; none goes, and none changes its tenancy or what it
\* cites.
LEMMA BackingGrows ==
    ASSUME ContextInv, DOMAIN backing \subseteq DOMAIN backing',
           \A a \in DOMAIN backing : backing'[a].tenancy = backing[a].tenancy
    PROVE  \A a, r : Visible(a, r) => Visible(a, r)'
  BY DEF Visible

LEMMA PlanKeepsContext ==
    ASSUME ContextInv, NEW c \in Candidates, NEW shape, Plan(c, shape)
    PROVE  ContextInv'
  <1>1. c.artifact_id \in DOMAIN backing /\ c.tenancy = backing[c.artifact_id].tenancy
    BY DEF Candidates
  <1>2. PICK h \in CandidateToHandle(c) :
           plan' = Append(plan, [handle |-> h, necessity |-> shape[1], projection |-> shape[2],
                                 authorization |-> Authorization(h)])
    BY DEF Plan
  <1>3. PICK i : i = [handle |-> h, necessity |-> shape[1], projection |-> shape[2],
                      authorization |-> Authorization(h)]
    OBVIOUS
  <1>4. backing' = backing /\ reader' = reader /\ views' = views
    BY DEF Plan
  <1>5. h.artifact_id = c.artifact_id /\ h.tenancy = c.tenancy
    BY DEF CandidateToHandle
  <1>6. i.authorization = "GRANTED" => Visible(i.handle.artifact_id, reader)
    BY <1>1, <1>3, <1>5 DEF Authorization, Visible
  <1>7. PICK S : plan \in Seq(S)
    BY DEF ContextInv, PlanIsForReader
  <1>8. plan' = Append(plan, i)
    BY <1>2, <1>3
  <1>9. /\ plan' \in Seq(S \cup {i})
        /\ \A j \in DOMAIN plan' : (j \in DOMAIN plan /\ plan'[j] = plan[j]) \/ plan'[j] = i
    BY <1>7, <1>8, SeqGrows
  <1>10. PlanIsForReader'
    BY <1>4, <1>6, <1>9 DEF ContextInv, PlanIsForReader, Visible
  <1> QED  BY <1>4, <1>10 DEF ContextInv, CitesRight, SeenIsVisible, Visible

LEMMA AssembleKeepsContext ==
    ASSUME ContextInv, Assemble
    PROVE  ContextInv'
  <1>1. backing' = backing /\ reader' = reader /\ plan' = << >>
    BY DEF Assemble
  <1>2. << >> \in Seq({})
    OBVIOUS
  <1>3. PICK pins :
           views' = views \cup
               {[reader |-> reader, items |-> plan, identity |-> ViewIdentity(plan, pins),
                 seen |-> {<<i.handle.artifact_id, i.projection, pins[i.handle.artifact_id]>> :
                              i \in Shown(plan)}]}
    BY DEF Assemble
  <1>4. ASSUME NEW v \in views', NEW s \in v.seen
        PROVE  Visible(s[1], v.reader)
    <2>1. CASE v \in views
      BY <2>1 DEF ContextInv, SeenIsVisible
    <2>2. CASE v \notin views
      <3>1. /\ v.reader = reader
            /\ v.seen = {<<i.handle.artifact_id, i.projection, pins[i.handle.artifact_id]>> :
                            i \in Shown(plan)}
        BY <1>3, <2>2
      <3>2. PICK i \in Shown(plan) : s[1] = i.handle.artifact_id
        BY <1>4, <3>1
      <3>3. PICK j \in DOMAIN plan : i = plan[j] /\ Materialize(plan[j]) = "MATERIALIZED"
        BY <3>2 DEF Shown
      <3>4. plan[j].authorization = "GRANTED"
        BY <3>3 DEF Materialize
      <3> QED  BY <3>1, <3>2, <3>3, <3>4 DEF ContextInv, PlanIsForReader
    <2> QED  BY <2>1, <2>2
  <1>5. SeenIsVisible'
    BY <1>1, <1>4 DEF SeenIsVisible, Visible
  <1> QED  BY <1>1, <1>2, <1>5 DEF ContextInv, CitesRight, PlanIsForReader, Visible

LEMMA ChangeKeepsContext ==
    ASSUME ContextInv, NEW a, Change(a)
    PROVE  ContextInv'
  <1>1. /\ a \in DOMAIN backing /\ reader' = reader /\ plan' = plan /\ views' = views
        /\ backing' = [backing EXCEPT ![a].content = @ + 1]
    BY DEF Change
  <1>2. DOMAIN backing' = DOMAIN backing
    BY <1>1
  <1>3. ASSUME NEW b \in DOMAIN backing
        PROVE  /\ DOMAIN backing'[b] = ArtifactFields
               /\ backing'[b].tenancy = backing[b].tenancy /\ backing'[b].cites = backing[b].cites
    <2>1. DOMAIN backing[b] = ArtifactFields
      BY DEF ContextInv, CitesRight
    <2>2. CASE b = a
      <3>1. backing'[b] = [backing[b] EXCEPT !.content = @ + 1]
        BY <1>1, <2>2
      <3> QED  BY <2>1, <3>1 DEF ArtifactFields
    <2>3. CASE b # a
      BY <1>1, <2>1, <2>3
    <2> QED  BY <2>2, <2>3
  <1> QED  BY <1>1, <1>2, <1>3 DEF ContextInv, CitesRight, PlanIsForReader, SeenIsVisible, Visible

LEMMA PublishKeepsContext ==
    ASSUME ContextInv, NEW v \in views, NEW a, NEW t, Publish(v, a, t)
    PROVE  ContextInv'
  <1>1. PICK cites : /\ cites = {s[1] : s \in v.seen}
                     /\ \A c \in cites : MayBeCitedBy(backing[c].tenancy, t)
                     /\ backing' = [b \in DOMAIN backing \cup {a} |->
                           IF b = a THEN [content |-> 0, tenancy |-> t, cites |-> cites, tokens |-> {1}]
                           ELSE backing[b]]
    BY DEF Publish
  <1>2. a \notin DOMAIN backing /\ reader' = reader /\ plan' = plan /\ views' = views
    BY DEF Publish
  <1>3. /\ DOMAIN backing' = DOMAIN backing \cup {a}
        /\ \A b \in DOMAIN backing : backing'[b] = backing[b]
        /\ backing'[a] = [content |-> 0, tenancy |-> t, cites |-> cites, tokens |-> {1}]
    BY <1>1, <1>2
  <1>4. \A c \in cites : c \in DOMAIN backing
    BY <1>1 DEF ContextInv, SeenIsVisible, Visible
  <1>5. /\ DOMAIN backing'[a] = ArtifactFields /\ backing'[a].cites = cites
        /\ backing'[a].tenancy = t
    BY <1>3 DEF ArtifactFields
  <1>6. CitesRight'
    BY <1>1, <1>3, <1>4, <1>5 DEF ContextInv, CitesRight, Visible
  <1> QED  BY <1>2, <1>3, <1>6 DEF ContextInv, PlanIsForReader, SeenIsVisible, Visible

\* All an action does to the working set it does while that is put together.
LEMMA ContextSteps ==
    ASSUME [Next]_vars
    PROVE  ContextNext \/ UNCHANGED contextVars
  BY DEF Next, vars, Context, Ask, Revise, Answer, Accept, Consider, Review, Issue, AdmitRun,
         Alter, Execute, Verify, Close

LEMMA ContextStep == ContextInv /\ [Next]_vars => ContextInv'
  <1> SUFFICES ASSUME ContextInv, [Next]_vars PROVE ContextInv'
    OBVIOUS
  <1>1. ASSUME NEW c \in Candidates, NEW shape \in PlanShapes, Plan(c, shape) PROVE ContextInv'
    BY <1>1, PlanKeepsContext
  <1>2. CASE Assemble
    BY <1>2, AssembleKeepsContext
  <1>3. CASE Drop
    <2>1. << >> \in Seq({})
      OBVIOUS
    <2> QED  BY <1>3, <2>1 DEF Drop, ContextInv, CitesRight, PlanIsForReader, SeenIsVisible, Visible
  <1>4. ASSUME NEW t \in Tenancies, NextReader(t) PROVE ContextInv'
    BY <1>4 DEF NextReader, ContextInv, CitesRight, PlanIsForReader, SeenIsVisible, Visible
  <1>5. ASSUME NEW a \in ChangingIds, Change(a) PROVE ContextInv'
    BY <1>5, ChangeKeepsContext
  <1>6. ASSUME NEW v \in views, NEW a \in ArtifactIds, NEW t \in Tenancies, Publish(v, a, t)
        PROVE  ContextInv'
    BY <1>6, PublishKeepsContext
  <1>7. CASE UNCHANGED contextVars
    BY <1>7 DEF contextVars, ContextInv, CitesRight, PlanIsForReader, SeenIsVisible, Visible
  <1> QED  BY <1>1, <1>2, <1>3, <1>4, <1>5, <1>6, <1>7, ContextSteps DEF ContextNext

\* Through any chain of published artifacts, of any length, nothing private is
\* seen but by its tenant and nothing but the public by the public (may_be_cited_by).
THEOREM NothingPrivateEscapes == Spec => []NothingEscapes
  <1>1. ContextInv => NothingEscapes
    <2> SUFFICES ASSUME ContextInv, NEW v \in views, NEW s \in v.seen, NEW a \in Origins(s[1])
                 PROVE  /\ backing[a].tenancy.visibility = "PRIVATE" =>
                              v.reader.tenant = backing[a].tenancy.tenant
                        /\ v.reader.visibility = "PUBLIC" => backing[a].tenancy.visibility = "PUBLIC"
      BY DEF NothingEscapes
    <2> DEFINE Reach == {b \in DOMAIN backing : Visible(b, v.reader)}
    <2>1. s[1] \in Reach
      BY DEF ContextInv, SeenIsVisible, Visible
    <2>2. ASSUME NEW c \in Reach, NEW b \in backing[c].cites
          PROVE  b \in Reach
      <3>1. Visible(b, backing[c].tenancy)
        BY DEF ContextInv, CitesRight
      <3> QED  BY <3>1, CitationsCompose DEF Visible
    <2>3. a \in Reach
      <3>1. \A c \in Reach : backing[c].cites \subseteq Reach
        BY <2>2
      <3>2. Reach \in SUBSET DOMAIN backing
        OBVIOUS
      <3> HIDE DEF Reach
      <3> QED  BY <2>1, <3>1, <3>2 DEF Origins
    <2>4. MayBeCitedBy(backing[a].tenancy, v.reader)
      BY <2>3 DEF Visible
    <2> QED  BY <2>4 DEF MayBeCitedBy
  <1> QED  BY <1>1, ContextStarts, ContextStep, PTL DEF Spec

-----------------------------------------------------------------------------
(***************************************************************************)
(* The views.  What a view showed is determined by the identities of its    *)
(* items and by its pins: an item was shown exactly when it was granted and *)
(* is of the content that was pinned.                                      *)
(***************************************************************************)
ItemFields == {"handle", "necessity", "projection", "authorization"}

Shows(x, pins) ==
    /\ x.authorization = "GRANTED"
    /\ x.handle.artifact_id \in DOMAIN pins
    /\ x.handle.content = pins[x.handle.artifact_id]

Glance(x, pins) == <<x.handle.artifact_id, x.projection, pins[x.handle.artifact_id]>>

SeenOf(X, pins) == {Glance(x, pins) : x \in {y \in X : Shows(y, pins)}}

Identities(items) == {ItemIdentity(items[j]) : j \in DOMAIN items}

AreItems(items) ==
    /\ \E S : items \in Seq(S)
    /\ \A j \in DOMAIN items : DOMAIN items[j] = ItemFields

Pinned(v) ==
    /\ AreItems(v.items)
    /\ v.identity.plan = PlanIdentity(v.items)
    /\ v.seen = SeenOf(Identities(v.items), v.identity.pins)
    /\ DOMAIN v.identity.pins = {s[1] : s \in v.seen}

ViewInv == AreItems(plan) /\ \A v \in views : Pinned(v)

LEMMA IdentityKeeps ==
    ASSUME NEW i, DOMAIN i = ItemFields
    PROVE  /\ ItemIdentity(i).authorization = i.authorization
           /\ ItemIdentity(i).projection = i.projection
           /\ ItemIdentity(i).handle.artifact_id = i.handle.artifact_id
           /\ ItemIdentity(i).handle.content = i.handle.content
  BY DEF ItemIdentity, HandleIdentity, ItemFields

LEMMA AssemblePins ==
    ASSUME ViewInv, Assemble
    PROVE  \A v \in views' : Pinned(v)
  <1> DEFINE pins == [a \in {i.handle.artifact_id : i \in Shown(plan)} |-> backing[a].content]
             seen == {Glance(i, pins) : i \in Shown(plan)}
             made == [reader |-> reader, items |-> plan, identity |-> ViewIdentity(plan, pins),
                      seen |-> seen]
  <1>1. views' = views \cup {made}
    BY DEF Assemble, Glance
  <1>2. /\ made.items = plan /\ made.identity.plan = PlanIdentity(plan)
        /\ made.identity.pins = pins /\ made.seen = seen
    BY DEF ViewIdentity
  <1>3. AreItems(plan)
    BY DEF ViewInv
  <1>4. ASSUME NEW j \in DOMAIN plan
        PROVE  /\ Shows(ItemIdentity(plan[j]), pins) <=> Materialize(plan[j]) = "MATERIALIZED"
               /\ Glance(ItemIdentity(plan[j]), pins) = Glance(plan[j], pins)
    <2>1. PICK i : i = plan[j]
      OBVIOUS
    <2>2. DOMAIN i = ItemFields
      BY <1>3, <2>1 DEF AreItems
    <2>3. Glance(ItemIdentity(i), pins) = Glance(i, pins)
      <3> HIDE DEF pins
      <3> QED  BY <2>2, IdentityKeeps DEF Glance
    <2>4. Shows(ItemIdentity(i), pins) <=> Shows(i, pins)
      <3> HIDE DEF pins
      <3> QED  BY <2>2, IdentityKeeps DEF Shows
    <2>5. Shows(i, pins) => Materialize(i) = "MATERIALIZED"
      BY DEF Shows, Materialize
    <2>6. ASSUME Materialize(i) = "MATERIALIZED"
          PROVE  Shows(i, pins)
      <3>1. i \in Shown(plan)
        BY <2>1, <2>6, Zenon DEF Shown
      <3>2. i.authorization = "GRANTED" /\ backing[i.handle.artifact_id].content = i.handle.content
        BY <2>6 DEF Materialize
      <3> QED  BY <3>1, <3>2 DEF Shows
    <2> QED  BY <2>1, <2>3, <2>4, <2>5, <2>6
  <1>5. seen = SeenOf(Identities(plan), pins)
    <2> HIDE DEF pins
    <2>1. ASSUME NEW s \in seen
          PROVE  s \in SeenOf(Identities(plan), pins)
      <3>1. PICK j \in DOMAIN plan : s = Glance(plan[j], pins) /\ Materialize(plan[j]) = "MATERIALIZED"
        BY DEF Shown
      <3>2. ItemIdentity(plan[j]) \in Identities(plan)
        BY Zenon DEF Identities
      <3>3. Shows(ItemIdentity(plan[j]), pins) /\ s = Glance(ItemIdentity(plan[j]), pins)
        BY <1>4, <3>1
      <3> QED  BY <3>2, <3>3, Zenon DEF SeenOf
    <2>2. ASSUME NEW s \in SeenOf(Identities(plan), pins)
          PROVE  s \in seen
      <3>1. PICK x \in Identities(plan) : Shows(x, pins) /\ s = Glance(x, pins)
        BY Zenon DEF SeenOf
      <3>2. PICK j \in DOMAIN plan : x = ItemIdentity(plan[j])
        BY Zenon DEF Identities
      <3>3. Materialize(plan[j]) = "MATERIALIZED" /\ s = Glance(plan[j], pins)
        BY <1>4, <3>1, <3>2
      <3> QED  BY <3>3, Zenon DEF Shown
    <2> QED  BY <2>1, <2>2, Zenon
  <1>6. DOMAIN pins = {s[1] : s \in seen}
    <2>1. DOMAIN pins = {i.handle.artifact_id : i \in Shown(plan)}
      OBVIOUS
    <2> HIDE DEF pins
    <2>2. \A i : Glance(i, pins)[1] = i.handle.artifact_id
      BY DEF Glance
    <2>3. \A s \in seen : s[1] \in DOMAIN pins
      BY <2>1, <2>2
    <2>4. ASSUME NEW a \in DOMAIN pins
          PROVE  \E s \in seen : a = s[1]
      <3>1. PICK i \in Shown(plan) : a = i.handle.artifact_id
        BY <2>1
      <3> QED  BY <2>2, <3>1
    <2> HIDE DEF seen
    <2> QED  BY <2>3, <2>4
  <1>7. Pinned(made)
    <2> HIDE DEF pins, seen, made
    <2> QED  BY <1>2, <1>3, <1>5, <1>6 DEF Pinned
  <1> QED  BY <1>1, <1>7 DEF ViewInv

LEMMA ViewStarts == Init => ViewInv
  <1>1. << >> \in Seq({})
    OBVIOUS
  <1> QED  BY <1>1 DEF Init, ContextInit, ViewInv, AreItems

LEMMA ViewStep == ViewInv /\ [Next]_vars => ViewInv'
  <1> SUFFICES ASSUME ViewInv, [Next]_vars PROVE ViewInv'
    OBVIOUS
  <1>0. << >> \in Seq({})
    OBVIOUS
  <1>1. ASSUME NEW c \in Candidates, NEW shape \in PlanShapes, Plan(c, shape) PROVE ViewInv'
    <2>1. views' = views /\ \E i : DOMAIN i = ItemFields /\ plan' = Append(plan, i)
      BY <1>1 DEF Plan, ItemFields
    <2>2. PICK i : DOMAIN i = ItemFields /\ plan' = Append(plan, i)
      BY <2>1
    <2>3. PICK S : plan \in Seq(S)
      BY DEF ViewInv, AreItems
    <2>4. /\ plan' \in Seq(S \cup {i})
          /\ \A j \in DOMAIN plan' : (j \in DOMAIN plan /\ plan'[j] = plan[j]) \/ plan'[j] = i
      BY <2>2, <2>3, SeqGrows
    <2>5. AreItems(plan')
      BY <2>2, <2>4 DEF ViewInv, AreItems
    <2> QED  BY <2>1, <2>5 DEF ViewInv
  <1>2. CASE Assemble
    <2>1. plan' = << >>
      BY <1>2 DEF Assemble
    <2> QED  BY <1>0, <1>2, <2>1, AssemblePins DEF ViewInv, AreItems
  <1>3. CASE Drop
    BY <1>0, <1>3 DEF Drop, ViewInv, AreItems
  <1>4. CASE plan' = plan /\ views' = views
    BY <1>4 DEF ViewInv
  <1>5. \/ plan' = plan /\ views' = views
        \/ \E c \in Candidates, shape \in PlanShapes : Plan(c, shape)
        \/ Assemble \/ Drop
    BY ContextSteps DEF ContextNext, contextVars, NextReader, Change, Publish
  <1> QED  BY <1>1, <1>2, <1>3, <1>4, <1>5

\* The plan hash names the first item of every key, and nothing that is no item.
LEMMA PlanNamesFirsts ==
    ASSUME NEW items, AreItems(items)
    PROVE  /\ PlanIdentity(items) \subseteq Identities(items)
           /\ \A j \in DOMAIN items : \E k \in DOMAIN items :
                 /\ SortKey(items[k]) = SortKey(items[j])
                 /\ ItemIdentity(items[k]) \in PlanIdentity(items)
  <1>1. ASSUME NEW j \in DOMAIN items
        PROVE  \E k \in DOMAIN items : /\ SortKey(items[k]) = SortKey(items[j])
                                       /\ ItemIdentity(items[k]) \in PlanIdentity(items)
    <2> DEFINE Same == {k \in DOMAIN items : SortKey(items[k]) = SortKey(items[j])}
    <2>1. DOMAIN items \subseteq Nat /\ \A l \in DOMAIN items : 1..(l - 1) \subseteq DOMAIN items
      BY DEF AreItems
    <2>2. PICK k \in Same : \A l \in Same : k <= l
      <3>1. Same \subseteq Nat /\ Same # {}
        BY <2>1
      <3> HIDE DEF Same
      <3> QED  BY <3>1, Least
    <2>3. \A l \in 1..(k - 1) : SortKey(items[l]) # SortKey(items[k])
      BY <2>1, <2>2
    <2>4. items[k] \in SortedUnique(items)
      BY <2>2, <2>3 DEF SortedUnique
    <2>5. ItemIdentity(items[k]) \in PlanIdentity(items)
      BY <2>4, Zenon DEF PlanIdentity
    <2> QED  BY <2>2, <2>5
  <1>2. ASSUME NEW x \in PlanIdentity(items)
        PROVE  x \in Identities(items)
    BY Zenon DEF PlanIdentity, SortedUnique, Identities
  <1> QED  BY <1>1, <1>2, Zenon

\* What one view showed and another of the same plan hash did not, though it read
\* the artifact alike, is of items that the hash takes for one.
LEMMA ShownUnlessCollapsed ==
    ASSUME NEW v, NEW w, Pinned(v), Pinned(w), v.identity.plan = w.identity.plan,
           NEW s \in v.seen \ w.seen, s[1] \notin DivergenceFrom(v.identity.pins, w.identity.pins)
    PROVE  Collapsed(v, s[1], s[2])
  <1>1. PICK p, q : p = v.identity.pins /\ q = w.identity.pins
    OBVIOUS
  <1>2. v.seen = SeenOf(Identities(v.items), p) /\ w.seen = SeenOf(Identities(w.items), q)
    BY <1>1 DEF Pinned
  <1>3. PICK x \in Identities(v.items) : Shows(x, p) /\ s = Glance(x, p)
    BY <1>2, Zenon DEF SeenOf
  <1>4. s[1] = x.handle.artifact_id /\ s[2] = x.projection
    BY <1>3 DEF Glance
  <1>5. s[1] \in DOMAIN q /\ p[s[1]] = q[s[1]]
    <2>1. s[1] \in DOMAIN p
      BY <1>3, <1>4 DEF Shows
    <2>2. s[1] \notin DivergenceFrom(p, q)
      BY <1>1
    <2> QED  BY <2>1, <2>2 DEF DivergenceFrom
  <1>6. x \notin Identities(w.items)
    <2>1. Shows(x, q) /\ s = Glance(x, q)
      BY <1>3, <1>4, <1>5 DEF Shows, Glance
    <2>2. x \in Identities(w.items) => s \in w.seen
      BY <1>2, <2>1, Zenon DEF SeenOf
    <2> QED  BY <2>2
  <1>7. x \notin PlanIdentity(v.items)
    <2>1. PlanIdentity(v.items) = PlanIdentity(w.items)
      BY DEF Pinned
    <2>2. PlanIdentity(w.items) \subseteq Identities(w.items)
      BY PlanNamesFirsts DEF Pinned
    <2> QED  BY <1>6, <2>1, <2>2
  <1>8. PICK j \in DOMAIN v.items : x = ItemIdentity(v.items[j])
    BY <1>3, Zenon DEF Identities
  <1>9. PICK k \in DOMAIN v.items : /\ SortKey(v.items[k]) = SortKey(v.items[j])
                                   /\ ItemIdentity(v.items[k]) \in PlanIdentity(v.items)
    BY PlanNamesFirsts DEF Pinned
  <1>10. ItemIdentity(v.items[j]) # ItemIdentity(v.items[k])
    BY <1>7, <1>8, <1>9
  <1>11. v.items[j].handle.artifact_id = s[1] /\ v.items[j].projection = s[2]
    <2>1. DOMAIN v.items[j] = ItemFields
      BY DEF Pinned, AreItems
    <2> QED  BY <1>4, <1>8, <2>1, IdentityKeeps
  <1> QED  BY <1>9, <1>10, <1>11, Zenon DEF Collapsed

\* Whatever is planned twice and whatever changes in between: two views of one plan
\* hash show the same, but for what divergence_from names and what sorted_unique
\* took for one.
THEOREM EqualViewsShowTheSame == Spec => []SameViewSameBytes
  <1>1. ViewInv => SameViewSameBytes
    BY ShownUnlessCollapsed DEF ViewInv, SameViewSameBytes
  <1> QED  BY <1>1, ViewStarts, ViewStep, PTL DEF Spec

-----------------------------------------------------------------------------
(***************************************************************************)
(* What is promoted and closed.                                            *)
(***************************************************************************)
Kept ==
    \A i \in DOMAIN Scorecard : \A bound \in Scorecard[i].bound :
        /\ Scorecard[i].direction = "MUST_EQUAL" => Measured(Scorecard[i]).value = bound
        /\ Scorecard[i].direction = "MUST_NOT_EXCEED" => Measured(Scorecard[i]).value <= bound

PromotionInv ==
    /\ phase \in {"promoted", "closed"} /\ RulesDecide => Postconditions \ excused \subseteq world.holds
    /\ phase = "closed" => Kept

LEMMA Tiers ==
    /\ TierRank("STRUCTURAL") = 1
    /\ TierRank("DETERMINISTIC") = 2
  <1>1. DOMAIN AssuranceTier = 1..6
    BY DEF AssuranceTier
  <1>2. /\ AssuranceTier[1] = "STRUCTURAL" /\ AssuranceTier[2] = "DETERMINISTIC"
        /\ AssuranceTier[3] = "EVIDENTIAL" /\ AssuranceTier[4] = "SEMANTIC"
        /\ AssuranceTier[5] = "ENSEMBLE" /\ AssuranceTier[6] = "HUMAN"
    BY DEF AssuranceTier
  <1>3. \A i \in 1..6 : i = 1 \/ i = 2 \/ i = 3 \/ i = 4 \/ i = 5 \/ i = 6
    OBVIOUS
  <1>4. \A i \in DOMAIN AssuranceTier :
            /\ AssuranceTier[i] = "STRUCTURAL" <=> i = 1
            /\ AssuranceTier[i] = "DETERMINISTIC" <=> i = 2
    BY <1>1, <1>2, <1>3
  <1>5. TierRank("STRUCTURAL") = 1
    BY <1>1, <1>4 DEF TierRank
  <1>6. TierRank("DETERMINISTIC") = 2
    BY <1>1, <1>4 DEF TierRank
  <1> QED  BY <1>5, <1>6

\* A verifier that is sufficient where rules decide is a rule or a person.
LEMMA SufficientDecide ==
    ASSUME RulesDecide, NEW v \in Verifiers, IsSufficient(v, Requirement)
    PROVE  v.tier \in {"DETERMINISTIC", "HUMAN"}
  <1>1. v.tier \in {"STRUCTURAL", "DETERMINISTIC", "HUMAN"}
    BY DEF RulesDecide, IsSufficient
  <1>2. v.tier # "STRUCTURAL"
    <2>1. PICK m : m = TierRank(Requirement.min_tier)
      OBVIOUS
    <2>2. m \in Int /\ m >= 2
      BY <2>1, Tiers DEF RulesDecide, AssuranceTier
    <2>3. TierRank(v.tier) >= m
      BY <2>1 DEF IsSufficient
    <2>4. v.tier = "STRUCTURAL" => TierRank(v.tier) = 1
      BY Tiers, Zenon
    <2>5. PICK n : n = TierRank(v.tier)
      OBVIOUS
    <2>6. n >= m /\ (v.tier = "STRUCTURAL" => n = 1)
      BY <2>3, <2>4, <2>5
    <2>7. n # 1
      BY <2>2, <2>6
    <2> QED  BY <2>6, <2>7
  <1> QED  BY <1>1, <1>2

\* A result that may promote leaves no check out, and each that it does not excuse
\* passed and is right.
LEMMA PromotableHolds ==
    ASSUME NEW v, v.tier \in {"DETERMINISTIC", "HUMAN"}, NEW r \in ResultsOf(v), MayPromote(r)
    PROVE  Postconditions \ Excused(v, r) \subseteq world.holds
  <1>1. /\ r.checks \in Checks
        /\ r.omissions = Postconditions \ DOMAIN r.checks
        /\ \A p \in DOMAIN r.checks :
              Decides(v, r.checks[p]) /\ r.checks[p].verdict \in {"PASS", "FAIL"} =>
                  (r.checks[p].verdict = "PASS" <=> p \in world.holds)
    BY DEF ResultsOf
  <1>2. \A p \in DOMAIN r.checks : /\ r.checks[p].verdict \in Verdict
                                    /\ r.checks[p].determinism \in Determinism
    BY <1>1 DEF Checks
  <1>3. \A p \in DOMAIN r.checks : r.checks[p].verdict \notin {"FAIL", "INDETERMINATE"}
    <2>1. Verdict_(r.checks) \notin {"FAIL", "INDETERMINATE"}
      BY DEF MayPromote
    <2>2. /\ "FAIL" \notin {r.checks[p].verdict : p \in DOMAIN r.checks}
          /\ "INDETERMINATE" \notin {r.checks[p].verdict : p \in DOMAIN r.checks}
      BY <2>1 DEF Verdict_
    <2> QED  BY <2>2
  <1>4. Postconditions \subseteq DOMAIN r.checks
    BY <1>1 DEF MayPromote
  <1>5. ASSUME NEW p \in Postconditions, p \notin Excused(v, r)
        PROVE  p \in world.holds
    <2>1. p \in DOMAIN r.checks
      BY <1>4
    <2>2. r.checks[p].verdict # "NOT_APPLICABLE"
      BY <1>5, <2>1 DEF Excused
    <2>3. r.checks[p].verdict = "PASS"
      BY <1>2, <1>3, <2>1, <2>2 DEF Verdict
    <2>4. Decides(v, r.checks[p])
      BY <1>2, <1>5, <2>1 DEF Excused, Decides, Determinism
    <2> QED  BY <1>1, <2>1, <2>3, <2>4
  <1> QED  BY <1>5

\* A mission that nothing blocks keeps the bars of the scorecard it was closed on,
\* and that is the promised one, in whatever order.
LEMMA ClosedKeeps ==
    ASSUME NEW kpis, KPISetId(kpis) = KPISetId(Scorecard),
           \A k \in Safety(kpis) : \A o \in Judge(k, Measured(k)) : ~o.blocking
    PROVE  Kept
  <1> SUFFICES ASSUME NEW i \in DOMAIN Scorecard, NEW bound \in Scorecard[i].bound
               PROVE  /\ Scorecard[i].direction = "MUST_EQUAL" =>
                            Measured(Scorecard[i]).value = bound
                      /\ Scorecard[i].direction = "MUST_NOT_EXCEED" =>
                            Measured(Scorecard[i]).value <= bound
    BY DEF Kept
  <1>1. PICK k : k = Scorecard[i]
    OBVIOUS
  <1>2. CASE IsSafety(k)
    <2>1. k \in Safety(kpis)
      BY <1>1, <1>2 DEF Safety, KPISetId
    <2>2. PICK m : m = Measured(k)
      OBVIOUS
    <2>3. m.kpi_id = k.kpi_id
      BY <2>2 DEF Measured
    <2>4. SatisfiedBy(k, m.value)
      <3>1. PICK o : o = [kpi_id |-> k.kpi_id, satisfied |-> SatisfiedBy(k, m.value),
                          blocking |-> IsSafety(k) /\ ~SatisfiedBy(k, m.value)]
        OBVIOUS
      <3>2. o \in Judge(k, m)
        BY <2>3, <3>1, Zenon DEF Judge
      <3>3. ~o.blocking
        BY <2>1, <2>2, <3>2
      <3>4. o.blocking = (IsSafety(k) /\ ~SatisfiedBy(k, m.value))
        BY <3>1, Zenon
      <3> QED  BY <1>2, <3>3, <3>4, Zenon
    <2>5. bound \in k.bound
      BY <1>1
    <2>6. /\ k.direction = "MUST_EQUAL" => m.value = bound
          /\ k.direction = "MUST_NOT_EXCEED" => m.value <= bound
      BY <2>4, <2>5 DEF SatisfiedBy
    <2> QED  BY <1>1, <2>2, <2>6
  <1>3. CASE ~IsSafety(k)
    BY <1>1, <1>3 DEF IsSafety
  <1> QED  BY <1>2, <1>3

LEMMA PromotionStep == PromotionInv /\ [Next]_vars => PromotionInv'
  <1> SUFFICES ASSUME PromotionInv, [Next]_vars PROVE PromotionInv'
    OBVIOUS
  <1>1. CASE phase' \notin {"promoted", "closed"}
    BY <1>1 DEF PromotionInv
  <1>2. CASE Context
    BY <1>2 DEF Context, actionVars, PromotionInv, Kept, Measured
  <1>3. CASE \E v \in views : Ask(v)
    BY <1>1, <1>3 DEF Ask
  <1>4. CASE Revise \/ Answer \/ Accept
    BY <1>1, <1>4 DEF Revise, Answer, Accept
  <1>5. CASE \E d \in Capabilities, s \in Situations : Consider(d, s)
    <2>1. phase' \in {"allowed", "review", "over"}
      BY <1>5 DEF Consider
    <2> QED  BY <1>1, <2>1
  <1>6. CASE \E yes \in BOOLEAN : Review(yes)
    BY <1>1, <1>6 DEF Review
  <1>7. CASE \E p \in Places, approved \in BOOLEAN : Issue(p, approved)
    <2>1. phase' \in {"issued", "over"}
      BY <1>7, Zenon DEF Issue
    <2> QED  BY <1>1, <2>1
  <1>8. CASE \E profile \in Profiles, b \in Backends, allow \in BOOLEAN : AdmitRun(profile, b, allow)
    BY <1>1, <1>8 DEF AdmitRun
  <1>9. CASE Alter
    BY <1>1, <1>9 DEF Alter
  <1>10. CASE \E holds \in SUBSET Postconditions, n \in 0..1 : Execute(holds, n)
    <2>1. phase' \in {"ran", "over"}
      BY <1>10 DEF Execute
    <2> QED  BY <1>1, <2>1
  <1>11. CASE \E verifier \in Verifiers : \E r \in ResultsOf(verifier) : Verify(verifier, r)
    <2>0. PICK v \in Verifiers : \E r \in ResultsOf(v) : Verify(v, r)
      BY <1>11
    <2>1. PICK r \in ResultsOf(v) : Verify(v, r)
      BY <2>0
    <2>2. world' = world
      BY <2>1 DEF Verify
    <2>3. CASE MayPromote(r) /\ IsSufficient(v, Requirement)
      <3>1. phase' = "promoted" /\ excused' = Excused(v, r)
        BY <2>1, <2>3, Zenon DEF Verify
      <3>2. RulesDecide => Postconditions \ excused' \subseteq world.holds
        <4> SUFFICES ASSUME RulesDecide PROVE Postconditions \ excused' \subseteq world.holds
          OBVIOUS
        <4>1. v.tier \in {"DETERMINISTIC", "HUMAN"}
          BY <2>3, SufficientDecide
        <4> QED  BY <2>3, <3>1, <4>1, PromotableHolds
      <3> QED  BY <2>2, <3>1, <3>2 DEF PromotionInv
    <2>4. CASE ~(MayPromote(r) /\ IsSufficient(v, Requirement))
      <3>1. phase' = "over"
        BY <2>1, <2>4 DEF Verify
      <3> QED  BY <1>1, <2>2, <3>1
    <2> QED  BY <2>3, <2>4
  <1>12. CASE \E kpis \in Scorecards : Close(kpis)
    <2>1. PICK kpis : Close(kpis)
      BY <1>12
    <2>2. world' = world /\ excused' = excused /\ phase = "promoted"
      BY <2>1 DEF Close
    <2>3. CASE /\ KPISetId(kpis) = KPISetId(Scorecard)
               /\ \A k \in Safety(kpis) : \A o \in Judge(k, Measured(k)) : ~o.blocking
      <3>1. Kept
        BY <2>3, ClosedKeeps
      <3>2. Kept'
        BY <2>2, <3>1 DEF Kept, Measured
      <3>3. phase' = "closed"
        BY <2>1, <2>3 DEF Close
      <3> QED  BY <2>2, <3>2, <3>3 DEF PromotionInv
    <2>4. CASE ~(/\ KPISetId(kpis) = KPISetId(Scorecard)
                 /\ \A k \in Safety(kpis) : \A o \in Judge(k, Measured(k)) : ~o.blocking)
      <3>1. phase' = "over"
        BY <2>1, <2>4 DEF Close
      <3> QED  BY <1>1, <2>2, <3>1
    <2> QED  BY <2>3, <2>4
  <1>13. CASE UNCHANGED vars
    BY <1>13 DEF vars, actionVars, PromotionInv, Kept, Measured
  <1> QED
    BY <1>2, <1>3, <1>4, <1>5, <1>6, <1>7, <1>8, <1>9, <1>10, <1>11, <1>12, <1>13 DEF Next

\* For every set of verifiers and every scorecard: what is promoted where rules
\* and people decide has each postcondition that the result neither calls not
\* applicable nor leaves to a model, and a closed mission kept each hard bar of
\* the promised scorecard (may_promote, is_sufficient, judge).
THEOREM PromotionsAreEarned == Spec => []PromotedTrulyHolds
  <1>1. Init => PromotionInv
    BY DEF Init, PromotionInv
  <1>2. PromotionInv => PromotedTrulyHolds
    BY DEF PromotionInv, PromotedTrulyHolds, Kept
  <1> QED  BY <1>1, <1>2, PromotionStep, PTL DEF Spec
=============================================================================

--------------------------- MODULE MCMissionAction ---------------------------
(* MissionAction with an artifact private to a tenant, an internal one and    *)
(* one to be published, and two capabilities of which one is pinned.          *)
EXTENDS MissionAction

Tenancy(visibility, tenant) == [visibility |-> visibility, tenant |-> tenant]
Public == Tenancy("PUBLIC", {})
Internal == Tenancy("INTERNAL", {})
Private(t) == Tenancy("PRIVATE", {t})

Artifact(tenancy, tokens) == [content |-> 0, tenancy |-> tenancy, cites |-> {}, tokens |-> tokens]

MCBacking == "a@1" :> Artifact(Private("t1"), {2}) @@ "b@1" :> Artifact(Internal, {})
MCTenancies == {Public, Internal, Private("t1"), Private("t2")}
MCTenancy == Private("t1")
MCShapes == {<<"REQUIRED", "summary">>, <<"OPTIONAL", "full">>}

\* Bound: a plan of three items is about one artifact, "a@1".
AThirdOfOne == Len(plan) = 3 => \A i \in 1..3 : plan[i].handle.artifact_id = "a@1"

Capability(id, artifact, digest, provenance, trust) ==
    [id |-> id, artifact_id |-> artifact, digest |-> digest, provenance |-> provenance,
     trust |-> trust, required_authority |-> {"write"},
     credentials |-> {[production_broker_required |-> TRUE]},
     postconditions |-> {"p1"}, verification_method |-> {"check"},
     retry_safety |-> "UNSAFE", idempotency |-> "UNKNOWN"]

\* c1 is pinned at its second version, c2 at every one.
MCCapabilities ==
    {Capability("c1", "c1@1", {}, "admitted", {2}), Capability("c1", "c1@1", {}, "unverified", {2}),
     Capability("c1", "c1@2", {}, "admitted", {2}), Capability("c1", "c1@2", {"d1"}, "admitted", {2}),
     Capability("c2", "c2@1", {"d2"}, "admitted", {2}), Capability("c2", "c2@1", {"d2"}, "admitted", {}),
     Capability("c2", "c2@1", {"other"}, "admitted", {2}), Capability("c2", "c2@1", {}, "admitted", {1}),
     [Capability("c2", "c2@1", {"d2"}, "admitted", {2}) EXCEPT !.verification_method = {}]}

Evidence(text, source, proven, metadata, classification, value) ==
    [text |-> text, source |-> source, proven |-> proven, metadata |-> metadata,
     classification |-> classification, field |-> "f", value |-> value]
Clean == Evidence({}, "s", FALSE, {}, "internal", 1)

MCSituation(e, others, granted, broker) ==
    [evidence |-> e, others |-> others, granted |-> granted, broker |-> broker,
     classification |-> "internal"]

MCSituations ==
    {MCSituation(e, {}, {"write"}, {"production"}) :
        e \in {Clean, [Clean EXCEPT !.text = {"injection"}], [Clean EXCEPT !.text = {"hidden"}],
               [Clean EXCEPT !.text = {"hidden", "self_authority"}],
               [Clean EXCEPT !.source = "trusted"], [Clean EXCEPT !.metadata = {"injection"}],
               [Clean EXCEPT !.classification = "secret"]}}
    \cup {MCSituation(Clean, {[Clean EXCEPT !.value = 2]}, {"write"}, {"production"}),
          MCSituation(Clean, {[Clean EXCEPT !.value = 2]}, {"read"}, {"production"}),
          MCSituation([Clean EXCEPT !.text = {"hidden"}], {}, {"*"}, {"development"}),
          MCSituation(Clean, {}, {"*"}, {})}

MCConstraints ==
    [pins |-> "c1@2" :> "d1" @@ "c2" :> "d2", publishers |-> {"admitted"}, floor |-> {2}, trusted |-> {"trusted"}]

Candidate(id, locality, availability, raw) ==
    [capability_id |-> id, locality |-> locality, availability |-> availability,
     offline_capable |-> locality # "SERVER", raw_data_may_leave_device |-> raw]
Server == Candidate("server", "SERVER", "AVAILABLE", TRUE)
Device(availability, raw) == Candidate("device", "DEVICE_LOCAL", availability, raw)

MCPlace(candidates, policy, prohibit) ==
    [candidates |-> candidates, policy |-> policy, prohibit_raw_remote |-> prohibit,
     require_offline |-> FALSE]

MCPlaces ==
    {MCPlace(<<Server, Device("AVAILABLE", FALSE)>>, "REMOTE_ALLOWED", TRUE),
     MCPlace(<<Server, Device("DOWNLOADING", FALSE)>>, "LOCAL_PREFERRED", TRUE),
     MCPlace(<<Server, Device("DOWNLOADING", FALSE)>>, "LOCAL_PREFERRED", FALSE),
     MCPlace(<<Server>>, "REMOTE_REQUIRES_APPROVAL", FALSE),
     MCPlace(<<Device("AVAILABLE", TRUE), Server>>, "LOCAL_ONLY", TRUE),
     [MCPlace(<<Server, Device("AVAILABLE", FALSE)>>, "LOCAL_ONLY", FALSE) EXCEPT !.require_offline = TRUE]}

MCBackends == {[id |-> "membrane", capabilities |-> ISOLATED], [id |-> "remote", capabilities |-> HARDENED]}

Verifier(tier, determinism) == [tier |-> tier, determinism |-> determinism]
MCVerifiers ==
    {Verifier("STRUCTURAL", "DETERMINISTIC"), Verifier("DETERMINISTIC", "DETERMINISTIC"),
     Verifier("SEMANTIC", "NON_DETERMINISTIC"), Verifier("HUMAN", "NON_DETERMINISTIC")}
MCRequirement == [min_tier |-> "DETERMINISTIC", require_deterministic_final |-> TRUE]

MCScorecard ==
    <<[kpi_id |-> "harvested", direction |-> "MAXIMIZE", bound |-> {3}],
      [kpi_id |-> "violations", direction |-> "MUST_EQUAL", bound |-> {0}]>>
=============================================================================

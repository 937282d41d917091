------------------------------ MODULE QABatch ------------------------------
(***************************************************************************)
(* A batch of QA runs under a plan: lanes work side by side, every run     *)
(* loads its assertions by their pin, evaluates them and is recorded, and  *)
(* an integrity refusal anywhere halts the batch (runtime_contracts/qa).   *)
(*                                                                         *)
(* The runner is not in this repository; it is what plan.py, integrity.py  *)
(* and manifest.py say of it, and may claim anything in a manifest.  The   *)
(* guards it calls are the repository's.  The store of assertion sets and  *)
(* the registry of check programs may be edited at any time.               *)
(***************************************************************************)
EXTENDS QAPlan, QAManifest

CONSTANTS
    Plans,          \* the plans that may be proposed
    MaxEdits,       \* bound: edits of stores and registries in a behaviour
    None

ASSUME MaxEditsAssumption == MaxEdits \in Nat
ASSUME PlansAssumption == \A p \in Plans : IsPlan(p)
ASSUME ItemsAssumption == IsFiniteSet(Items)
ASSUME NoneAssumption ==
    None \notin Verdict \cup IntegrityCodes \cup OtherKnownCodes \cup UnknownCodes

VARIABLES
    plan,           \* the proposed plan
    phase,          \* "proposed", "refused" or "accepted"
    status,         \* where the run of each item is
    verdict,        \* the verdict on the outcome of each run that ended
    seen,           \* what the run of each item worked on, and if all passed
    halted_by,      \* the code of the refusal that halted the batch
    stored,         \* what the spec store holds under the pin of an item
    registered      \* what the registry holds for the check program of an item

runVars == <<status, verdict, seen, halted_by>>
outside == <<stored, registered>>
vars == <<plan, phase, runVars, outside>>

Status == {"pending", "running", "evaluated", "ended"}

Content == {"frozen", "edited", "missing"}

NothingSeen == [loaded |-> "missing", ran |-> "missing", passed |-> FALSE]

Ended == {i \in plan.items : status[i] = "ended"}
Working == {i \in plan.items : status[i] \in {"running", "evaluated"}}

-----------------------------------------------------------------------------
Init ==
    /\ plan \in Plans
    /\ phase = "proposed"
    /\ status = [i \in Items |-> "pending"]
    /\ verdict = [i \in Items |-> None]
    /\ seen = [i \in Items |-> NothingSeen]
    /\ halted_by = None
    /\ stored = [i \in Items |-> "frozen"]
    /\ registered = [i \in Items |-> "frozen"]

\* The constructor of QAPlan returns or raises.
Propose ==
    /\ phase = "proposed"
    /\ phase' = IF Accepted(plan) THEN "accepted" ELSE "refused"
    /\ UNCHANGED <<plan, runVars, outside>>

\* The run of an item ends with an outcome.
End(i, out) ==
    /\ status' = [status EXCEPT ![i] = "ended"]
    /\ verdict' = [verdict EXCEPT ![i] = OutcomeVerdict(out)]

\* A refusal that classify_refusal maps to INCONCLUSIVE(ASSERTION_INTEGRITY):
\* the run ends so and the batch halts, unless it is halted already.
Refuse(i, code) ==
    /\ HaltsBatch(code)
    /\ End(i, "INCONCLUSIVE")
    /\ halted_by' = IF halted_by = None THEN code ELSE halted_by
    /\ UNCHANGED <<seen, plan, phase, outside>>

\* check_batch_not_halted refuses: what did not start is skipped, what did is
\* recorded as INCONCLUSIVE.  BATCH_HALTED does not replace the first code.
RefuseHalted(i) ==
    /\ halted_by # None
    /\ i \in plan.items
    /\ status[i] \in {"pending", "running"}
    /\ Refuse(i, "BATCH_HALTED")

CheckNotHalted == halted_by = None

\* PlanItem, PlanGate and QAPlan.lanes as the runner follows them: an item
\* starts after the items before it in its lane and after its gate.
StartCondition(i) ==
    /\ \A j \in plan.items :
          plan.lane[j] = plan.lane[i] /\ plan.order[j] < plan.order[i] => j \in Ended
    /\ GateOf(plan, i) \subseteq Ended
    /\ Cardinality(Working) < plan.max_parallel

\* Mutant: the store is asked and what it returns is not hashed.
LoadRefusals_Unhashed(i) ==
    IF stored[i] = "missing" THEN {"ASSERTION_PIN_NOT_FOUND"} ELSE {}

\* load_pinned_assertion_set: the store holds a set and it hashes to the pin.
LoadRefusals(i) ==
    CASE stored[i] = "missing" -> {"ASSERTION_PIN_NOT_FOUND"}
      [] stored[i] = "edited" -> {"ASSERTION_HASH_MISMATCH"}
      [] stored[i] = "frozen" -> {}

Startable(i) ==
    /\ phase = "accepted"
    /\ i \in plan.items
    /\ status[i] = "pending"
    /\ CheckNotHalted
    /\ StartCondition(i)

\* The run starts with the assertions its pin names, or does not.
Start(i) ==
    /\ Startable(i)
    /\ \/ /\ LoadRefusals(i) = {}
          /\ status' = [status EXCEPT ![i] = "running"]
          /\ seen' = [seen EXCEPT ![i].loaded = stored[i]]
          /\ UNCHANGED <<verdict, halted_by, plan, phase, outside>>
       \/ \E code \in LoadRefusals(i) : Refuse(i, code)

\* Mutant: whatever program is registered is run.
ProgramRefusals_Registered(i) ==
    IF registered[i] = "missing" THEN {"ASSERTION_PROGRAM_UNREGISTERED"} ELSE {}

\* verify_check_program, and whatever else the verifier may refuse with.
ProgramRefusals(i) ==
    CASE registered[i] = "missing" -> {"ASSERTION_PROGRAM_UNREGISTERED"}
      [] registered[i] = "edited" -> {"ASSERTION_PROGRAM_MISMATCH"}
      [] registered[i] = "frozen" -> {}

Evaluate(i) ==
    /\ status[i] = "running"
    /\ CheckNotHalted
    /\ \/ /\ ProgramRefusals(i) = {}
          /\ status' = [status EXCEPT ![i] = "evaluated"]
          /\ seen' = [seen EXCEPT ![i].ran = registered[i]]
          /\ UNCHANGED <<verdict, halted_by, plan, phase, outside>>
       \/ \E code \in ProgramRefusals(i) \cup UnknownCodes : Refuse(i, code)
       \/ \E code \in OtherKnownCodes :
             /\ ~HaltsBatch(code)
             /\ End(i, "TEST_DEFECT")
             /\ UNCHANGED <<seen, halted_by, plan, phase, outside>>

\* What is kept of a manifest: its outcome, whether it owns up to broken
\* accounting, and whether every assertion was executed and passed under the
\* pinned set, on steps and faults that ended well.
Summary(m) ==
    [outcome |-> m.outcome,
     integrity |-> ClaimsIntegrity(m),
     passed |-> /\ \A a \in Assertions :
                     /\ a \in (m.executed \cap DOMAIN m.verdict) \ (m.skipped \cup m.foreign)
                     /\ m.verdict[a] = "PASS"
                /\ m.steps_ok
                /\ ~m.unrecovered]

Accountings == {Summary(m) : m \in {n \in Manifests : Recordable(n)}}

SomeHidesViolation == \E m \in Manifests : HidesViolation(m)

\* RunManifest(...) on whatever the runner hands over.  A constructor that
\* raises RECORD_INCONSISTENT leaves the run to be recorded; one that raises
\* COVERAGE_VIOLATION is an integrity refusal.  A manifest that owns up to
\* broken accounting halts the batch (classify_coverage).
Record(i) ==
    /\ status[i] = "evaluated"
    /\ \/ \E s \in Accountings :
             /\ End(i, s.outcome)
             /\ seen' = [seen EXCEPT ![i].passed = s.passed /\ s.outcome = "PASS"]
             /\ halted_by' = IF s.integrity /\ halted_by = None
                             THEN "ASSERTION_INTEGRITY" ELSE halted_by
             /\ UNCHANGED <<plan, phase, outside>>
       \/ /\ SomeHidesViolation
          /\ Refuse(i, "COVERAGE_VIOLATION")

\* Somebody edits or removes an assertion set or a check program.
EditStore(i, content) ==
    /\ phase = "accepted"
    /\ stored[i] = "frozen"
    /\ stored' = [stored EXCEPT ![i] = content]
    /\ UNCHANGED <<plan, phase, runVars, registered>>

EditRegistry(i, content) ==
    /\ phase = "accepted"
    /\ registered[i] = "frozen"
    /\ registered' = [registered EXCEPT ![i] = content]
    /\ UNCHANGED <<plan, phase, runVars, stored>>

Run(i) == Start(i) \/ Evaluate(i) \/ Record(i) \/ RefuseHalted(i)

Edits ==
    Cardinality({i \in Items : stored[i] # "frozen"})
    + Cardinality({i \in Items : registered[i] # "frozen"})

Edit(i) ==
    /\ Edits < MaxEdits
    /\ \E content \in Content \ {"frozen"} :
          EditStore(i, content) \/ EditRegistry(i, content)

Next ==
    \/ Propose
    \/ \E i \in Items : Run(i) \/ Edit(i)

\* The runner goes on as long as it can: it "follows the plan" (plan.py:3).
Spec ==
    /\ Init /\ [][Next]_vars
    /\ WF_vars(Propose)
    /\ WF_vars(\E i \in Items : Run(i))

-----------------------------------------------------------------------------
TypeOK ==
    /\ plan \in Plans
    /\ phase \in {"proposed", "refused", "accepted"}
    /\ status \in [Items -> Status]
    /\ verdict \in [Items -> Verdict \cup {None}]
    /\ seen \in [Items -> [loaded : Content, ran : Content, passed : BOOLEAN]]
    /\ halted_by \in IntegrityCodes \cup UnknownCodes \cup {None}
    /\ stored \in [Items -> Content]
    /\ registered \in [Items -> Content]

\* A plan that was accepted cannot get stuck: as long as an item has not ended
\* and the batch was not halted, a run is under way or an item may start.
NeverStuck ==
    phase = "accepted" /\ Ended # plan.items /\ halted_by = None
        => Working # {} \/ \E i \in plan.items : Startable(i)

\* PASS is earned: the run loaded the frozen assertions, ran the frozen
\* programs, and every assertion has a PASS of its own, whatever manifest the
\* runner handed over and whatever was edited meanwhile.
PassIsEarned ==
    \A i \in Items :
        verdict[i] = "PASS"
            => seen[i] = [loaded |-> "frozen", ran |-> "frozen", passed |-> TRUE]

\* A batch whose every run passed was never halted: the verdicts of a halted
\* batch always show it.
GreenBatchNotHalted ==
    (\A i \in plan.items : verdict[i] = "PASS") => halted_by = None

\* Halting is final: the first code stays and nothing else starts.
HaltIsFinal ==
    [][halted_by # None =>
          /\ halted_by' = halted_by
          /\ \A i \in Items : status[i] = "pending" => status'[i] \in {"pending", "ended"}
          /\ \A i \in Items : status[i] = "running" => status'[i] \in {"running", "ended"}]_vars

\* Every item of an accepted plan ends, halted or not.
EveryItemEnds == phase = "accepted" ~> Ended = plan.items
=============================================================================

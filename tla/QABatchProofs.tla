--------------------------- MODULE QABatchProofs ---------------------------
(***************************************************************************)
(* QABatch proved for every set of plans, items, lanes and assertions.     *)
(***************************************************************************)
EXTENDS QABatch, WellFoundedInduction, FiniteSetTheorems, TLAPS

(***************************************************************************)
(* What a manifest that can be recorded says of a run.                     *)
(***************************************************************************)

\* A recorded manifest has an outcome, PASS only if all passed, and owns up to
\* broken accounting only as INCONCLUSIVE.
LEMMA AccountingsAreSound ==
    \A s \in Accountings :
        /\ s.outcome \in Outcome
        /\ s.passed \in BOOLEAN
        /\ s.outcome = "PASS" => s.passed
        /\ s.integrity => s.outcome = "INCONCLUSIVE"
<1>1. SUFFICES ASSUME NEW s \in Accountings
               PROVE  /\ s.outcome \in Outcome
                      /\ s.passed \in BOOLEAN
                      /\ s.outcome = "PASS" => s.passed
                      /\ s.integrity => s.outcome = "INCONCLUSIVE"
    OBVIOUS
<1>2. PICK m \in Manifests : Recordable(m) /\ s = Summary(m)
    BY DEF Accountings
<1>3. /\ m.outcome \in Outcome
      /\ m.declared = Assertions
    BY DEF Manifests
<1>4. /\ s.outcome = m.outcome
      /\ s.integrity = ClaimsIntegrity(m)
      /\ s.passed \in BOOLEAN
    BY <1>2 DEF Summary
<1>5. ASSUME m.outcome = "PASS"
      PROVE  s.passed
    <2>1. /\ PassEarned(m)
          /\ ~IntegrityBroken(m)
        BY <1>2, <1>5 DEF Recordable, HidesViolation, ClaimsIntegrity
    <2>2. /\ m.executed = Assertions
          /\ DOMAIN m.verdict = Assertions
          /\ m.skipped = {}
          /\ m.foreign = {}
          /\ m.steps_ok
          /\ ~m.unrecovered
          /\ \A a \in Assertions : m.verdict[a] = "PASS"
        BY <2>1, <1>3 DEF PassEarned, IntegrityBroken
    <2> QED
        BY <2>2, <1>2 DEF Summary
<1> QED
    BY <1>3, <1>4, <1>5 DEF ClaimsIntegrity

\* A verdict for every outcome, PASS for PASS alone.
LEMMA VerdictOfOutcome ==
    \A out \in Outcome :
        /\ OutcomeVerdict(out) \in Verdict
        /\ OutcomeVerdict(out) = "PASS" <=> out = "PASS"
    BY Zenon DEF OutcomeVerdict, Outcome, Verdict

-----------------------------------------------------------------------------
(***************************************************************************)
(* The inductive invariant.                                                *)
(***************************************************************************)

\* A plan under which anything happened was accepted.
PlanAccepted ==
    /\ phase = "accepted" => Accepted(plan)
    /\ \A i \in Items : status[i] # "pending" => i \in plan.items /\ phase = "accepted"

\* As long as the batch runs, a lane is worked off in order.
LanesInOrder ==
    halted_by = None =>
        \A i, j \in plan.items :
            /\ status[i] # "pending"
            /\ plan.lane[j] = plan.lane[i]
            /\ plan.order[j] < plan.order[i]
            => status[j] = "ended"

\* What a run worked on, by how far it came.
WorkedOnFrozen ==
    \A i \in Items :
        /\ status[i] \in {"running", "evaluated"} => seen[i].loaded = "frozen"
        /\ status[i] = "evaluated" => seen[i].ran = "frozen"
        /\ verdict[i] = "PASS" => status[i] = "ended"
        /\ verdict[i] = "PASS"
              => seen[i] = [loaded |-> "frozen", ran |-> "frozen", passed |-> TRUE]

\* The batch was halted by one of its own runs, which did not pass.
HaltedByARun ==
    halted_by # None =>
        \E i \in plan.items : status[i] = "ended" /\ verdict[i] \notin {"PASS", None}

IInv ==
    /\ TypeOK
    /\ PlanAccepted
    /\ LanesInOrder
    /\ WorkedOnFrozen
    /\ HaltedByARun

Codes == IntegrityCodes \cup UnknownCodes

\* An integrity refusal of a run keeps the invariant.
LEMMA RefuseKeeps ==
    ASSUME IInv, phase = "accepted", NEW i \in plan.items, status[i] # "ended",
           NEW code \in Codes, Refuse(i, code)
    PROVE  IInv'
<1> USE DEF Refuse, End
<1>1. /\ i \in Items
      /\ plan.items \subseteq Items
    BY PlansAssumption DEF IInv, TypeOK, IsPlan
<1>2. OutcomeVerdict("INCONCLUSIVE") = "INDETERMINATE"
    BY Zenon DEF OutcomeVerdict, Outcome
<1>3. /\ halted_by' \in Codes
      /\ None \notin Codes
    BY NoneAssumption DEF IInv, TypeOK, Codes
<1>4. /\ status' = [status EXCEPT ![i] = "ended"]
      /\ verdict' = [verdict EXCEPT ![i] = "INDETERMINATE"]
      /\ UNCHANGED <<seen, plan, phase, stored, registered>>
    BY <1>2 DEF outside
<1>5. TypeOK'
    BY <1>3, <1>4 DEF IInv, TypeOK, Codes, Status, Verdict
<1>6. PlanAccepted'
    BY <1>1, <1>4 DEF IInv, TypeOK, PlanAccepted
<1>7. LanesInOrder'
    BY <1>3 DEF LanesInOrder
<1>8. WorkedOnFrozen'
    BY <1>1, <1>4 DEF IInv, TypeOK, WorkedOnFrozen
<1>9. HaltedByARun'
    <2>1. /\ status'[i] = "ended"
          /\ verdict'[i] = "INDETERMINATE"
          /\ plan' = plan
        BY <1>1, <1>4 DEF IInv, TypeOK
    <2>2. None # "INDETERMINATE" => verdict'[i] \notin {"PASS", None}
        BY <2>1
    <2> QED
        BY <2>1, <2>2, NoneAssumption DEF HaltedByARun, Verdict
<1> QED
    BY <1>5, <1>6, <1>7, <1>8, <1>9 DEF IInv

\* A run that starts keeps it: what came before it in its lane has ended.
LEMMA StartKeeps ==
    ASSUME IInv, NEW i \in Items, Start(i)
    PROVE  IInv'
<1>1. /\ phase = "accepted"
      /\ i \in plan.items
      /\ status[i] = "pending"
      /\ StartCondition(i)
      /\ plan.items \subseteq Items
    BY PlansAssumption DEF IInv, TypeOK, IsPlan, Start, Startable
<1>2. ASSUME NEW code \in LoadRefusals(i), Refuse(i, code)
      PROVE  IInv'
    <2>1. code \in Codes
        <3>1. LoadRefusals(i) \subseteq {"ASSERTION_PIN_NOT_FOUND", "ASSERTION_HASH_MISMATCH"}
            <4>1. stored[i] \in Content
                BY DEF IInv, TypeOK
            <4> QED
                BY <4>1, Zenon DEF LoadRefusals, Content
        <3> QED
            BY <3>1 DEF Codes, IntegrityCodes
    <2> QED
        BY <1>1, <1>2, <2>1, RefuseKeeps
<1>3. ASSUME LoadRefusals(i) = {},
             status' = [status EXCEPT ![i] = "running"],
             seen' = [seen EXCEPT ![i].loaded = stored[i]],
             UNCHANGED <<verdict, halted_by, plan, phase, outside>>
      PROVE  IInv'
    <2>1. stored[i] = "frozen"
        <3>1. stored[i] \in Content
            BY DEF IInv, TypeOK
        <3>2. CASE stored[i] = "missing"
            <4>1. LoadRefusals(i) = {"ASSERTION_PIN_NOT_FOUND"}
                BY <3>2, Zenon DEF LoadRefusals
            <4> QED
                BY <4>1, <1>3
        <3>3. CASE stored[i] = "edited"
            <4>1. LoadRefusals(i) = {"ASSERTION_HASH_MISMATCH"}
                BY <3>3, Zenon DEF LoadRefusals
            <4> QED
                BY <4>1, <1>3
        <3> QED
            BY <3>1, <3>2, <3>3 DEF Content
    <2>2. UNCHANGED <<verdict, halted_by, plan, phase, stored, registered>>
        BY <1>3 DEF outside
    <2>3. TypeOK'
        BY <1>3, <2>1, <2>2 DEF IInv, TypeOK, Status, Content
    <2>4. PlanAccepted'
        BY <1>1, <1>3, <2>2 DEF IInv, TypeOK, PlanAccepted
    <2>5. LanesInOrder'
        <3>1. SUFFICES ASSUME halted_by = None,
                              NEW k \in plan.items, NEW j \in plan.items,
                              status'[k] # "pending",
                              plan.lane[j] = plan.lane[k],
                              plan.order[j] < plan.order[k]
                       PROVE  status'[j] = "ended"
            BY <2>2 DEF LanesInOrder
        <3>2. status[j] = "ended"
            <4>1. CASE k = i
                BY <3>1, <4>1, <1>1 DEF StartCondition, Ended
            <4>2. CASE k # i
                <5>1. status[k] # "pending"
                    BY <3>1, <4>2, <1>1, <1>3 DEF IInv, TypeOK
                <5> QED
                    BY <3>1, <5>1 DEF IInv, LanesInOrder
            <4> QED
                BY <4>1, <4>2
        <3> QED
            BY <3>2, <1>1, <1>3 DEF IInv, TypeOK
    <2>6. WorkedOnFrozen'
        BY <1>1, <1>3, <2>1, <2>2 DEF IInv, TypeOK, WorkedOnFrozen
    <2>7. HaltedByARun'
        BY <1>1, <1>3, <2>2 DEF IInv, TypeOK, HaltedByARun
    <2> QED
        BY <2>3, <2>4, <2>5, <2>6, <2>7 DEF IInv
<1> QED
    BY <1>2, <1>3 DEF Start

\* A run under way that moves on, or ends without halting the batch, keeps it.
LEMMA ProgressKeeps ==
    ASSUME IInv, NEW i \in Items, status[i] \in {"running", "evaluated"},
           NEW to \in {"evaluated", "ended"},
           status' = [status EXCEPT ![i] = to],
           UNCHANGED <<halted_by, plan, phase, stored, registered>>,
           TypeOK', WorkedOnFrozen',
           \A k \in Items : k # i => verdict'[k] = verdict[k]
    PROVE  IInv'
<1>1. /\ i \in plan.items
      /\ plan.items \subseteq Items
    BY PlansAssumption DEF IInv, TypeOK, IsPlan, PlanAccepted
<1>2. \A k \in Items :
        /\ status[k] = "ended" => status'[k] = "ended" /\ verdict'[k] = verdict[k]
        /\ status'[k] # "pending" <=> status[k] # "pending"
    BY DEF IInv, TypeOK
<1>3. PlanAccepted'
    BY <1>2 DEF IInv, PlanAccepted
<1>4. LanesInOrder'
    BY <1>1, <1>2 DEF IInv, LanesInOrder
<1>5. HaltedByARun'
    BY <1>1, <1>2 DEF IInv, HaltedByARun
<1> QED
    BY <1>3, <1>4, <1>5 DEF IInv

\* The evaluation of a run keeps it.
LEMMA EvaluateKeeps ==
    ASSUME IInv, NEW i \in Items, Evaluate(i)
    PROVE  IInv'
<1>1. /\ status[i] = "running"
      /\ i \in plan.items
      /\ phase = "accepted"
      /\ registered[i] \in Content
    BY DEF IInv, TypeOK, PlanAccepted, Evaluate
<1>2. ASSUME NEW code \in ProgramRefusals(i) \cup UnknownCodes, Refuse(i, code)
      PROVE  IInv'
    <2>1. ProgramRefusals(i) \subseteq
              {"ASSERTION_PROGRAM_UNREGISTERED", "ASSERTION_PROGRAM_MISMATCH"}
        BY <1>1, Zenon DEF ProgramRefusals, Content
    <2>2. code \in Codes
        BY <1>2, <2>1 DEF Codes, IntegrityCodes
    <2> QED
        BY <1>1, <1>2, <2>2, RefuseKeeps
<1>3. ASSUME ProgramRefusals(i) = {},
             status' = [status EXCEPT ![i] = "evaluated"],
             seen' = [seen EXCEPT ![i].ran = registered[i]],
             UNCHANGED <<verdict, halted_by, plan, phase, outside>>
      PROVE  IInv'
    <2>1. registered[i] = "frozen"
        <3>1. CASE registered[i] = "missing"
            <4>1. ProgramRefusals(i) = {"ASSERTION_PROGRAM_UNREGISTERED"}
                BY <3>1, Zenon DEF ProgramRefusals
            <4> QED
                BY <4>1, <1>3
        <3>2. CASE registered[i] = "edited"
            <4>1. ProgramRefusals(i) = {"ASSERTION_PROGRAM_MISMATCH"}
                BY <3>2, Zenon DEF ProgramRefusals
            <4> QED
                BY <4>1, <1>3
        <3> QED
            BY <1>1, <3>1, <3>2 DEF Content
    <2>2. UNCHANGED <<verdict, halted_by, plan, phase, stored, registered>>
        BY <1>3 DEF outside
    <2>3. TypeOK'
        BY <1>1, <1>3, <2>2 DEF IInv, TypeOK, Status
    <2>4. WorkedOnFrozen'
        BY <1>1, <1>3, <2>1, <2>2 DEF IInv, TypeOK, WorkedOnFrozen
    <2> QED
        BY <1>1, <1>3, <2>2, <2>3, <2>4, ProgressKeeps
<1>4. ASSUME End(i, "TEST_DEFECT"),
             UNCHANGED <<seen, halted_by, plan, phase, outside>>
      PROVE  IInv'
    <2>1. OutcomeVerdict("TEST_DEFECT") = "INDETERMINATE"
        BY Zenon DEF OutcomeVerdict, Outcome
    <2>2. /\ status' = [status EXCEPT ![i] = "ended"]
          /\ verdict' = [verdict EXCEPT ![i] = "INDETERMINATE"]
          /\ UNCHANGED <<seen, halted_by, plan, phase, stored, registered>>
        BY <1>4, <2>1 DEF End, outside
    <2>3. TypeOK'
        BY <2>2 DEF IInv, TypeOK, Status, Verdict
    <2>4. WorkedOnFrozen'
        BY <2>2 DEF IInv, TypeOK, WorkedOnFrozen
    <2>5. \A k \in Items : k # i => verdict'[k] = verdict[k]
        BY <2>2 DEF IInv, TypeOK
    <2> QED
        BY <1>1, <2>2, <2>3, <2>4, <2>5, ProgressKeeps
<1> QED
    BY <1>2, <1>3, <1>4 DEF Evaluate

\* Recording a run keeps it: PASS is earned, and who halts the batch by owning
\* up to broken accounting did not pass.
LEMMA RecordKeeps ==
    ASSUME IInv, NEW i \in Items, Record(i)
    PROVE  IInv'
<1>1. /\ status[i] = "evaluated"
      /\ i \in plan.items
      /\ phase = "accepted"
      /\ plan.items \subseteq Items
    BY PlansAssumption DEF IInv, TypeOK, IsPlan, PlanAccepted, Record
<1>2. ASSUME Refuse(i, "COVERAGE_VIOLATION")
      PROVE  IInv'
    <2>1. "COVERAGE_VIOLATION" \in Codes
        BY DEF Codes, IntegrityCodes
    <2> QED
        BY <1>1, <1>2, <2>1, RefuseKeeps
<1>3. ASSUME NEW s \in Accountings,
             End(i, s.outcome),
             seen' = [seen EXCEPT ![i].passed = s.passed /\ s.outcome = "PASS"],
             halted_by' = IF s.integrity /\ halted_by = None
                          THEN "ASSERTION_INTEGRITY" ELSE halted_by,
             UNCHANGED <<plan, phase, outside>>
      PROVE  IInv'
    <2>1. PICK v \in Verdict :
            /\ v = OutcomeVerdict(s.outcome)
            /\ v = "PASS" <=> s.outcome = "PASS"
        BY AccountingsAreSound, VerdictOfOutcome
    <2>2. /\ v = "PASS" => s.passed
          /\ s.integrity => v # "PASS"
          /\ s.passed \in BOOLEAN
        BY <2>1, AccountingsAreSound
    <2>3. /\ status' = [status EXCEPT ![i] = "ended"]
          /\ verdict' = [verdict EXCEPT ![i] = v]
          /\ UNCHANGED <<plan, phase, stored, registered>>
        BY <1>3, <2>1 DEF End, outside
    <2>4. PICK b \in BOOLEAN : /\ seen' = [seen EXCEPT ![i].passed = b]
                               /\ v = "PASS" => b = TRUE
        BY <1>3, <2>1, <2>2
    <2>5. TypeOK'
        <3>1. halted_by' \in IntegrityCodes \cup UnknownCodes \cup {None}
            BY <1>3 DEF IInv, TypeOK, IntegrityCodes
        <3> QED
            BY <2>3, <2>4, <3>1 DEF IInv, TypeOK, Status
    <2>6. PlanAccepted'
        BY <1>1, <2>3 DEF IInv, TypeOK, PlanAccepted
    <2>7. LanesInOrder'
        <3>1. halted_by' = None => halted_by = None
            BY <1>3, NoneAssumption DEF IntegrityCodes
        <3>2. \A k \in Items :
                /\ status[k] = "ended" => status'[k] = "ended"
                /\ status'[k] # "pending" <=> status[k] # "pending"
            BY <1>1, <2>3 DEF IInv, TypeOK
        <3> QED
            BY <1>1, <2>3, <3>1, <3>2 DEF IInv, LanesInOrder
    <2>8. WorkedOnFrozen'
        BY <1>1, <2>3, <2>4 DEF IInv, TypeOK, WorkedOnFrozen
    <2>9. HaltedByARun'
        <3>1. CASE s.integrity
            <4>1. status'[i] = "ended" /\ verdict'[i] = v /\ v # "PASS" /\ v # None
                BY <1>1, <2>2, <2>3, <3>1, NoneAssumption DEF IInv, TypeOK
            <4> QED
                BY <1>1, <2>3, <4>1 DEF HaltedByARun
        <3>2. CASE ~s.integrity
            <4>1. halted_by' = halted_by
                BY <1>3, <3>2
            <4>2. \A k \in Items :
                    status[k] = "ended" => status'[k] = "ended" /\ verdict'[k] = verdict[k]
                BY <1>1, <2>3 DEF IInv, TypeOK
            <4> QED
                BY <1>1, <2>3, <4>1, <4>2 DEF IInv, HaltedByARun
        <3> QED
            BY <3>1, <3>2
    <2> QED
        BY <2>5, <2>6, <2>7, <2>8, <2>9 DEF IInv
<1> QED
    BY <1>2, <1>3 DEF Record

\* A refusal because the batch is halted keeps it.
LEMMA RefuseHaltedKeeps ==
    ASSUME IInv, NEW i \in Items, RefuseHalted(i)
    PROVE  IInv'
<1>1. phase = "accepted"
    <2>1. PICK k \in plan.items : status[k] = "ended"
        BY DEF IInv, HaltedByARun, RefuseHalted
    <2>2. k \in Items
        BY PlansAssumption DEF IInv, TypeOK, IsPlan
    <2> QED
        BY <2>1, <2>2 DEF IInv, PlanAccepted
<1>2. "BATCH_HALTED" \in Codes
    BY DEF Codes, IntegrityCodes
<1> QED
    BY <1>1, <1>2, RefuseKeeps DEF RefuseHalted

-----------------------------------------------------------------------------
\* The invariant holds in every reachable state.
THEOREM InvariantHolds == Spec => []IInv
<1>1. Init => IInv
    <2> SUFFICES ASSUME Init PROVE IInv
        OBVIOUS
    <2>1. TypeOK
        BY DEF Init, TypeOK, NothingSeen, Status, Content
    <2>2. /\ \A i \in Items : status[i] = "pending" /\ verdict[i] = None
          /\ halted_by = None
          /\ phase = "proposed"
        BY DEF Init
    <2>3. \A i \in plan.items : i \in Items
        BY <2>1, PlansAssumption DEF TypeOK, IsPlan
    <2> QED
        BY <2>1, <2>2, <2>3, NoneAssumption
        DEF IInv, PlanAccepted, LanesInOrder, WorkedOnFrozen, HaltedByARun, Verdict
<1>2. IInv /\ [Next]_vars => IInv'
    <2> SUFFICES ASSUME IInv, [Next]_vars PROVE IInv'
        OBVIOUS
    <2>1. CASE Propose
        <3>1. \A i \in Items : status[i] = "pending"
            BY <2>1 DEF IInv, PlanAccepted, Propose
        <3>2. /\ UNCHANGED <<plan, status, verdict, seen, halted_by, stored, registered>>
              /\ phase' \in {"accepted", "refused"}
              /\ phase' = "accepted" => Accepted(plan)
            BY <2>1 DEF Propose, runVars, outside
        <3>3. TypeOK'
            BY <3>2 DEF IInv, TypeOK
        <3>4. PlanAccepted'
            BY <3>1, <3>2 DEF IInv, PlanAccepted
        <3> QED
            BY <3>2, <3>3, <3>4
            DEF IInv, LanesInOrder, WorkedOnFrozen, HaltedByARun
    <2>2. ASSUME NEW i \in Items, Run(i)
          PROVE  IInv'
        BY <2>2, StartKeeps, EvaluateKeeps, RecordKeeps, RefuseHaltedKeeps DEF Run
    <2>3. ASSUME NEW i \in Items, Edit(i)
          PROVE  IInv'
        <3>1. PICK content \in Content :
                EditStore(i, content) \/ EditRegistry(i, content)
            BY <2>3 DEF Edit
        <3>2. /\ UNCHANGED <<plan, phase, status, verdict, seen, halted_by>>
              /\ stored' \in [Items -> Content]
              /\ registered' \in [Items -> Content]
            BY <3>1 DEF EditStore, EditRegistry, runVars, IInv, TypeOK
        <3> QED
            BY <3>2
            DEF IInv, TypeOK, PlanAccepted, LanesInOrder, WorkedOnFrozen, HaltedByARun
    <2>4. CASE UNCHANGED vars
        BY <2>4 DEF vars, runVars, outside,
            IInv, TypeOK, PlanAccepted, LanesInOrder, WorkedOnFrozen, HaltedByARun
    <2> QED
        BY <2>1, <2>2, <2>3, <2>4 DEF Next
<1> QED
    BY <1>1, <1>2, PTL DEF Spec

\* The types of a batch are kept, for every set of plans.
THEOREM TypeCorrect == Spec => []TypeOK
<1>1. IInv => TypeOK
    BY DEF IInv
<1> QED
    BY <1>1, InvariantHolds, PTL

\* A run recorded as PASS loaded the frozen assertions, ran the frozen programs
\* and passed all of them, whatever was edited and whatever was handed over.
THEOREM PassesAreEarned == Spec => []PassIsEarned
<1>1. IInv => PassIsEarned
    BY DEF IInv, WorkedOnFrozen, PassIsEarned
<1> QED
    BY <1>1, InvariantHolds, PTL

\* If every run of a batch passed, nothing halted it.
THEOREM GreenBatchesAreIntact == Spec => []GreenBatchNotHalted
<1>1. IInv => GreenBatchNotHalted
    BY DEF IInv, HaltedByARun, GreenBatchNotHalted
<1> QED
    BY <1>1, InvariantHolds, PTL

-----------------------------------------------------------------------------
(***************************************************************************)
(* An accepted plan never gets stuck.                                      *)
(***************************************************************************)

\* Of finitely many positions below a bound one is the greatest.
LEMMA GreatestBelow ==
    ASSUME NEW T, T # {}, NEW order \in [T -> Nat], NEW bound \in Nat,
           \A k \in T : order[k] < bound
    PROVE  \E k \in T : \A j \in T : order[j] <= order[k]
<1> DEFINE Gaps == {bound - order[k] : k \in T}
<1>1. /\ Gaps \subseteq Nat
      /\ Gaps # {}
    OBVIOUS
<1>2. PICK g \in Gaps : \A h \in Gaps : <<h, g>> \notin OpToRel(<, Nat)
    BY <1>1, WFMin, NatLessThanWellFounded, Zenon
<1>3. \A h \in Gaps : ~(h < g)
    BY <1>1, <1>2, Zenon DEF OpToRel
<1>4. PICK k \in T : g = bound - order[k]
    OBVIOUS
<1>5. ASSUME NEW j \in T
      PROVE  order[j] <= order[k]
    <2>1. ~(bound - order[j] < bound - order[k])
        BY <1>3, <1>4
    <2> QED
        BY <2>1
<1> QED
    BY <1>4, <1>5

\* As long as the batch is not halted and not over, a run is under way or an
\* item may start: its acyclic waiting graph gives an item that waits for
\* nothing, and lanes worked off in order make its neighbour stand for all.
THEOREM AcceptedPlansNeverStuck == Spec => []NeverStuck
<1>1. ASSUME IInv, phase = "accepted", Ended # plan.items, halted_by = None,
             Working = {}
      PROVE  \E i \in plan.items : Startable(i)
    <2> DEFINE Waiting == plan.items \ Ended
    <2>1. /\ IsPlan(plan)
          /\ Accepted(plan)
        BY <1>1, PlansAssumption DEF IInv, TypeOK, PlanAccepted
    <2>2. /\ plan.items \subseteq Items
          /\ plan.order \in [plan.items -> Nat]
          /\ plan.max_parallel \in Nat \ {0}
        BY <2>1 DEF IsPlan
    <2>3. \A k \in Waiting : status[k] = "pending"
        BY <1>1, <2>2 DEF IInv, TypeOK, Status, Ended, Working
    <2>4. /\ Waiting # {}
          /\ Waiting \in SUBSET plan.items
        BY <1>1 DEF Ended
    <2>5. PICK i \in Waiting : \A k \in Waiting : ~Precedes(plan, k, i)
        BY <2>1, <2>4 DEF Accepted, HasCycle
    <2>6. GateOf(plan, i) \subseteq Ended
        <3>1. GateOf(plan, i) \subseteq plan.items
            BY <2>1 DEF Accepted, GatesKnown, GateOf
        <3> QED
            BY <2>5, <3>1 DEF Precedes
    <2>7. \A j \in plan.items :
            plan.lane[j] = plan.lane[i] /\ plan.order[j] < plan.order[i] => j \in Ended
        <3> DEFINE Before == {j \in Waiting : plan.lane[j] = plan.lane[i]
                                              /\ plan.order[j] < plan.order[i]}
        <3>1. SUFFICES ASSUME Before # {} PROVE FALSE
            OBVIOUS
        <3>2. PICK k \in Before : \A j \in Before : plan.order[j] <= plan.order[k]
            <4> DEFINE order == [j \in Before |-> plan.order[j]]
            <4>1. /\ order \in [Before -> Nat]
                  /\ plan.order[i] \in Nat
                  /\ \A j \in Before : order[j] < plan.order[i]
                BY <2>2
            <4> HIDE DEF Before
            <4>2. \E k \in Before : \A j \in Before : order[j] <= order[k]
                BY <3>1, <4>1, GreatestBelow
            <4> QED
                BY <4>2
        <3>3. ASSUME NEW j \in plan.items, plan.lane[j] = plan.lane[k],
                     plan.order[k] < plan.order[j], plan.order[j] < plan.order[i]
              PROVE  FALSE
            <4>1. j \notin Before
                <5>1. plan.order[j] \in Nat /\ plan.order[k] \in Nat
                    BY <2>2, <3>2
                <5> QED
                    BY <3>2, <3>3, <5>1
            <4>2. j \in Ended
                BY <3>2, <3>3, <4>1
            <4>3. status[j] # "pending"
                BY <4>2 DEF Ended
            <4>4. status[k] = "ended"
                BY <1>1, <3>2, <3>3, <4>3 DEF IInv, LanesInOrder
            <4> QED
                BY <2>3, <3>2, <4>4
        <3>4. Neighbours(plan, k, i)
            BY <3>2, <3>3 DEF Neighbours
        <3> QED
            BY <2>5, <3>2, <3>4 DEF Precedes
    <2>8. Cardinality(Working) < plan.max_parallel
        <3>1. Cardinality(Working) = 0
            BY <1>1, FS_EmptySet
        <3> QED
            BY <2>2, <3>1
    <2>9. Startable(i)
        BY <1>1, <2>3, <2>6, <2>7, <2>8 DEF Startable, StartCondition, CheckNotHalted
    <2> QED
        BY <2>9
<1>2. IInv => NeverStuck
    BY <1>1 DEF NeverStuck
<1> QED
    BY <1>2, InvariantHolds, PTL

-----------------------------------------------------------------------------
\* Once halted, a batch keeps the code that halted it and starts nothing.
THEOREM HaltingIsFinal == Spec => HaltIsFinal
<1>1. ASSUME TypeOK, [Next]_vars, halted_by # None
      PROVE  /\ halted_by' = halted_by
             /\ \A i \in Items : status[i] = "pending" => status'[i] \in {"pending", "ended"}
             /\ \A i \in Items : status[i] = "running" => status'[i] \in {"running", "ended"}
    <2>1. CASE Propose
        BY <1>1, <2>1 DEF Propose, runVars
    <2>2. ASSUME NEW i \in Items, Start(i) \/ Evaluate(i)
          PROVE  FALSE
        BY <1>1, <2>2 DEF Start, Startable, Evaluate, CheckNotHalted
    <2>3. ASSUME NEW i \in Items, Record(i) \/ RefuseHalted(i)
          PROVE  /\ halted_by' = halted_by
                 /\ status' = [status EXCEPT ![i] = "ended"]
        <3>1. CASE Record(i)
            BY <1>1, <3>1 DEF Record, Refuse, End
        <3>2. CASE RefuseHalted(i)
            BY <1>1, <3>2 DEF RefuseHalted, Refuse, End
        <3> QED
            BY <2>3, <3>1, <3>2
    <2>4. ASSUME NEW i \in Items, Edit(i)
          PROVE  UNCHANGED <<status, halted_by>>
        BY <2>4 DEF Edit, EditStore, EditRegistry, runVars
    <2>5. CASE UNCHANGED vars
        BY <2>5 DEF vars, runVars
    <2> QED
        BY <1>1, <2>1, <2>2, <2>3, <2>4, <2>5 DEF Next, Run, TypeOK
<1>2. TypeOK /\ [Next]_vars =>
        [halted_by # None =>
            /\ halted_by' = halted_by
            /\ \A i \in Items : status[i] = "pending" => status'[i] \in {"pending", "ended"}
            /\ \A i \in Items : status[i] = "running" => status'[i] \in {"running", "ended"}]_vars
    BY <1>1
<1> QED
    BY <1>2, TypeCorrect, PTL DEF Spec, HaltIsFinal
=============================================================================

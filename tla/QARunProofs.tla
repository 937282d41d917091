---------------------------- MODULE QARunProofs ----------------------------
(***************************************************************************)
(* What a QA run guarantees for every set of specs, keys and claims and    *)
(* every way an attempt may end: what attempts may repeat, that a fault    *)
(* stays as it was detected, what receipts tell a target, and what a       *)
(* consumer of the manifest may rely on.                                   *)
(***************************************************************************)
EXTENDS QARun, FiniteSetTheorems, TLAPS

\* The versions that may be published.
Version == [spec : {spec \in Specs : SpecHolds(spec)}, approvals : {1, 2}]

ReceiptType ==
    [step_id : StepIds, key : Keys, result : ResultCode,
     postcondition : PostconditionResult,
     observed : BOOLEAN, state_before : {0}, state_after : {0, 1}]

TypeOK ==
    /\ published \in Seq(Version) /\ published # << >>
    /\ run \in [version : {1}, step : Nat \ {0}, ended : BOOLEAN]
    /\ receipts \in Seq(ReceiptType)
    /\ effects \in [StepIds -> Nat]

\* Steps are attempted in order.  No action of a step took effect before its
\* first attempt, and while a fault is at hand at most that attempt's did: none
\* where the receipt says that the action was not carried out.
AttemptsInOrder ==
    /\ \A j \in DOMAIN TheSpec.steps :
          j > run.step \/ (j = run.step /\ pending = {}) =>
              effects[TheSpec.steps[j].step_id] = 0
    /\ \A p \in pending :
          /\ run.step \in DOMAIN TheSpec.steps
          /\ p.result \in ResultCode
          /\ \E n \in DOMAIN receipts :
                receipts[n].step_id = TheStep.step_id /\ receipts[n].result = p.result
          /\ effects[TheStep.step_id] <= 1
          /\ p.result \in NotCarriedOut => effects[TheStep.step_id] = 0

\* A run goes back for the fault at hand, by a recovery that its step permits, and
\* not beyond that step.
RedoneForTheFault ==
    \A at \in redo :
        /\ at = [strategy |-> at.strategy, step |-> at.step]
        /\ at.step \in 1..run.step
        /\ \E p \in pending : at.strategy \in StartsOver \cap Strategies(TheStep, p.result)

\* The results the verifier handed over tell what it did.
ResultsTellEvaluation ==
    /\ DOMAIN evaluated = DOMAIN results
    /\ \A a \in DOMAIN results :
          /\ DOMAIN results[a] = {"verdict", "determinism", "reason_code", "actual", "executor",
                                  "expected_hash", "set_hash", "detail"}
          /\ evaluated[a] = [executor |-> results[a].executor, value |-> results[a].actual]
          /\ results[a].verdict = "PASS" => results[a].actual = results[a].expected_hash.expected

\* A manifest of this run: the spec's assertions, and results the verifier gave.
IsOfThisRun(m) ==
    \E claim, report :
        report.results \subseteq DOMAIN results /\ m = Manifest(claim, report, "counters")

\* What is in the store: the one manifest of the run, which accounts for the run
\* as it ended, with the hash of it as it was written or with none.
StoredIsOfThisRun ==
    /\ stored # {} <=> run.ended
    /\ run.ended => pending = {}
    /\ \A s, t \in stored : s = t
    /\ \A s \in stored :
          /\ s = [json |-> s.json, written |-> s.written, edited |-> s.edited]
          /\ s.json = [version |-> s.json.version, body |-> s.json.body,
                       extra |-> s.json.extra, content_hash |-> s.json.content_hash]
          /\ IsOfThisRun(s.written)
          /\ ManifestHolds(s.written)
          /\ s.json.content_hash \subseteq
                {[fields |-> Identity(s.written), extra |-> s.json.extra]}

\* The consumer's last reading still is one of what is in the store.
ReadingIsOfTheStored ==
    /\ stored = {} => reading.code = "unread"
    /\ reading.code \in {"accepted", "ASSERTION_INTEGRITY"} =>
          \A s \in stored : FromJson(s.json) = "read"
    /\ reading.code = "accepted" =>
          /\ reading.spec \in DOMAIN published
          /\ \A s \in stored : ManifestMatches(s.json.body, Spec_(reading.spec))

FaultInv ==
    /\ \A p \in pending : [step_id |-> TheStep.step_id, detection |-> p.detection] \in first
    /\ FaultsStayAsDetected

\* The inductive invariant.
IInv ==
    /\ TypeOK
    /\ AttemptsInOrder /\ RedoneForTheFault /\ RepeatsAreAllowed
    /\ FaultInv
    /\ ResultsTellEvaluation
    /\ StoredIsOfThisRun /\ ReadingIsOfTheStored

-----------------------------------------------------------------------------
\* The spec that runs is one of the specs somebody wrote, and it holds.
LEMMA TheSpecIsAccepted ==
    ASSUME TypeOK
    PROVE  /\ run.version = 1 /\ 1 \in DOMAIN published
           /\ run.step \in Nat /\ run.step >= 1
           /\ TheSpec \in Specs /\ SpecHolds(TheSpec)
           /\ TheSpec.steps \in Seq(Steps)
           /\ DOMAIN TheSpec.steps = 1..Len(TheSpec.steps) /\ Len(TheSpec.steps) \in Nat
           /\ \A j \in DOMAIN TheSpec.steps : TheSpec.steps[j].step_id \in StepIds
  <1>1. run.version = 1 /\ run.step \in Nat /\ run.step >= 1
    BY DEF TypeOK
  <1>2. 1 \in DOMAIN published /\ published[1] \in Version
    BY DEF TypeOK
  <1>3. TheSpec \in Specs /\ SpecHolds(TheSpec)
    BY <1>1, <1>2 DEF TheSpec, Spec_, Version
  <1>4. TheSpec.steps \in Seq(Steps)
    BY <1>3, SpecsAssumption
  <1>5. \A j \in DOMAIN TheSpec.steps : TheSpec.steps[j].step_id \in StepIds
    BY <1>3 DEF StepIds, Steps
  <1> QED  BY <1>1, <1>2, <1>3, <1>4, <1>5

\* A publication adds a version and leaves those before it as they are.
LEMMA VersionsStay ==
    ASSUME TypeOK, NEW spec \in Specs, Publish(spec)
    PROVE  /\ published' \in Seq(Version) /\ published' # << >>
           /\ DOMAIN published \subseteq DOMAIN published'
           /\ \A i \in DOMAIN published : published'[i] = published[i]
  <1>1. PICK v : v = [spec |-> spec, approvals |-> RequiredApprovals(Spec_(Len(published)), spec)]
    OBVIOUS
  <1>2. v \in Version
    BY <1>1 DEF Version, Publish, RequiredApprovals
  <1>3. published' = Append(published, v)
    BY <1>1 DEF Publish
  <1> QED  BY <1>2, <1>3 DEF TypeOK

\* What an attempt at a step leaves: its receipt at the end, and at most one more
\* effect, of that step alone.
LEMMA AttemptFacts ==
    ASSUME TypeOK, NEW key \in Keys, NEW e \in Endings, NEW step, step.step_id \in StepIds,
           Act(step, key, e[1], e[2], e[3])
    PROVE  /\ receipts' \in Seq(ReceiptType) /\ Len(receipts') \in DOMAIN receipts'
           /\ \A n \in DOMAIN receipts : n \in DOMAIN receipts' /\ receipts'[n] = receipts[n]
           /\ receipts'[Len(receipts')].step_id = step.step_id
           /\ receipts'[Len(receipts')].result = e[1] /\ e[1] \in ResultCode
           /\ effects' \in [StepIds -> Nat]
           /\ \A s \in StepIds \ {step.step_id} : effects'[s] = effects[s]
           /\ effects'[step.step_id] <= effects[step.step_id] + 1
           /\ e[1] \in NotCarriedOut => effects'[step.step_id] = effects[step.step_id]
  <1>1. e[1] \in ResultCode /\ e[2] \in BOOLEAN /\ e[3] \in PostconditionResult
    BY EndingsAssumption
  <1>2. PICK r : r = Receipt(step, key, e[1], e[3], e[2])
    OBVIOUS
  <1>3. /\ r.step_id = step.step_id /\ r.key = key /\ r.result = e[1]
        /\ r.postcondition = e[3] /\ r.state_before = 0
        /\ r.state_after = IF e[2] THEN 1 ELSE 0
        /\ r.observed = (e[3] # "NOT_EVALUATED")
        /\ r = [step_id |-> r.step_id, key |-> r.key, result |-> r.result,
                postcondition |-> r.postcondition, observed |-> r.observed,
                state_before |-> r.state_before, state_after |-> r.state_after]
    BY <1>2 DEF Receipt
  <1>4. r \in ReceiptType
    <2>1. r.observed \in BOOLEAN
      BY <1>3, Zenon
    <2>2. r.state_after \in {0, 1} /\ r.state_before \in {0}
      BY <1>3, Zenon
    <2> QED  BY <1>1, <1>3, <2>1, <2>2, Zenon DEF ReceiptType
  <1>5. /\ receipts' = Append(receipts, r)
        /\ effects' = [effects EXCEPT ![r.step_id] = @ + (IF e[2] THEN 1 ELSE 0)]
        /\ e[1] \in NotCarriedOut => ~e[2]
    BY <1>2 DEF Act
  <1>6. PICK took \in {0, 1} : took = (IF e[2] THEN 1 ELSE 0) /\ (~e[2] => took = 0)
    BY Zenon
  <1>7. effects' = [effects EXCEPT ![step.step_id] = @ + took]
    BY <1>3, <1>5, <1>6, Zenon
  <1>8. /\ effects' \in [StepIds -> Nat]
        /\ \A s \in StepIds \ {step.step_id} : effects'[s] = effects[s]
        /\ effects'[step.step_id] = effects[step.step_id] + took
        /\ effects[step.step_id] \in Nat
    BY <1>7 DEF TypeOK
  <1>9. /\ receipts' \in Seq(ReceiptType) /\ Len(receipts') \in DOMAIN receipts'
        /\ receipts'[Len(receipts')] = r
        /\ \A n \in DOMAIN receipts : n \in DOMAIN receipts' /\ receipts'[n] = receipts[n]
    BY <1>4, <1>5 DEF TypeOK
  <1>10. effects'[step.step_id] <= effects[step.step_id] + 1
    BY <1>6, <1>8
  <1>11. e[1] \in NotCarriedOut => effects'[step.step_id] = effects[step.step_id]
    BY <1>5, <1>6, <1>8
  <1> QED  BY <1>1, <1>3, <1>8, <1>9, <1>10, <1>11

\* Whatever a runner may try after an attempt whose action may have taken effect
\* goes back to a checkpoint, or its step is idempotent.
LEMMA StrategyFacts ==
    ASSUME NEW step, StepHolds(step), NEW result, NEW strategy \in Strategies(step, result),
           strategy \notin StartsOver, result \notin NotCarriedOut
    PROVE  step.idempotency = "IDEMPOTENT"
  <1>1. strategy \in step.permitted_recovery
    BY DEF Strategies
  <1>2. strategy = "RETRY_SAME" \/ strategy \in RecoveredBy(result)
    BY DEF Strategies
  <1>3. strategy = "RETRY_SAME"
    BY <1>2 DEF RecoveredBy, StartsOver, NotCarriedOut
  <1> QED  BY <1>1, <1>3 DEF StepHolds, RecoveryIsSafe

-----------------------------------------------------------------------------
\* Nothing is in the store and nothing was read while the run goes on.
LEMMA NothingStoredYet ==
    ASSUME StoredIsOfThisRun, ReadingIsOfTheStored, UNCHANGED <<stored, reading>>,
           ~run.ended, ~run'.ended
    PROVE  StoredIsOfThisRun' /\ ReadingIsOfTheStored'
  <1>1. stored = {} /\ stored' = {} /\ reading.code = "unread" /\ reading' = reading
    BY DEF StoredIsOfThisRun, ReadingIsOfTheStored
  <1>2. StoredIsOfThisRun'
    BY <1>1 DEF StoredIsOfThisRun
  <1>3. ReadingIsOfTheStored'
    BY <1>1 DEF ReadingIsOfTheStored
  <1> QED  BY <1>2, <1>3

\* A run starts with the invariant.
LEMMA InitIInv == Init => IInv
  <1> SUFFICES ASSUME Init
               PROVE  IInv
    OBVIOUS
  <1>1. /\ run = [version |-> 1, step |-> 1, ended |-> FALSE]
        /\ receipts = << >> /\ effects = [s \in StepIds |-> 0]
        /\ pending = {} /\ redo = {} /\ first = {} /\ faults = {}
        /\ evaluated = << >> /\ results = << >>
        /\ stored = {} /\ reading.code = "unread"
    BY Zenon DEF Init
  <1>2. TypeOK
    <2>1. PICK spec \in Specs :
              SpecHolds(spec) /\ published = <<[spec |-> spec, approvals |-> 1]>>
      BY Zenon DEF Init
    <2>2. [spec |-> spec, approvals |-> 1] \in Version
      BY <2>1 DEF Version
    <2>3. published \in Seq(Version) /\ published # << >>
      BY <2>1, <2>2
    <2>4. run \in [version : {1}, step : Nat \ {0}, ended : BOOLEAN]
      BY <1>1
    <2>5. receipts \in Seq(ReceiptType)
      BY <1>1
    <2>6. effects \in [StepIds -> Nat]
      BY <1>1
    <2> QED  BY <2>3, <2>4, <2>5, <2>6 DEF TypeOK
  <1>3. AttemptsInOrder /\ RedoneForTheFault /\ RepeatsAreAllowed
    BY <1>1, <1>2, TheSpecIsAccepted DEF AttemptsInOrder, RedoneForTheFault, RepeatsAreAllowed
  <1>4. FaultInv /\ ResultsTellEvaluation
    BY <1>1 DEF FaultInv, FaultsStayAsDetected, ResultsTellEvaluation
  <1>5. ~run.ended
    BY <1>1
  <1>6. StoredIsOfThisRun /\ ReadingIsOfTheStored
    BY <1>1, <1>5 DEF StoredIsOfThisRun, ReadingIsOfTheStored
  <1> QED  BY <1>2, <1>3, <1>4, <1>6 DEF IInv

\* A successor of the spec changes nothing for the run, which keeps its version,
\* nor for what a consumer held against a version that was there.
LEMMA PublishKeepsIInv ==
    ASSUME IInv, NEW spec \in Specs, Publish(spec)
    PROVE  IInv'
  <1> USE DEF IInv
  <1>1. /\ UNCHANGED <<run, receipts, effects, pending, redo, first, faults>>
        /\ UNCHANGED <<evaluated, results, stored, reading>>
    BY DEF Publish, stepVars, resultVars
  <1>2. /\ TheSpec' = TheSpec /\ TheStep' = TheStep
        /\ \A i \in DOMAIN published : i \in DOMAIN published' /\ Spec_(i)' = Spec_(i)
    BY <1>1, VersionsStay, TheSpecIsAccepted DEF TheSpec, TheStep, Spec_
  <1>3. TypeOK'
    BY <1>1, VersionsStay DEF TypeOK
  <1>4. AttemptsInOrder' /\ RedoneForTheFault' /\ RepeatsAreAllowed'
    BY <1>1, <1>2 DEF AttemptsInOrder, RedoneForTheFault, RepeatsAreAllowed
  <1>5. FaultInv' /\ ResultsTellEvaluation'
    BY <1>1, <1>2 DEF FaultInv, FaultsStayAsDetected, ResultsTellEvaluation
  <1>6. StoredIsOfThisRun'
    <2>1. \A x : IsOfThisRun(x) => IsOfThisRun(x)'
      BY <1>1, <1>2 DEF IsOfThisRun, Manifest
    <2> QED  BY <1>1, <2>1 DEF StoredIsOfThisRun
  <1>7. ReadingIsOfTheStored'
    BY <1>1, <1>2 DEF ReadingIsOfTheStored
  <1> QED  BY <1>3, <1>4, <1>5, <1>6, <1>7

-----------------------------------------------------------------------------
\* A fault is closed with the detection that was hashed, and its step is over.
LEMMA FaultClosed ==
    ASSUME TypeOK, FaultInv, pending # {}, run.step \in DOMAIN TheSpec.steps,
           NEW recovery, CloseFault(recovery), first' = first, published' = published
    PROVE  /\ FaultInv' /\ pending' = {} /\ redo' = {}
           /\ run' \in [version : {1}, step : Nat \ {0}, ended : BOOLEAN]
           /\ run'.version = run.version /\ run'.ended = run.ended
           /\ run'.step > run.step
  <1>1. PICK d \in Handovers : \E e : /\ e = FaultEvent(d, recovery) /\ FaultHolds(e)
                                     /\ faults' = faults \cup {e}
                                     /\ pending' = {} /\ redo' = {}
    BY DEF CloseFault
  <1>2. PICK e : /\ e = FaultEvent(d, recovery) /\ FaultHolds(e)
                 /\ faults' = faults \cup {e}
                 /\ pending' = {} /\ redo' = {}
    BY <1>1
  <1>3. [step_id |-> e.step_id, detection |-> e.detection] \in first
    <2>1. e.detection = e.detection_ref
      BY <1>2 DEF FaultHolds
    <2>2. PICK p \in pending : p = (CHOOSE x \in pending : TRUE)
      OBVIOUS
    <2>3. e.detection_ref = p.detection /\ e.step_id = TheStep.step_id
      BY <1>2, <2>2 DEF FaultEvent
    <2> QED  BY <2>1, <2>3 DEF FaultInv
  <1>4. FaultInv'
    BY <1>2, <1>3 DEF FaultInv, FaultsStayAsDetected
  <1>5. PICK n : /\ run' = [run EXCEPT !.step = n]
                 /\ n = run.step + 1 \/ n = Len(TheSpec.steps) + 1
    BY DEF CloseFault
  <1>6. n \in Nat \ {0} /\ n > run.step
    BY <1>5, TheSpecIsAccepted
  <1>7. /\ run' \in [version : {1}, step : Nat \ {0}, ended : BOOLEAN]
        /\ run'.version = run.version /\ run'.ended = run.ended
        /\ run'.step = n
    BY <1>5, <1>6 DEF TypeOK
  <1> QED  BY <1>2, <1>4, <1>6, <1>7

\* Recovery that is not attempted: the step is over as its attempt left it.
LEMMA SuppressKeepsIInv ==
    ASSUME IInv, Suppress("NOT_PERMITTED")
    PROVE  IInv'
  <1> USE DEF IInv
  <1>1. /\ UNCHANGED <<published, receipts, effects, first>>
        /\ UNCHANGED <<evaluated, results, stored, reading>>
        /\ pending # {} /\ \E recovery : CloseFault(recovery)
    BY DEF Suppress, resultVars
  <1>2. run.step \in DOMAIN TheSpec.steps /\ ~run.ended
    BY <1>1 DEF AttemptsInOrder, StoredIsOfThisRun
  <1>3. /\ FaultInv' /\ pending' = {} /\ redo' = {}
        /\ run' \in [version : {1}, step : Nat \ {0}, ended : BOOLEAN]
        /\ run'.version = run.version /\ run'.ended = run.ended
        /\ run'.step > run.step
    BY <1>1, <1>2, FaultClosed
  <1>4. TypeOK'
    BY <1>1, <1>3 DEF TypeOK
  <1>5. TheSpec' = TheSpec
    BY <1>1, <1>3 DEF TheSpec, Spec_
  <1>6. AttemptsInOrder' /\ RedoneForTheFault' /\ RepeatsAreAllowed'
    BY <1>1, <1>3, <1>4, <1>5, TheSpecIsAccepted
    DEF AttemptsInOrder, RedoneForTheFault, RepeatsAreAllowed, TypeOK
  <1>7. ResultsTellEvaluation'
    BY <1>1 DEF ResultsTellEvaluation
  <1>8. StoredIsOfThisRun' /\ ReadingIsOfTheStored'
    BY <1>1, <1>2, <1>3, NothingStoredYet
  <1> QED  BY <1>3, <1>4, <1>6, <1>7, <1>8

\* An attempt at a step disturbs no other, and repeats only what may be repeated.
LEMMA AttemptKeepsRepeats ==
    ASSUME IInv, NEW i \in DOMAIN TheSpec.steps, NEW key \in Keys, NEW e \in Endings,
           Act(TheSpec.steps[i], key, e[1], e[2], e[3]), TheSpec' = TheSpec,
           \/ effects[TheSpec.steps[i].step_id] = 0
           \/ TheSpec.steps[i].idempotency = "IDEMPOTENT"
           \/ \E j \in DOMAIN TheSpec.steps, n \in DOMAIN receipts :
                 /\ j >= i
                 /\ receipts[n].step_id = TheSpec.steps[j].step_id
                 /\ Strategies(TheSpec.steps[j], receipts[n].result) \cap StartsOver # {}
    PROVE  /\ \A j \in DOMAIN TheSpec.steps :
                 j # i => effects'[TheSpec.steps[j].step_id] = effects[TheSpec.steps[j].step_id]
           /\ RepeatsAreAllowed'
  <1>1. /\ \A n \in DOMAIN receipts : n \in DOMAIN receipts' /\ receipts'[n] = receipts[n]
        /\ \A s \in StepIds \ {TheSpec.steps[i].step_id} : effects'[s] = effects[s]
        /\ effects'[TheSpec.steps[i].step_id] <= effects[TheSpec.steps[i].step_id] + 1
        /\ effects' \in [StepIds -> Nat]
    BY AttemptFacts, TheSpecIsAccepted DEF IInv
  <1>2. \A j \in DOMAIN TheSpec.steps : j # i =>
              effects'[TheSpec.steps[j].step_id] = effects[TheSpec.steps[j].step_id]
    BY <1>1, TheSpecIsAccepted DEF IInv, SpecHolds, UniqueIds
  <1>3. ASSUME NEW k \in DOMAIN TheSpec.steps, effects'[TheSpec.steps[k].step_id] > 1,
               TheSpec.steps[k].idempotency # "IDEMPOTENT"
        PROVE  \E j \in DOMAIN TheSpec.steps, n \in DOMAIN receipts :
                  /\ j >= k
                  /\ receipts[n].step_id = TheSpec.steps[j].step_id
                  /\ Strategies(TheSpec.steps[j], receipts[n].result) \cap StartsOver # {}
    <2>1. CASE k # i
      <3>1. effects[TheSpec.steps[k].step_id] > 1
        BY <1>2, <1>3, <2>1
      <3> QED  BY <1>3, <3>1 DEF IInv, RepeatsAreAllowed
    <2>2. CASE k = i
      <3>1. effects[TheSpec.steps[i].step_id] # 0
        BY <1>1, <1>3, <2>2, TheSpecIsAccepted DEF IInv
      <3> QED  BY <1>3, <2>2, <3>1
    <2> QED  BY <2>1, <2>2
  <1>4. RepeatsAreAllowed'
    <2> SUFFICES ASSUME NEW k \in DOMAIN TheSpec.steps, effects'[TheSpec.steps[k].step_id] > 1,
                        TheSpec.steps[k].idempotency # "IDEMPOTENT"
                 PROVE  \E j \in DOMAIN TheSpec.steps, n \in DOMAIN receipts' :
                           /\ j >= k
                           /\ receipts'[n].step_id = TheSpec.steps[j].step_id
                           /\ Strategies(TheSpec.steps[j], receipts'[n].result) \cap StartsOver # {}
      BY DEF RepeatsAreAllowed
    <2> QED  BY <1>1, <1>3
  <1> QED  BY <1>2, <1>4

\* The first attempt at a step: its action took effect at most once, and not at
\* all if the receipt says that it was not carried out.
LEMMA FirstAttemptKeepsIInv ==
    ASSUME IInv, NEW key \in Keys, NEW e \in Endings, FirstAttempt(key, e[1], e[2], e[3])
    PROVE  IInv'
  <1> USE DEF IInv
  <1>1. /\ UNCHANGED <<published, redo, faults, evaluated, results, stored, reading>>
        /\ ~run.ended /\ run.step <= Len(TheSpec.steps) /\ pending = {}
        /\ Act(TheStep, key, e[1], e[2], e[3])
    BY DEF FirstAttempt, resultVars
  <1>2. /\ run.step \in DOMAIN TheSpec.steps /\ TheStep = TheSpec.steps[run.step]
        /\ redo = {}
    BY <1>1, TheSpecIsAccepted DEF TheStep, RedoneForTheFault
  <1>3. \/ /\ run' = [run EXCEPT !.step = run.step + 1] /\ pending' = pending /\ first' = first
        \/ \E d : /\ run' = run /\ pending' = {[detection |-> d, result |-> e[1]]}
                  /\ first' = first \cup {[step_id |-> TheStep.step_id, detection |-> d]}
    BY <1>1 DEF FirstAttempt
  <1>4. /\ run' \in [version : {1}, step : Nat \ {0}, ended : BOOLEAN]
        /\ run'.version = run.version /\ run'.ended = run.ended
        /\ \/ run'.step = run.step /\ pending' # {}
           \/ run'.step = run.step + 1 /\ pending' = {}
    <2>1. CASE run' = [run EXCEPT !.step = run.step + 1] /\ pending' = pending
      BY <1>1, <2>1 DEF TypeOK
    <2>2. CASE run' = run /\ pending' # {}
      BY <2>2 DEF TypeOK
    <2> QED  BY <1>3, <2>1, <2>2
  <1>5. /\ receipts' \in Seq(ReceiptType) /\ Len(receipts') \in DOMAIN receipts'
        /\ receipts'[Len(receipts')].step_id = TheStep.step_id
        /\ receipts'[Len(receipts')].result = e[1] /\ e[1] \in ResultCode
        /\ effects' \in [StepIds -> Nat]
        /\ effects'[TheStep.step_id] <= effects[TheStep.step_id] + 1
        /\ e[1] \in NotCarriedOut => effects'[TheStep.step_id] = effects[TheStep.step_id]
    BY <1>1, <1>2, AttemptFacts, TheSpecIsAccepted
  <1>6. TypeOK'
    BY <1>1, <1>4, <1>5 DEF TypeOK
  <1>7. TheSpec' = TheSpec
    BY <1>1, <1>4 DEF TheSpec, Spec_
  <1>8. effects[TheStep.step_id] = 0
    BY <1>1, <1>2 DEF AttemptsInOrder
  <1>9. /\ \A j \in DOMAIN TheSpec.steps : j # run.step =>
              effects'[TheSpec.steps[j].step_id] = effects[TheSpec.steps[j].step_id]
        /\ RepeatsAreAllowed'
    BY <1>1, <1>2, <1>7, <1>8, AttemptKeepsRepeats
  <1>10. AttemptsInOrder'
    <2>1. ASSUME NEW j \in DOMAIN TheSpec.steps, j > run'.step \/ (j = run'.step /\ pending' = {})
          PROVE  effects'[TheSpec.steps[j].step_id] = 0
      <3>1. run.step \in Nat /\ j \in Nat /\ j > run.step
        BY <1>1, <1>3, <1>4, <2>1, TheSpecIsAccepted
      <3>2. j # run.step /\ effects[TheSpec.steps[j].step_id] = 0
        BY <3>1 DEF AttemptsInOrder
      <3> QED  BY <1>9, <3>2
    <2>2. ASSUME NEW p \in pending'
          PROVE  /\ run'.step = run.step /\ TheStep' = TheStep /\ p.result = e[1]
      BY <1>1, <1>3, <1>7, <2>2 DEF TheStep
    <2>3. effects'[TheStep.step_id] <= 1
      BY <1>5, <1>8
    <2> QED  BY <1>2, <1>5, <1>7, <1>8, <2>1, <2>2, <2>3 DEF AttemptsInOrder
  <1>11. FaultInv'
    <2>1. \A p \in pending' : TheStep' = TheStep
                              /\ [step_id |-> TheStep.step_id, detection |-> p.detection] \in first'
      BY <1>1, <1>3, <1>7 DEF TheStep
    <2>2. first \subseteq first'
      BY <1>3
    <2> QED  BY <1>1, <2>1, <2>2 DEF FaultInv, FaultsStayAsDetected
  <1>12. ResultsTellEvaluation' /\ RedoneForTheFault'
    BY <1>1, <1>2 DEF ResultsTellEvaluation, RedoneForTheFault
  <1>13. StoredIsOfThisRun' /\ ReadingIsOfTheStored'
    BY <1>1, <1>4, NothingStoredYet
  <1> QED  BY <1>6, <1>9, <1>10, <1>11, <1>12, <1>13

\* Going back to a checkpoint attempts nothing yet.
LEMMA StartOverKeepsIInv ==
    ASSUME IInv, NEW strategy \in StartsOver, NEW k \in 1..run.step, StartOver(strategy, k)
    PROVE  IInv'
  <1> USE DEF IInv
  <1>1. /\ UNCHANGED <<published, run, receipts, effects, pending, first, faults>>
        /\ UNCHANGED <<evaluated, results, stored, reading>>
        /\ redo' = {[strategy |-> strategy, step |-> k]}
        /\ \E p \in pending : strategy \in StartsOver \cap Strategies(TheStep, p.result)
    BY DEF StartOver, resultVars
  <1>2. TheSpec' = TheSpec /\ TheStep' = TheStep
    BY <1>1 DEF TheSpec, TheStep, Spec_
  <1>3. RedoneForTheFault'
    BY <1>1, <1>2 DEF RedoneForTheFault
  <1>4. ~run.ended
    BY <1>1 DEF StoredIsOfThisRun
  <1>5. TypeOK' /\ AttemptsInOrder' /\ RepeatsAreAllowed'
    BY <1>1, <1>2 DEF TypeOK, AttemptsInOrder, RepeatsAreAllowed
  <1>6. FaultInv' /\ ResultsTellEvaluation'
    BY <1>1, <1>2 DEF FaultInv, FaultsStayAsDetected, ResultsTellEvaluation
  <1>7. StoredIsOfThisRun' /\ ReadingIsOfTheStored'
    BY <1>1, <1>4, NothingStoredYet
  <1> QED  BY <1>3, <1>5, <1>6, <1>7

\* The fault at hand, and why its step may go back to a checkpoint: a receipt of
\* the step tells the error.
LEMMA FaultAtHand ==
    ASSUME IInv, NEW p \in pending
    PROVE  /\ run.step \in DOMAIN TheSpec.steps /\ TheStep = TheSpec.steps[run.step]
           /\ ~run.ended
           /\ p.result \in NotCarriedOut => effects[TheStep.step_id] = 0
           /\ \A strategy \in Strategies(TheStep, p.result), i \in DOMAIN TheSpec.steps :
                 strategy \in StartsOver /\ i <= run.step =>
                     \E j \in DOMAIN TheSpec.steps, n \in DOMAIN receipts :
                        /\ j >= i
                        /\ receipts[n].step_id = TheSpec.steps[j].step_id
                        /\ Strategies(TheSpec.steps[j], receipts[n].result) \cap StartsOver # {}
  <1>1. /\ run.step \in DOMAIN TheSpec.steps /\ ~run.ended
        /\ p.result \in NotCarriedOut => effects[TheStep.step_id] = 0
    BY DEF IInv, AttemptsInOrder, StoredIsOfThisRun
  <1>2. PICK n \in DOMAIN receipts :
            receipts[n].step_id = TheStep.step_id /\ receipts[n].result = p.result
    BY DEF IInv, AttemptsInOrder
  <1>3. TheStep = TheSpec.steps[run.step]
    BY DEF TheStep
  <1> QED  BY <1>1, <1>2, <1>3

\* An earlier step is done again for a later one that permits it.
LEMMA RedoKeepsIInv ==
    ASSUME IInv, NEW key \in Keys, NEW e \in Endings, Redo(key, e[1], e[2], e[3])
    PROVE  IInv'
  <1> USE DEF IInv
  <1>1. /\ UNCHANGED <<published, first, evaluated, results, stored, reading>>
        /\ \E at \in redo : /\ at.step < run.step
                            /\ Act(TheSpec.steps[at.step], key, e[1], e[2], e[3])
                            /\ \/ /\ redo' = {[at EXCEPT !.step = @ + 1]}
                                  /\ UNCHANGED <<run, pending, faults>>
                               \/ \E recovery : CloseFault(recovery)
    BY DEF Redo, resultVars
  <1>2. PICK at \in redo : /\ at.step < run.step
                           /\ Act(TheSpec.steps[at.step], key, e[1], e[2], e[3])
                           /\ \/ /\ redo' = {[at EXCEPT !.step = @ + 1]}
                                 /\ UNCHANGED <<run, pending, faults>>
                              \/ \E recovery : CloseFault(recovery)
    BY <1>1
  <1>3. PICK p \in pending : at.strategy \in StartsOver \cap Strategies(TheStep, p.result)
    BY DEF RedoneForTheFault
  <1>4. /\ at = [strategy |-> at.strategy, step |-> at.step] /\ at.step \in 1..run.step
    BY DEF RedoneForTheFault
  <1>5. /\ run.step \in DOMAIN TheSpec.steps /\ ~run.ended /\ run.step \in Nat
        /\ TheStep = TheSpec.steps[run.step]
    BY FaultAtHand, TheSpecIsAccepted
  <1>6. at.step \in DOMAIN TheSpec.steps /\ at.step \in Nat /\ at.step # run.step
    BY <1>2, <1>4, <1>5, TheSpecIsAccepted
  <1>7. \E j \in DOMAIN TheSpec.steps, n \in DOMAIN receipts :
            /\ j >= at.step
            /\ receipts[n].step_id = TheSpec.steps[j].step_id
            /\ Strategies(TheSpec.steps[j], receipts[n].result) \cap StartsOver # {}
    BY <1>2, <1>3, <1>5, <1>6, FaultAtHand
  <1>8. /\ receipts' \in Seq(ReceiptType) /\ effects' \in [StepIds -> Nat]
        /\ \A n \in DOMAIN receipts : n \in DOMAIN receipts' /\ receipts'[n] = receipts[n]
    BY <1>2, <1>6, AttemptFacts, TheSpecIsAccepted
  <1>9. /\ run' \in [version : {1}, step : Nat \ {0}, ended : BOOLEAN]
        /\ run'.version = run.version /\ run'.ended = run.ended
        /\ \/ /\ redo' = {[at EXCEPT !.step = @ + 1]}
              /\ UNCHANGED <<run, pending, faults>>
           \/ FaultInv' /\ pending' = {} /\ redo' = {} /\ run'.step > run.step
    <2>1. CASE redo' = {[at EXCEPT !.step = @ + 1]} /\ UNCHANGED <<run, pending, faults>>
      BY <2>1 DEF TypeOK
    <2>2. CASE \E recovery : CloseFault(recovery)
      BY <1>1, <1>3, <1>5, <2>2, FaultClosed
    <2> QED  BY <1>2, <2>1, <2>2
  <1>10. TypeOK'
    BY <1>1, <1>8, <1>9 DEF TypeOK
  <1>11. TheSpec' = TheSpec
    BY <1>1, <1>9 DEF TheSpec, Spec_
  <1>12. /\ \A j \in DOMAIN TheSpec.steps : j # at.step =>
               effects'[TheSpec.steps[j].step_id] = effects[TheSpec.steps[j].step_id]
         /\ RepeatsAreAllowed'
    BY <1>2, <1>6, <1>7, <1>11, AttemptKeepsRepeats
  <1>13. /\ AttemptsInOrder' /\ RedoneForTheFault' /\ FaultInv'
    <2>1. CASE redo' = {[at EXCEPT !.step = @ + 1]} /\ UNCHANGED <<run, pending, faults>>
      <3>1. TheStep' = TheStep
        BY <1>11, <2>1 DEF TheStep
      <3>2. effects'[TheStep.step_id] = effects[TheStep.step_id]
        BY <1>5, <1>6, <1>12
      <3>3. \A j \in DOMAIN TheSpec.steps : j >= run.step => j # at.step
        BY <1>2, <1>5, <1>6, TheSpecIsAccepted
      <3>4. AttemptsInOrder'
        <4>1. \A j \in DOMAIN TheSpec.steps :
                 j > run.step \/ (j = run.step /\ pending = {}) =>
                     effects'[TheSpec.steps[j].step_id] = 0
          BY <1>5, <1>12, <3>3, TheSpecIsAccepted DEF AttemptsInOrder
        <4>2. \A q \in pending :
                 /\ run.step \in DOMAIN TheSpec.steps
                 /\ q.result \in ResultCode
                 /\ \E n \in DOMAIN receipts' :
                       receipts'[n].step_id = TheStep.step_id /\ receipts'[n].result = q.result
                 /\ effects'[TheStep.step_id] <= 1
                 /\ q.result \in NotCarriedOut => effects'[TheStep.step_id] = 0
          BY <1>8, <3>2 DEF AttemptsInOrder
        <4> QED  BY <1>11, <2>1, <3>1, <4>1, <4>2 DEF AttemptsInOrder
      <3>5. RedoneForTheFault'
        <4>1. PICK next : next = [strategy |-> at.strategy, step |-> at.step + 1]
          OBVIOUS
        <4>2. redo' = {next} /\ next = [strategy |-> next.strategy, step |-> next.step]
          BY <1>4, <2>1, <4>1
        <4>3. next.step \in 1..run.step /\ next.strategy = at.strategy
          BY <1>2, <1>4, <1>5, <4>1
        <4> QED  BY <1>3, <2>1, <3>1, <4>2, <4>3 DEF RedoneForTheFault
      <3>6. FaultInv'
        BY <1>1, <2>1, <3>1 DEF FaultInv, FaultsStayAsDetected
      <3> QED  BY <3>4, <3>5, <3>6
    <2>2. CASE FaultInv' /\ pending' = {} /\ redo' = {} /\ run'.step > run.step
      <3>1. ASSUME NEW j \in DOMAIN TheSpec.steps, j >= run'.step
            PROVE  effects'[TheSpec.steps[j].step_id] = 0
        <4>1. j \in Nat /\ j > run.step /\ j # at.step
          BY <1>2, <1>5, <1>6, <1>9, <2>2, <3>1, TheSpecIsAccepted
        <4> QED  BY <1>12, <4>1 DEF AttemptsInOrder
      <3> QED  BY <1>9, <1>11, <2>2, <3>1, TheSpecIsAccepted DEF AttemptsInOrder, RedoneForTheFault
    <2> QED  BY <1>9, <2>1, <2>2
  <1>14. ResultsTellEvaluation'
    BY <1>1 DEF ResultsTellEvaluation
  <1>15. StoredIsOfThisRun' /\ ReadingIsOfTheStored'
    BY <1>1, <1>5, <1>9, NothingStoredYet
  <1> QED  BY <1>10, <1>12, <1>13, <1>14, <1>15

\* Recovery of the step itself: the action takes effect a second time only where
\* the first attempt may have, and there only an idempotent step may be retried,
\* or the run goes back to a checkpoint.
LEMMA RecoverKeepsIInv ==
    ASSUME IInv, NEW strategy, NEW payload, NEW key \in Keys, NEW e \in Endings,
           Recover(strategy, payload, key, e[1], e[2], e[3])
    PROVE  IInv'
  <1> USE DEF IInv
  <1>1. /\ UNCHANGED <<published, first, evaluated, results, stored, reading>>
        /\ \E p \in pending : strategy \in Strategies(TheStep, p.result)
        /\ Act(TheStep, key, e[1], e[2], e[3])
        /\ \E recovery : CloseFault(recovery)
    BY DEF Recover, resultVars
  <1>2. PICK p \in pending : strategy \in Strategies(TheStep, p.result)
    BY <1>1
  <1>3. /\ run.step \in DOMAIN TheSpec.steps /\ ~run.ended /\ run.step \in Nat
        /\ TheStep = TheSpec.steps[run.step]
        /\ p.result \in NotCarriedOut => effects[TheStep.step_id] = 0
    BY FaultAtHand, TheSpecIsAccepted
  <1>4. /\ FaultInv' /\ pending' = {} /\ redo' = {}
        /\ run' \in [version : {1}, step : Nat \ {0}, ended : BOOLEAN]
        /\ run'.version = run.version /\ run'.ended = run.ended
        /\ run'.step > run.step
    BY <1>1, <1>2, <1>3, FaultClosed
  <1>5. receipts' \in Seq(ReceiptType) /\ effects' \in [StepIds -> Nat]
    BY <1>1, <1>3, AttemptFacts, TheSpecIsAccepted
  <1>6. TypeOK'
    BY <1>1, <1>4, <1>5 DEF TypeOK
  <1>7. TheSpec' = TheSpec
    BY <1>1, <1>4 DEF TheSpec, Spec_
  <1>8. \/ effects[TheStep.step_id] = 0
        \/ TheStep.idempotency = "IDEMPOTENT"
        \/ \E j \in DOMAIN TheSpec.steps, n \in DOMAIN receipts :
              /\ j >= run.step
              /\ receipts[n].step_id = TheSpec.steps[j].step_id
              /\ Strategies(TheSpec.steps[j], receipts[n].result) \cap StartsOver # {}
    <2>1. CASE strategy \in StartsOver
      BY <1>2, <1>3, <2>1, FaultAtHand
    <2>2. CASE strategy \notin StartsOver /\ p.result \notin NotCarriedOut
      <3>1. StepHolds(TheStep)
        BY <1>3, TheSpecIsAccepted DEF SpecHolds
      <3> QED  BY <1>2, <2>2, <3>1, StrategyFacts
    <2> QED  BY <1>3, <2>1, <2>2
  <1>9. /\ \A j \in DOMAIN TheSpec.steps : j # run.step =>
              effects'[TheSpec.steps[j].step_id] = effects[TheSpec.steps[j].step_id]
        /\ RepeatsAreAllowed'
    BY <1>1, <1>3, <1>7, <1>8, AttemptKeepsRepeats
  <1>10. AttemptsInOrder' /\ RedoneForTheFault'
    <2>1. ASSUME NEW j \in DOMAIN TheSpec.steps, j >= run'.step
          PROVE  effects'[TheSpec.steps[j].step_id] = 0
      <3>1. j \in Nat /\ j > run.step
        BY <1>3, <1>4, <2>1, TheSpecIsAccepted
      <3> QED  BY <1>3, <1>9, <3>1 DEF AttemptsInOrder
    <2> QED  BY <1>4, <1>7, <2>1, TheSpecIsAccepted DEF AttemptsInOrder, RedoneForTheFault
  <1>11. ResultsTellEvaluation'
    BY <1>1 DEF ResultsTellEvaluation
  <1>12. StoredIsOfThisRun' /\ ReadingIsOfTheStored'
    BY <1>1, <1>3, <1>4, NothingStoredYet
  <1> QED  BY <1>4, <1>6, <1>9, <1>10, <1>11, <1>12

\* A result is what the verifier read, by whom, and against what; it is a PASS
\* only if what was read is what was expected.
LEMMA EvaluateKeepsIInv ==
    ASSUME IInv, NEW a \in DOMAIN TheSpec.assertions, NEW executor, NEW expected,
           NEW v \in Observed, Evaluate(a, executor, expected, v)
    PROVE  IInv'
  <1> USE DEF IInv
  <1>1. /\ UNCHANGED <<published, run, receipts, effects, pending, redo, first, faults, stored, reading>>
        /\ ~run.ended /\ a \notin DOMAIN results
        /\ evaluated' = Entered(evaluated, a, [executor |-> executor, value |-> v.value])
    BY DEF Evaluate, stepVars
  <1>2. PICK r :
          /\ r = [verdict |-> IF ~(v.resolution = "RESOLVED") THEN TheSpec.assertions[a].on_unresolvable
                              ELSE IF v.value = expected THEN "PASS" ELSE "FAIL",
                  determinism |-> r.determinism, reason_code |-> r.reason_code,
                  actual |-> v.value, executor |-> executor,
                  expected_hash |-> [op |-> TheSpec.assertions[a].op, expected |-> expected],
                  set_hash |-> r.set_hash, detail |-> r.detail]
          /\ results' = Entered(results, a, r)
    BY DEF Evaluate
  <1>3. TheSpec.assertions[a].on_unresolvable = "INDETERMINATE"
    BY TheSpecIsAccepted DEF SpecHolds, AssertionHolds
  <1>4. r.verdict = "PASS" => r.actual = r.expected_hash.expected
    BY <1>2, <1>3
  <1>5. ResultsTellEvaluation'
    BY <1>1, <1>2, <1>4 DEF ResultsTellEvaluation, Entered
  <1>6. TheSpec' = TheSpec /\ TheStep' = TheStep
    BY <1>1 DEF TheSpec, TheStep, Spec_
  <1>7. TypeOK' /\ FaultInv'
    BY <1>1, <1>6 DEF TypeOK, FaultInv, FaultsStayAsDetected
  <1>8. AttemptsInOrder' /\ RedoneForTheFault' /\ RepeatsAreAllowed'
    BY <1>1, <1>6 DEF AttemptsInOrder, RedoneForTheFault, RepeatsAreAllowed
  <1>9. StoredIsOfThisRun' /\ ReadingIsOfTheStored'
    BY <1>1, NothingStoredYet
  <1> QED  BY <1>5, <1>7, <1>8, <1>9

-----------------------------------------------------------------------------
\* Where a run only ends or its manifest is handled, what it did stays.
LEMMA RunIsOver ==
    ASSUME IInv, UNCHANGED <<published, receipts, effects, pending, redo, first, faults>>,
           UNCHANGED <<evaluated, results>>,
           run' = run \/ (run' = [run EXCEPT !.ended = TRUE])
    PROVE  /\ TypeOK' /\ AttemptsInOrder' /\ RedoneForTheFault' /\ RepeatsAreAllowed'
           /\ FaultInv' /\ ResultsTellEvaluation'
           /\ TheSpec' = TheSpec
           /\ \A x : IsOfThisRun(x) => IsOfThisRun(x)'
  <1> USE DEF IInv
  <1>1. /\ run' \in [version : {1}, step : Nat \ {0}, ended : BOOLEAN]
        /\ run'.version = run.version /\ run'.step = run.step
    BY DEF TypeOK
  <1>2. TheSpec' = TheSpec /\ TheStep' = TheStep
    BY <1>1 DEF TheSpec, TheStep, Spec_
  <1>3. TypeOK'
    BY <1>1 DEF TypeOK
  <1>4. AttemptsInOrder' /\ RedoneForTheFault' /\ RepeatsAreAllowed'
    BY <1>1, <1>2 DEF AttemptsInOrder, RedoneForTheFault, RepeatsAreAllowed
  <1>5. FaultInv' /\ ResultsTellEvaluation'
    BY <1>2 DEF FaultInv, FaultsStayAsDetected, ResultsTellEvaluation
  <1>6. \A x : IsOfThisRun(x) => IsOfThisRun(x)'
    BY <1>2 DEF IsOfThisRun, Manifest
  <1> QED  BY <1>2, <1>3, <1>4, <1>5, <1>6

\* The manifest is written once, with its hash.
LEMMA WriteKeepsIInv ==
    ASSUME IInv, NEW claim \in Claims, NEW report \in Reports, NEW extra,
           Write(claim, report, extra)
    PROVE  IInv'
  <1> USE DEF IInv
  <1>1. /\ UNCHANGED <<published, receipts, effects, pending, redo, first, faults>>
        /\ UNCHANGED <<evaluated, results, reading>>
        /\ ~run.ended /\ pending = {} /\ run' = [run EXCEPT !.ended = TRUE]
    BY DEF Write, stepVars, resultVars
  <1>2. PICK m : /\ m = Manifest(claim, report, "counters") /\ ManifestHolds(m)
                 /\ stored' = {[json |-> ToJson(m, extra), written |-> m, edited |-> FALSE]}
    BY DEF Write
  <1>3. /\ TypeOK' /\ AttemptsInOrder' /\ RedoneForTheFault' /\ RepeatsAreAllowed'
        /\ FaultInv' /\ ResultsTellEvaluation'
        /\ IsOfThisRun(m)'
    <2>1. report.results \subseteq DOMAIN results
      BY DEF Reports
    <2>2. IsOfThisRun(m)
      BY <1>2, <2>1 DEF IsOfThisRun
    <2> QED  BY <1>1, <2>2, RunIsOver
  <1>4. PICK s : s = [json |-> ToJson(m, extra), written |-> m, edited |-> FALSE]
    OBVIOUS
  <1>5. /\ stored' = {s} /\ s.written = m /\ s.json = ToJson(m, extra)
        /\ s = [json |-> s.json, written |-> s.written, edited |-> s.edited]
    BY <1>2, <1>4
  <1>6. /\ s.json = [version |-> s.json.version, body |-> s.json.body,
                     extra |-> s.json.extra, content_hash |-> s.json.content_hash]
        /\ s.json.content_hash = {[fields |-> Identity(m), extra |-> extra]}
        /\ s.json.extra = extra
    <2>1. \E v : ToJson(m, extra) = [version |-> v, body |-> m, extra |-> extra,
                      content_hash |-> {[fields |-> Identity(m), extra |-> extra]}]
      BY Zenon DEF ToJson
    <2> QED  BY <1>5, <2>1
  <1>7. run'.ended
    BY <1>1 DEF TypeOK
  <1>8. StoredIsOfThisRun'
    BY <1>1, <1>2, <1>3, <1>5, <1>6, <1>7 DEF StoredIsOfThisRun
  <1>9. reading.code = "unread"
    BY <1>1 DEF StoredIsOfThisRun, ReadingIsOfTheStored
  <1>10. ReadingIsOfTheStored'
    BY <1>1, <1>9 DEF ReadingIsOfTheStored
  <1> QED  BY <1>3, <1>8, <1>10

\* An edit changes the body, or takes the hash away; a hash that is kept is that
\* of the manifest as it was written.
LEMMA EditKeepsIInv ==
    ASSUME IInv, NEW s \in stored, NEW m, NEW hash \in {s.json.content_hash, {}}, Edit(m, hash)
    PROVE  IInv'
  <1> USE DEF IInv
  <1>1. /\ UNCHANGED <<published, run, receipts, effects, pending, redo, first, faults>>
        /\ UNCHANGED <<evaluated, results>> /\ reading'.code = "unread"
    BY DEF Edit, stepVars, resultVars
  <1>2. stored' = {[s EXCEPT !.json.body = m, !.edited = TRUE, !.json.content_hash = hash]}
    <2>1. PICK u \in stored :
            stored' = {[u EXCEPT !.json.body = m, !.edited = TRUE, !.json.content_hash = hash]}
      BY DEF Edit
    <2>2. u = s
      BY <2>1 DEF StoredIsOfThisRun
    <2> QED  BY <2>1, <2>2
  <1>3. /\ TypeOK' /\ AttemptsInOrder' /\ RedoneForTheFault' /\ RepeatsAreAllowed'
        /\ FaultInv' /\ ResultsTellEvaluation'
        /\ \A x : IsOfThisRun(x) => IsOfThisRun(x)'
    BY <1>1, RunIsOver
  <1>4. PICK t : t = [s EXCEPT !.json.body = m, !.edited = TRUE, !.json.content_hash = hash]
    OBVIOUS
  <1>5. /\ s = [json |-> s.json, written |-> s.written, edited |-> s.edited]
        /\ s.json = [version |-> s.json.version, body |-> s.json.body,
                     extra |-> s.json.extra, content_hash |-> s.json.content_hash]
        /\ IsOfThisRun(s.written)
        /\ ManifestHolds(s.written)
        /\ s.json.content_hash \subseteq
              {[fields |-> Identity(s.written), extra |-> s.json.extra]}
    BY DEF StoredIsOfThisRun
  <1>6. /\ t = [json |-> t.json, written |-> t.written, edited |-> t.edited]
        /\ t.json = [version |-> t.json.version, body |-> t.json.body,
                     extra |-> t.json.extra, content_hash |-> t.json.content_hash]
        /\ t.written = s.written /\ t.json.extra = s.json.extra
        /\ t.json.content_hash = hash
    BY <1>4, <1>5
  <1>7. StoredIsOfThisRun'
    BY <1>1, <1>2, <1>3, <1>4, <1>5, <1>6 DEF StoredIsOfThisRun
  <1>8. ReadingIsOfTheStored'
    BY <1>1 DEF ReadingIsOfTheStored
  <1> QED  BY <1>3, <1>7, <1>8

\* A reading is of what is in the store now.
LEMMA ReadKeepsIInv ==
    ASSUME IInv, NEW i \in DOMAIN published, Read(i)
    PROVE  IInv'
  <1> USE DEF IInv
  <1>1. /\ UNCHANGED <<published, run, receipts, effects, pending, redo, first, faults>>
        /\ UNCHANGED <<evaluated, results, stored>>
    BY DEF Read, stepVars, resultVars
  <1>2. /\ TypeOK' /\ AttemptsInOrder' /\ RedoneForTheFault' /\ RepeatsAreAllowed'
        /\ FaultInv' /\ ResultsTellEvaluation'
        /\ \A x : IsOfThisRun(x) => IsOfThisRun(x)'
    BY <1>1, RunIsOver
  <1>3. StoredIsOfThisRun'
    BY <1>1, <1>2 DEF StoredIsOfThisRun
  <1>4. PICK s \in stored :
          reading' = [code |-> IF FromJson(s.json) # "read" THEN FromJson(s.json)
                               ELSE IF ManifestMatches(s.json.body, Spec_(i)) THEN "accepted"
                               ELSE "ASSERTION_INTEGRITY",
                      spec |-> i]
    BY DEF Read
  <1>5. reading'.code \in {"accepted", "ASSERTION_INTEGRITY"} => FromJson(s.json) = "read"
    BY <1>4 DEF FromJson
  <1>6. reading'.code = "accepted" => ManifestMatches(s.json.body, Spec_(i)) /\ reading'.spec = i
    BY <1>4, <1>5
  <1>7. stored' = {s} /\ Spec_(i)' = Spec_(i)
    BY <1>1 DEF StoredIsOfThisRun, Spec_
  <1>8. ReadingIsOfTheStored'
    BY <1>1, <1>5, <1>6, <1>7 DEF ReadingIsOfTheStored, Spec_
  <1> QED  BY <1>2, <1>3, <1>8

-----------------------------------------------------------------------------
\* Every step of the run keeps the invariant.
LEMMA NextKeepsIInv == IInv /\ [Next]_vars => IInv'
  <1> SUFFICES ASSUME IInv, [Next]_vars
               PROVE  IInv'
    OBVIOUS
  <1>1. ASSUME NEW spec \in Specs, Publish(spec)
        PROVE  IInv'
    BY <1>1, PublishKeepsIInv
  <1>2. ASSUME NEW key \in Keys, NEW e \in Endings, FirstAttempt(key, e[1], e[2], e[3])
        PROVE  IInv'
    BY <1>2, FirstAttemptKeepsIInv
  <1>3. ASSUME NEW strategy \in PermittedRecovery, NEW payload \in Payloads,
               NEW key \in Keys, NEW e \in Endings,
               Recover(strategy, payload, key, e[1], e[2], e[3])
        PROVE  IInv'
    BY <1>3, RecoverKeepsIInv
  <1>11. ASSUME NEW key \in Keys, NEW e \in Endings, Redo(key, e[1], e[2], e[3])
         PROVE  IInv'
    BY <1>11, RedoKeepsIInv
  <1>12. ASSUME NEW strategy \in StartsOver, NEW k \in 1..run.step, StartOver(strategy, k)
         PROVE  IInv'
    BY <1>12, StartOverKeepsIInv
  <1>4. CASE Suppress("NOT_PERMITTED")
    BY <1>4, SuppressKeepsIInv
  <1>5. ASSUME NEW a \in DOMAIN TheSpec.assertions, NEW executor \in {"PLAYWRIGHT", "SCRIPT"},
               NEW expected \in {{"saved"}, {"other"}}, NEW v \in Observed,
               Evaluate(a, executor, expected, v)
        PROVE  IInv'
    BY <1>5, EvaluateKeepsIInv
  <1>6. ASSUME NEW claim \in Claims, NEW report \in Reports, NEW extra \in {{}, {"newer_field"}},
               Write(claim, report, extra)
        PROVE  IInv'
    BY <1>6, WriteKeepsIInv
  <1>7. ASSUME NEW s \in stored, NEW m \in Edits(s.json.body), Edit(m, s.json.content_hash)
        PROVE  IInv'
    BY <1>7, EditKeepsIInv
  <1>8. ASSUME NEW s \in stored, Edit(s.json.body, {})
        PROVE  IInv'
    BY <1>8, EditKeepsIInv
  <1>9. ASSUME NEW i \in DOMAIN published, Read(i)
        PROVE  IInv'
    BY <1>9, ReadKeepsIInv
  <1>10. CASE UNCHANGED vars
    <2>1. /\ UNCHANGED <<published, run, receipts, effects, pending, redo, first, faults>>
          /\ UNCHANGED <<evaluated, results, stored, reading>>
      BY <1>10 DEF vars, stepVars, resultVars
    <2>2. /\ TypeOK' /\ AttemptsInOrder' /\ RedoneForTheFault' /\ RepeatsAreAllowed'
          /\ FaultInv' /\ ResultsTellEvaluation'
          /\ \A x : IsOfThisRun(x) => IsOfThisRun(x)'
      BY <2>1, RunIsOver
    <2>3. StoredIsOfThisRun'
      BY <2>1, <2>2 DEF IInv, StoredIsOfThisRun
    <2>4. ReadingIsOfTheStored'
      BY <2>1 DEF IInv, ReadingIsOfTheStored, Spec_
    <2> QED  BY <2>2, <2>3, <2>4 DEF IInv
  <1> QED  BY <1>1, <1>2, <1>3, <1>4, <1>5, <1>6, <1>7, <1>8, <1>9, <1>10, <1>11, <1>12 DEF Next

THEOREM SpecIInv == Spec => []IInv
  BY InitIInv, NextKeepsIInv, PTL DEF Spec

-----------------------------------------------------------------------------
\* Two members of a finite set that has not more than one are the same.
LEMMA AtMostOne ==
    ASSUME NEW S, IsFiniteSet(S), ~(Cardinality(S) > 1), NEW a \in S, NEW b \in S
    PROVE  a = b
  <1>1. Cardinality(S) \in Nat /\ IsFiniteSet(S \ {a}) /\ Cardinality(S \ {a}) = Cardinality(S) - 1
    BY FS_CardinalityType, FS_RemoveElement
  <1>2. Cardinality(S \ {a}) \in Nat
    BY <1>1, FS_CardinalityType
  <1>3. Cardinality(S \ {a}) = 0
    BY <1>1, <1>2
  <1>4. S \ {a} = {}
    BY <1>1, <1>3, FS_EmptySet
  <1> QED  BY <1>4

\* What a function takes a finite set to is finite.
LEMMA ImageIsFinite ==
    ASSUME NEW f, IsFiniteSet(DOMAIN f), NEW T, T = {f[x] : x \in DOMAIN f}
    PROVE  IsFiniteSet(T)
  <1>1. [x \in DOMAIN f |-> f[x]] \in Surjection(DOMAIN f, T)
    BY DEF Surjection
  <1> QED  BY <1>1, FS_Surjection

\* Receipts without a violation: one key in a step, one step under a key
\* (idempotency_key_violations).
LEMMA NoViolationsMeans ==
    ASSUME NEW R, IsFiniteSet(R), KeyViolations(R) = {}, NEW r \in R, NEW s \in R
    PROVE  r.step_id = s.step_id <=> r.key = s.key
  <1> DEFINE SameStep == {t \in R : t.step_id = r.step_id}
             SameKey == {t \in R : t.key = r.key}
             KeysOf == {t.key : t \in SameStep}
             StepsOf == {t.step_id : t \in SameKey}
  <1>1. ~(Cardinality(KeysOf) > 1) /\ ~(Cardinality(StepsOf) > 1)
    BY Zenon DEF KeyViolations
  <1>2. IsFiniteSet(SameStep) /\ IsFiniteSet(SameKey)
    BY FS_Subset
  <1>3. IsFiniteSet(KeysOf)
    <2>1. PICK f : f = [t \in SameStep |-> t.key]
      OBVIOUS
    <2>2. DOMAIN f = SameStep /\ KeysOf = {f[t] : t \in DOMAIN f}
      BY <2>1
    <2> HIDE DEF SameStep, KeysOf
    <2> QED  BY <1>2, <2>2, ImageIsFinite
  <1>4. IsFiniteSet(StepsOf)
    <2>1. PICK f : f = [t \in SameKey |-> t.step_id]
      OBVIOUS
    <2>2. DOMAIN f = SameKey /\ StepsOf = {f[t] : t \in DOMAIN f}
      BY <2>1
    <2> HIDE DEF SameKey, StepsOf
    <2> QED  BY <1>2, <2>2, ImageIsFinite
  <1>5. ASSUME r.step_id = s.step_id
        PROVE  r.key = s.key
    <2>1. r.key \in KeysOf /\ s.key \in KeysOf
      BY <1>5
    <2> HIDE DEF KeysOf
    <2> QED  BY <1>1, <1>3, <2>1, AtMostOne
  <1>6. ASSUME r.key = s.key
        PROVE  r.step_id = s.step_id
    <2>1. r.step_id \in StepsOf /\ s.step_id \in StepsOf
      BY <1>6
    <2> HIDE DEF StepsOf
    <2> QED  BY <1>1, <1>4, <2>1, AtMostOne
  <1> QED  BY <1>5, <1>6

LEMMA KeysTellReplaysAlways ==
    ASSUME TypeOK
    PROVE  KeysTellReplays
  <1> DEFINE R == {receipts[i] : i \in DOMAIN receipts}
  <1>1. DOMAIN receipts = 1..Len(receipts) /\ Len(receipts) \in Nat
    BY DEF TypeOK
  <1>2. IsFiniteSet(DOMAIN receipts)
    BY <1>1, FS_Interval
  <1>3. IsFiniteSet(R)
    BY <1>2, ImageIsFinite
  <1>4. \A i \in DOMAIN receipts : receipts[i] \in R
    OBVIOUS
  <1> SUFFICES ASSUME KeyViolations(R) = {}, NEW i \in DOMAIN receipts, NEW j \in DOMAIN receipts
               PROVE  receipts[i].step_id = receipts[j].step_id <=> receipts[i].key = receipts[j].key
    BY DEF KeysTellReplays
  <1> HIDE DEF R
  <1> QED  BY <1>3, <1>4, NoViolationsMeans

-----------------------------------------------------------------------------
\* What is read back with its hash is what the hash was taken of.
LEMMA ReadWithHash ==
    ASSUME IInv, reading.code \in {"accepted", "ASSERTION_INTEGRITY"},
           NEW s \in stored, s.json.content_hash # {}
    PROVE  Identity(s.json.body) = Identity(s.written)
  <1>1. s.json.content_hash \subseteq {[fields |-> Identity(s.json.body), extra |-> {}]}
    BY Zenon DEF IInv, ReadingIsOfTheStored, FromJson
  <1>2. s.json.content_hash \subseteq {[fields |-> Identity(s.written), extra |-> s.json.extra]}
    BY DEF IInv, StoredIsOfThisRun
  <1> QED  BY <1>1, <1>2

\* Records of one identity agree on every field but custody, and their results on
\* everything but wording.
LEMMA SameIdentity ==
    ASSUME NEW m, NEW n, Identity(m) = Identity(n),
           {"spec_ref", "assertion_set_hash", "outcome", "results"} \subseteq DOMAIN n
    PROVE  /\ m.spec_ref = n.spec_ref /\ m.outcome = n.outcome
           /\ m.assertion_set_hash = n.assertion_set_hash
           /\ DOMAIN m.results = DOMAIN n.results
           /\ \A a \in DOMAIN n.results :
                 {"executor", "expected_hash"} \subseteq DOMAIN n.results[a] =>
                     /\ m.results[a].executor = n.results[a].executor
                     /\ m.results[a].expected_hash = n.results[a].expected_hash
  <1>1. DOMAIN m \ {"custody"} = DOMAIN n \ {"custody"}
    <2>1. DOMAIN Identity(m) = DOMAIN m \ {"custody"} /\ DOMAIN Identity(n) = DOMAIN n \ {"custody"}
      BY DEF Identity
    <2> QED  BY <2>1
  <1>2. {"spec_ref", "assertion_set_hash", "outcome", "results"} \subseteq (DOMAIN m \ {"custody"})
    BY <1>1
  <1>3. /\ m.spec_ref = n.spec_ref /\ m.outcome = n.outcome
        /\ m.assertion_set_hash = n.assertion_set_hash
    <2>1. /\ Identity(m)["assertion_set_hash"] = m["assertion_set_hash"]
          /\ Identity(n)["assertion_set_hash"] = n["assertion_set_hash"]
          /\ Identity(m)["spec_ref"] = m["spec_ref"] /\ Identity(m)["outcome"] = m["outcome"]
          /\ Identity(n)["spec_ref"] = n["spec_ref"] /\ Identity(n)["outcome"] = n["outcome"]
      BY <1>1, <1>2 DEF Identity
    <2> QED  BY <2>1
  <1>4. [a \in DOMAIN m.results |-> ResultIdentity(m.results[a])]
          = [a \in DOMAIN n.results |-> ResultIdentity(n.results[a])]
    <2>1. /\ Identity(m)["results"] = [a \in DOMAIN m.results |-> ResultIdentity(m.results[a])]
          /\ Identity(n)["results"] = [a \in DOMAIN n.results |-> ResultIdentity(n.results[a])]
      BY <1>1, <1>2 DEF Identity
    <2> QED  BY <2>1
  <1>5. DOMAIN m.results = DOMAIN n.results
    BY <1>4
  <1>6. ASSUME NEW a \in DOMAIN n.results,
               {"executor", "expected_hash"} \subseteq DOMAIN n.results[a]
        PROVE  /\ m.results[a].executor = n.results[a].executor
               /\ m.results[a].expected_hash = n.results[a].expected_hash
    <2>1. PICK r, t : r = m.results[a] /\ t = n.results[a]
      OBVIOUS
    <2>2. ResultIdentity(r) = ResultIdentity(t)
      BY <1>4, <1>5, <2>1
    <2>3. DOMAIN r \ {"detail"} = DOMAIN t \ {"detail"}
      <3>1. /\ DOMAIN ResultIdentity(r) = DOMAIN r \ {"detail"}
            /\ DOMAIN ResultIdentity(t) = DOMAIN t \ {"detail"}
        BY DEF ResultIdentity
      <3> QED  BY <2>2, <3>1
    <2>4. {"executor", "expected_hash"} \subseteq (DOMAIN r \ {"detail"})
      BY <1>6, <2>1, <2>3
    <2>5. /\ ResultIdentity(r)["executor"] = r["executor"]
          /\ ResultIdentity(r)["expected_hash"] = r["expected_hash"]
          /\ ResultIdentity(t)["executor"] = t["executor"]
          /\ ResultIdentity(t)["expected_hash"] = t["expected_hash"]
      BY <2>3, <2>4 DEF ResultIdentity
    <2> QED  BY <2>1, <2>2, <2>5
  <1> QED  BY <1>3, <1>5, <1>6

\* A manifest that is constructed as a PASS accounts for every assertion of the
\* spec with a PASS that the verifier gave.
LEMMA PassAccountsForAll ==
    ASSUME NEW m, IsOfThisRun(m), ManifestHolds(m), m.outcome = "PASS"
    PROVE  /\ DOMAIN m.results = DOMAIN TheSpec.assertions
           /\ DOMAIN m.results \subseteq DOMAIN results
           /\ \A a \in DOMAIN m.results : m.results[a] = results[a] /\ results[a].verdict = "PASS"
  <1>1. PICK claim, report :
            report.results \subseteq DOMAIN results /\ m = Manifest(claim, report, "counters")
    BY DEF IsOfThisRun
  <1>2. m.declared = DOMAIN TheSpec.assertions /\ m.results = Restrict(results, report.results)
    BY <1>1 DEF Manifest
  <1>3. /\ DOMAIN m.results \subseteq DOMAIN results
        /\ \A a \in DOMAIN m.results : m.results[a] = results[a]
    BY <1>1, <1>2 DEF Restrict
  <1>4. PICK account : account = Account(m)
    OBVIOUS
  <1>5. /\ account.declared = m.declared /\ account.executed = m.executed
        /\ account.verdict = [a \in DOMAIN m.results |-> m.results[a].verdict]
        /\ account.outcome = "PASS"
    BY <1>4, Zenon DEF Account
  <1>6. Recordable(account)
    BY <1>4 DEF ManifestHolds
  <1>7. PassEarned(account) /\ ~IntegrityBroken(account)
    BY <1>5, <1>6 DEF Recordable, HidesViolation, ClaimsIntegrity
  <1>8. account.executed = account.declared /\ DOMAIN account.verdict = account.executed
    BY <1>7 DEF PassEarned, IntegrityBroken
  <1>9. \A a \in DOMAIN account.verdict : account.verdict[a] = "PASS"
    BY <1>7 DEF PassEarned
  <1> QED  BY <1>2, <1>3, <1>5, <1>8, <1>9

LEMMA AcceptedPass ==
    ASSUME IInv
    PROVE  AcceptedPassIsEarned
  <1> SUFFICES ASSUME reading.code = "accepted", NEW s \in stored,
                      s.json.body.outcome = "PASS", s.json.content_hash # {}
               PROVE  /\ SpecRef(Spec_(reading.spec)) = SpecRef(TheSpec)
                      /\ \A a \in DOMAIN TheSpec.assertions :
                            /\ a \in DOMAIN evaluated
                            /\ evaluated[a] = [executor |-> TheSpec.assertions[a].executor,
                                               value |-> TheSpec.assertions[a].expected]
    BY DEF AcceptedPassIsEarned
  <1>1. PICK m, n : m = s.json.body /\ n = s.written
    OBVIOUS
  <1>2. IsOfThisRun(n) /\ ManifestHolds(n)
    BY <1>1 DEF IInv, StoredIsOfThisRun
  <1>3. /\ {"spec_ref", "assertion_set_hash", "outcome", "results"} \subseteq DOMAIN n
        /\ n.spec_ref = SpecRef(TheSpec)
        /\ n.assertion_set_hash = AssertionSetHash(TheSpec)
    <2>1. PICK claim, report : n = Manifest(claim, report, "counters")
      BY <1>2 DEF IsOfThisRun
    <2> QED  BY <2>1 DEF Manifest
  <1>4. Identity(m) = Identity(n)
    BY <1>1, ReadWithHash
  <1>5. /\ m.spec_ref = n.spec_ref /\ m.outcome = n.outcome
        /\ m.assertion_set_hash = n.assertion_set_hash
        /\ DOMAIN m.results = DOMAIN n.results
        /\ \A a \in DOMAIN n.results :
              {"executor", "expected_hash"} \subseteq DOMAIN n.results[a] =>
                  /\ m.results[a].executor = n.results[a].executor
                  /\ m.results[a].expected_hash = n.results[a].expected_hash
    BY <1>3, <1>4, SameIdentity
  <1>6. /\ DOMAIN n.results = DOMAIN TheSpec.assertions
        /\ DOMAIN n.results \subseteq DOMAIN results
        /\ \A a \in DOMAIN n.results : n.results[a] = results[a] /\ results[a].verdict = "PASS"
    BY <1>1, <1>2, <1>5, PassAccountsForAll
  <1>7. ManifestMatches(m, Spec_(reading.spec))
    BY <1>1 DEF IInv, ReadingIsOfTheStored
  <1>8. SpecRef(Spec_(reading.spec)) = SpecRef(TheSpec)
    BY <1>3, <1>5, <1>7 DEF ManifestMatches
  <1>9. TheSpec.assertions = Spec_(reading.spec).assertions
    BY <1>3, <1>5, <1>7 DEF ManifestMatches, AssertionSetHash
  <1>10. ASSUME NEW a \in DOMAIN TheSpec.assertions
         PROVE  /\ a \in DOMAIN evaluated
                /\ evaluated[a] = [executor |-> TheSpec.assertions[a].executor,
                                   value |-> TheSpec.assertions[a].expected]
    <2>1. /\ a \in DOMAIN results /\ a \in DOMAIN evaluated
          /\ {"executor", "expected_hash"} \subseteq DOMAIN results[a]
          /\ evaluated[a] = [executor |-> results[a].executor, value |-> results[a].actual]
          /\ results[a].actual = results[a].expected_hash.expected
      BY <1>6 DEF IInv, ResultsTellEvaluation
    <2>2. /\ a \in DOMAIN m.results
          /\ m.results[a].executor = results[a].executor
          /\ m.results[a].expected_hash = results[a].expected_hash
      BY <1>5, <1>6, <2>1
    <2>3. ResultMatches(m.results[a], TheSpec.assertions[a])
      BY <1>7, <1>9, <2>2 DEF ManifestMatches
    <2>4. /\ results[a].executor = TheSpec.assertions[a].executor
          /\ results[a].expected_hash = ExpectedHash(TheSpec.assertions[a])
      BY <2>2, <2>3 DEF ResultMatches
    <2>5. results[a].actual = TheSpec.assertions[a].expected
      BY <2>1, <2>4 DEF ExpectedHash
    <2> QED  BY <2>1, <2>4, <2>5
  <1> QED  BY <1>6, <1>8, <1>10

-----------------------------------------------------------------------------
\* RepeatsAreAllowed (_guard_recovery_is_safe, permitted_recovery and the typed
\* adapter errors): an action is done twice only in an idempotent step, or where
\* its step or a later one permits a reset or resuming from a checkpoint and ended
\* in an error that asks for it; for every set of specs that hold, and every
\* result an adapter may report.
THEOREM SpecRepeatsAreAllowed == Spec => []RepeatsAreAllowed
  <1>1. IInv => RepeatsAreAllowed
    BY DEF IInv
  <1> QED  BY <1>1, SpecIInv, PTL

\* FaultsStayAsDetected (the detection hash of FaultEvent): whatever a runner
\* hands over afterwards, a fault keeps the detection made before recovery.
THEOREM SpecFaultsStayAsDetected == Spec => []FaultsStayAsDetected
  <1>1. IInv => FaultsStayAsDetected
    BY DEF IInv, FaultInv
  <1> QED  BY <1>1, SpecIInv, PTL

\* KeysTellReplays (idempotency_key_violations): receipts without a violation
\* pair keys and steps one to one.
THEOREM SpecKeysTellReplays == Spec => []KeysTellReplays
  <1>1. IInv => KeysTellReplays
    BY KeysTellReplaysAlways DEF IInv
  <1> QED  BY <1>1, SpecIInv, PTL

\* AcceptedIsAsWritten (from_json over the content hash): what is read back with
\* its hash is what was written.
THEOREM SpecAcceptedIsAsWritten == Spec => []AcceptedIsAsWritten
  <1>1. IInv => AcceptedIsAsWritten
    BY ReadWithHash DEF AcceptedIsAsWritten
  <1> QED  BY <1>1, SpecIInv, PTL

\* AcceptedPassIsEarned (RunManifest.validate, from_json and
\* verify_manifest_against_spec together): the assertions of an accepted PASS
\* were all read as expected, in the run it is a manifest of and for the spec it
\* is held against, whatever results, faults and steps the runner left out.
THEOREM SpecAcceptedPassIsEarned == Spec => []AcceptedPassIsEarned
  <1>1. IInv => AcceptedPassIsEarned
    BY AcceptedPass
  <1> QED  BY <1>1, SpecIInv, PTL
=============================================================================

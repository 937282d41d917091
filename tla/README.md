# A TLA+ model of runtime-contracts

`runtime_contracts` is the shared contract library of a family of runtimes: the
programs an investigation or mission may follow, the ledgers that record what
happened, the security telemetry and its containment, evidence storage,
credentials, decision acquisition and quality assurance.  Most of it is frozen
data classes; what can go wrong is in the parts that keep state, replay
histories or decide who may do what.  This directory holds the specifications of
those parts, the TLC configurations that check them on small instances, and the
theorems that TLAPS proves about them for every instance.

Source paths below are relative to `src/runtime_contracts/`, those of `tests/`,
`golden/` and `docs/` to `src/`.

## 1. Inventory

### Components that keep state, replay it or decide over several steps

| component | state | operations | correct when | modules |
|---|---|---|---|---|
| Containment (`protocol/telemetry.py:322-388`) | five-state machine, `no_override` mark, audit trail | `on_disposition`, `resolve_review`, `recover`, each one or two private `_to` moves that may raise half way | nobody sees it half contained, the trail replays to the state, a seal is never lifted, a refused call moves nothing | `Containment`, `ContainmentContract` |
| Telemetry and correlation (`telemetry.py:69-316`) | the append-only event list of a trajectory | `add`, four projections, `correlate` into a disposition | a denied trajectory never runs again, what earns containment is contained | `SecurityTrajectory`, `Governance` |
| Mission program (`models/mission.py`) | none: an immutable value checked when constructed | `__post_init__`, `permits`, `require` | the construction checks give a life that cannot pass its end | `MissionProgram` |
| Investigation ledger (`models/ledger.py`, `investigation.py`), event streams (`models/events.py`) | stored events by id; the state derived by replay | `submit`, `permitted_by`, `replay_ledger` (strict and audit), `replay_states`, `missing_sequences` | a redelivery never rewrites history, the order of arrival does not matter, a ledger without a gap is a prefix of what happened, what is accepted is a legal life | `Ledger` |
| Causal order (`investigation.py:224-260`, `telemetry.py:167-203`) | the state of one loop | one call | parents first, an error exactly when there is no order | `CausalOrder` |
| Evidence store and projection (`store/`) | a file of lines, one memory per process | `project`, `append`, open, `resolve`, `snapshot`, `changes` | what was acknowledged is answered for, answers stay, the feed skips no instant | `EvidenceProjection`, `EvidenceStore`, `EvidenceContract`, `EvidenceFeed` |
| Credential broker (`secrets_local/broker.py`, `protocol/secrets.py`) | active grants in memory, a counter | `grant` behind `authorize_request`, `redeem`, `renew`, `revoke_grant`, `revoke_mission` | a secret is given out only under a live grant for its mission, capability and tenant | `CredentialBroker` |
| Secret files (`secrets_local/store.py`) | one file per secret | `put` (open with truncation, then write), `rotate`, `revoke`, `_read` | a reader sees a value that was put | `FileSecretStore` |
| Authority chain (`protocol/security.py`, `agent_identity.py`) | none: immutable links named by digests | `narrow`, `verify_chain`, `permits`, the uses of the leaf | authority only narrows along a chain, and still does when it is used | `Delegation` |
| Intelligence acquisition (`protocol/intelligence_registry.py`, `intelligence.py`) | the walk up a ladder of providers | `match`, `decide_acquire`, `gated_acquire`, receipts and result | nothing spent is left out of an account, the ladder climbs for a reason, what leaves respects the need | `Acquisition` |
| Verified intent (`models/intent.py`) | status and content of one record, and its copy in a store | construction, `seal`, staleness, `to_json`, `intent_from_json`, compilation | what says it is sealed is closed, storage is lossless, the hash pins the request | `VerifiedIntent` |
| QA plan (`qa/plan.py`) | lanes, their items and gates | construction guards; run by an external runner | an accepted plan can be run to its end | `QAPlan`, `QABatch` |
| QA integrity (`qa/integrity.py`, `manifest.py`, `outcome.py`) | the accounting of a run, the code that halted a batch | pins, check programs, manifest guards, classification of refusals | PASS is earned, a halted batch stays halted and shows it | `QAManifest`, `QABatch` |
| QA specs, records and faults (`qa/spec.py`, `records.py`, `fault.py`, `conformance.py`, `base.py`) | attempts, receipts, detections, recoveries, a manifest in a store | construction guards, typed errors, recovery candidates, writing, reading and holding against a spec | an action is repeated only where the spec lets it be, faults stay as detected, what a consumer accepts was earned and is what was written | `QASpec`, `QARecords`, `QARun` |
| Context assembly (`models/context.py`, `visibility.py`, `handle.py`, `evidence.py`) | handles, a preview plan, views, published artifacts | `candidate_to_handle`, planning, materialization, citation | nothing private escapes, views of one plan differ only in what they name | `ContextAssembly`, `MissionAction` |
| Gates of an action (`models/capability.py`, `execution_backend.py`, `execution.py`, `protocol/adversarial.py`, `security.py`, `credentials.py`, `edge_execution.py`) | none | `admit`, `validate_evidence` and its six checks, `admit_credentials`, `combine`, `select_execution_target`, `admit_backend`, `binding` | no gate is overridden, what runs is allowed where it runs | `ActionGates`, `MissionAction` |
| Assurance (`protocol/decision_provider.py`, `models/verification.py`, `verification_ladder.py`, `kpi.py`) | none | `validate_decision`, `may_promote`, `is_sufficient`, `judge` | what runs was chosen, what is promoted holds | `Assurance`, `MissionAction` |

### Components without state

`canonical.py` and `protocol/seal.py` are the hashing every identity rests on; in
every model a hash is an injective token, and only `sorted_unique`, which decides
what a plan's hash stands for, is modelled.  Email delivery, the identity graph and
the dataset registries (`protocol/email_delivery.py`, `world/`) are data shapes and
dictionaries whose rules are their callers'.  The remaining data shapes
(`app_manifest.py`, `compliance.py`, `interaction.py`, `geospatial.py`,
`lineage.py`, `topology.py`, `trace.py`) and the command line hold nothing that
changes state.

### How the parts meet

* A capability boundary emits security events; the runtime folds them with
  `correlate` and hands the disposition to `Containment.on_disposition`; people
  call `resolve_review` and `recover`.
* A runtime walks a `MissionProgram` and emits one event per move; queues carry
  the events to a ledger, which asks the program (`permitted_by`) and replays.
* `Containment` and the mission runtime revoke credentials by mission through the
  broker; the broker asks the authority gate and reads the secret store.  The
  authority it is asked with is the leaf of a delegation chain.
* Writers project artifacts and append them as evidence; other processes open the
  same file; consumers follow the change feed with a timestamp as cursor.
* A mission retrieves candidates into a view; a decision provider picks a permitted
  option on it; the gates combine; an envelope is issued for a target, a backend is
  admitted for that envelope and runs it; verifiers and the scorecard close it.
* A QA runner follows a plan, runs specs, and writes manifests that a consumer
  reads later and holds against the spec.

### What is hard

Moves that raise half way; correlation that lags the stream; late, repeated,
lost or altered events; a write that is refused or torn by a death, and the next
writer that appends to it; two processes on one file; cursors that compare
instants; a clock that is set back; ids that start again after a restart; rules of
delegation that are stated twice, on objects anybody may construct; prices that
change between two steps; records that are edited in the store between writing and
reading; answers and envelopes that are late or altered; content that comes back
through a chain of citations; gates of different severity; plan items that collapse
under one key; an action that timed out, or in which the session was lost, and may
have taken effect; guards on a plan that say nothing about its schedule.
`PROJECT.json` lists each at its line, under `hazards`.

## 2. Modules

```
ContainmentContract <--- Containment ---> Governance <--- SecurityTrajectory
MissionProgram ---> Ledger            CausalOrder
EvidenceProjection ---> EvidenceStore ---> EvidenceFeed
                        EvidenceStore ---> EvidenceContract (implements)
FileSecretStore ---> CredentialBroker      Delegation
Acquisition                                VerifiedIntent
QAPlan, QAManifest ---> QABatch
QASpec, QAManifest ---> QARecords ---> QARun
ContextAssembly, ActionGates, Assurance ---> MissionAction
```

The proofs are in eight modules beside them, each of which extends what it is about:
`GovernanceProofs` (Governance, and with it Containment), `HistoryProofs` (Ledger,
CausalOrder, EvidenceFeed), `BrokerProofs`, `DelegationProofs`, `DecisionProofs`
(VerifiedIntent, Acquisition), `QABatchProofs`, `QARunProofs`, and
`MissionActionProofs` (MissionAction, and with it ContextAssembly).

`MC*` modules give the constants their values for TLC.  Operators whose comment
begins with "Mutant" are altered forms of the definition below them; nothing but
the mutation runs uses them.

**Containment.**  A method is a walk through the transition table that stops at
the first missing edge: `To` is `_to`, `Begin` and `End` are the object before and
after the call, and a walk that was refused keeps what it had already assigned.
`no_override` is set before the first move, as in the code.  A call that raises
is a step with `outcome = "refused"`.  `ContainmentContract` is what a caller is
promised: free, held, released at most once, and never released while sealed.

**SecurityTrajectory, Governance.**  A trajectory is the sequence of events; an
event keeps the fields `correlate` reads.  `Reasons` is the list of reasons that
fired and `Correlate` the one of highest rank.  `Governance` composes both:
emission, a `Judge` step (the runtime hook) and people, interleaved freely.
Token counts in `records_read` are taken to be natural numbers.

**MissionProgram.**  `WellFormed` is `__post_init__`, `Permits` is `permits`.
`INVESTIGATION_PROGRAM` is the program of `mission.py:416-475`, transition by
transition.

**Ledger.**  `emitted` is the investigation as it happened, `stored` the ledger in
order of arrival.  `Submit` decides an arrival, `ReplayLedger` is the loop of
`replay_ledger` as a fold in both readings, `ReplayStates` the second reader and
`MissingSequences` the search for gaps in the stream these events form.
`Deliver` hands over any emitted event at any time, so loss, delay, repetition
and reordering are choices of the schedule; `DeliverAltered` brings a changed
body under the same id.  Deciding and storing are one step, because storing is
the caller's and no caller is in the repository.

**CausalOrder.**  Both linearization loops as one machine whose initial states
are all histories within the bounds.  A parent that is not among the events is passed
over, as in the code (`if p in by_id`).  Parents are a set: a parent named twice by
one event is outside the model.

**EvidenceProjection, EvidenceStore, EvidenceFeed.**  `Project` says which attribute
of an artifact becomes its id, its parent and its content; ids and content hashes
are names of one kind, because an envelope without an id is named by its hash.  A
line of the file is the list of documents written to it and whether its newline was
written, so that an append to an unended line lands on that line.  `AppendRow`,
`AppendRefused` and `DieInAppend` are the three ways a call of `append` ends.  `Open`
reads the file once and raises on a line that does not parse.  `memory` is the list of
each process.  The clock does not run backwards here.  `EvidenceFeed` adds a consumer of `changes`.  `EvidenceContract` is
the storage seam: a log that grows by one envelope at a time.

**FileSecretStore, CredentialBroker.**  `put` is two steps, its open and its write,
with a stop in between as a third way on.  A grant object carries what the broker
keeps of it; `active` is the dictionary of the broker, `issued` the objects callers
hold, which outlive the broker.  `redeem` looks an object up by its id alone, as
in the code.  The wall clock may be set to any reading.  Calls to one broker are
not interleaved with each other; puts are.

**Delegation.**  A chain grows by `Narrow`, which refuses to widen, or by `Forge`, a
context somebody constructed with the parent digest he likes.  `Present`,
`VerifyLink` and `Accept` are `verify_chain`, one link at a time.  Under an accepted
chain `Authorize` (`authorize_request`) and `Lease` (`lease_decision`) use the leaf
while the clock goes on.  A limit or expiry that is not set is a value of its own.
An expiry is a text with two readings: `TextRank`, its place in the order of
strings, which delegation compares, and `Instant`, which use compares.

**Acquisition.**  `Start` lowers the need to a request and matches the entitled
providers, cheapest first: `Turn` is the place of a provider in the stable sort of the
registry.  `GateStops`, `CallFinds`, `CallFails` and `Exhausted` are
the turns of the ladder and its ends; `Reprice` and `Withdraw` are the providers'
own.  A provider bills what it likes.  `Aggregate` makes receipts and the result.

**VerifiedIntent.**  An intent is its content and its state.  `Construct` is any
call of the constructor, with any state: `given` remembers that a state other than
DRAFT was passed to it and that no reader has vouched for it since.  `Seal` is `seal`, `Doubt` the runtime that finds a dependency
moved, `Store`, `Edit` and `Restore` the life of the stored record, `Compile` the
Mission side.  `Reading` lists the ways `intent_from_json` ends, in its order.

**QAPlan, QAManifest, QABatch.**  `Accepted` is what the constructor of a plan
lets through; `HasCycle` says what its depth-first walk finds, a set of items of
which each waits for another of the set.  `Recordable` and `HidesViolation` are the
guards of a manifest: the constructor returns, or it raises an integrity error.
`QABatch` follows an accepted plan with a runner that is not in this repository
and hands over any manifest at all, while assertion sets and check programs are
edited or removed.  Each run is `Start` (the pin is loaded), `Evaluate` (the check
programs run) and `Record` (the manifest is constructed); a constructor that
raises for inconsistency leaves the run to be recorded.  Every integrity refusal,
and every code this version does not know, halts the batch; a manifest that owns
up to broken accounting halts it too.

**QASpec, QARecords, QARun.**  `QASpec` holds the guards of steps, targets and
assertions and the successor relation with its approvals; `QARecords` the guards of
receipts, observed values, results, detections, recoveries and fault events, the
typed errors, what a model may hand back as candidates, and how a record is written,
hashed, read and verified.  `QARun` composes them: `FirstAttempt` ends as `Endings`
allows, in any result of the enumeration; a timeout, a crash or a lost session does
not say whether the action took effect, and the errors of `NotCarriedOut` say that it
did not.  `Suppress` gives a fault up; `Recover` tries the step again; `StartOver`
goes back to any earlier step, by a checkpoint or a reset, and `Redo` does the steps
from there.  A runner is assumed to choose the strategy its typed error names
(`RecoveredBy`), among those the step permits.  `Evaluate` is a verifier that may have
been given other assertions; what it reads is trusted.  `Write` hands over any manifest
its constructor accepts: any subset of results and faults, any subset of the steps,
each as it ended or as if it had ended well.  The manifest is edited in the store and
read by a consumer against a version of the spec it chooses, while successors are
published.

**ContextAssembly, ActionGates, Assurance, MissionAction.**  `ContextAssembly` has
candidates, handles, plans, materialized views and what is published citing them.
A view shows every item of its plan, also one that `SortedUnique` leaves out of the
hash.  The planner that authorizes and the materializer are not in the repository;
the events they leave (`models/events.py`) are not modelled, since nothing reads them.
`ActionGates` and `Assurance` are operators: each gate returns a decision, and
`Combine` the most severe with the obligations of all.  `MissionAction` is the life of
one action through them, one phase after the other, with late answers (`Revise`),
envelopes altered before a backend is admitted or after (`Alter`), and verifiers that
err where they are models.  `AdmitRun` binds the envelope it is handed, as
`admit_backend` does.  A result is any verdict, NOT_APPLICABLE included, and any
determinism per check, any completion, and the omissions it must name; a conclusive
verdict of a deterministic check, or of a person, is taken to be right, and whether a
postcondition arises at all is the verifier's to say.  Text is a set of findings, because the
validators' word lists are left out.

## 3. Runs

| run | checks | what it shows | size |
|---|---|---|---|
| `governance` | `NeverHalfContained`, `DeniedNeverRuns`, `ContractHolds`, `DeniedIsContained` | every sequence of calls of the containment object, judged on three events of six shapes, each shape the smallest that moves one reason of `correlate` | seconds |
| `history` | `CompleteLedgerReplays`, `ReadersAgree`, `AcceptedIsLegalLife`, `ConclusionIsLearned` | the default program, five moves, the first two events altered in one of four ways | 3 min |
| | `ParentsFirst`, `RaisesOnlyOnCycle` | all histories of three events over three ids | |
| | `OnlyATornLineLosesRows`, `FeedLosesOnlyTies`, `OpenSeesEverythingAcknowledged`, `AnswersStay`, `LogIsAppendOnly` | two processes, projected artifacts whose ids and hashes collide, two instants, two rows | |
| `broker` | `ReleaseIsCovered`, `DeadNeverRedeems` | one secret, two values, six requests, two grants over two brokers, two readings of the clock | 90 s |
| `delegation` | `NothingWidens`, `NarrowedVerifies`, `UseIsWithinEveryAuthority` | chains of three contexts, made by `narrow` or by hand, used at three instants | 20 s |
| `decision` | `SealedIsClosed`, `RoundTripIsLossless`, `RestoredAsksTheSame` | contents over two dimensions, constructed in every state, any one edit of the store | 50 s |
| | `EverySpendIsAccounted`, `CheapestFirst`, `CallsRespectTheNeed` | three providers, five needs, one change of price or entitlement at any moment | |
| `qa_batch` | `NeverStuck`, `PassIsEarned`, `EveryItemEnds` | every plan of three items in two lanes with gates on up to two of them, one plan for each other way to be refused, any manifest, one edit | 40 s |
| `qa_run` | `RepeatsAreAllowed`, `FaultsStayAsDetected`, `KeysTellReplays`, `AcceptedPassIsEarned`, `AcceptedIsAsWritten` | eleven specs of up to two steps and two assertions, of which the guards refuse four, nine ways an attempt ends, two idempotency keys, one successor, one edit in the store | 100 s |
| `mission_action` | `NothingEscapes`, `SameViewSameBytes`, `NoGateOverridden`, `RanAsChosen`, `RanWhereAllowed`, `PromotedTrulyHolds` | three artifacts over four tenancies, two views, nine deployed capabilities, eleven situations, six places, two backends, four verifiers | 2 min |
| `dangling` | `DanglingRaises` | **fails, as expected**: an event with an absent parent is linearized (below) | seconds |
| `seal` | `OnlySealVerifies` | **fails, as expected**: an intent is constructed as VERIFIED with an open question (below) | seconds |
| `handles` | `EveryHandleSurvives` | **fails, as expected**: of two handles of one plan one does not survive (below) | seconds |
| `qa_run_verify` | `WrittenVerifies` | **fails, as expected**: a manifest with assertion results does not verify as it was written (below) | seconds |

`history` and `decision` join specifications that share no state.  Each behaviour is
about one of them (`part`), and the others stay as they began, so that no state is
paid for twice.

The type invariants (`TypeOK`, `GovTypeOK`) are proved (section 4) and no run repeats
them.

### Bounds, and why they are enough

* `MaxHistory` (4) bounds only how often a review may be parked; the other moves
  cannot loop, so every pair of calls in every state is reached.
* Three events let two reasons of `correlate` fire in either order with a
  correlation before, between and after; a fourth adds only repetition.
* Only the first two events of an investigation are altered on the way
  (`AlteredBelow`): what comes after them is judged against an altered past.  Five moves
  let the default program assign, start, pause or block, resume and
  conclude, so a state occurs twice in a history and a loss can be bridged; with
  four the audit reading never skips a loop.
* Three events over three ids hold a chain, a fork, a join, a cycle of each
  length, two events of one id, a parent that is missing and a tie.
* Two lines are a torn line and what is appended to it; two instants are a past
  one and the present.  Envelopes bring no `known_at` of their own in the run
  (`Supplied` is empty): one stamped in the past does change past snapshots.
* Two grants are the least that share a counter, or an id across a restart; two
  readings of the clock are before and after an expiry, and back.
* `MaxChain` 3 is a root, its child and a grandchild, the least that can widen two
  links apart while every link holds; two expiries and three instants put a use
  before, between and after them.  In the run all texts are in one notation
  (`Expiries`); the module also defines one with an offset, for the disagreement below.
* Three providers give the ladder a failure, a second failure and an end; money from
  0 to 2 has a bill below, at and above every ceiling (0 and 1).  `MaxChanges` is 1:
  a second change before the same call only replaces the first.
* Two dimensions hold each guard of an intent alone and an overlap of two; one edit
  reaches every record that several do, because an edit replaces the whole content.
  Once a record is written nothing new is drafted (`OneStored`): what is at hand is what
  was stored or read back, which is all the properties of the record compare.
* Three items in two lanes hold a cycle through lane order and gates, and an item
  between two others of its lane; two assertions are the least that can be
  partly executed; `MaxEdits` is 1 because edits of different items do not meet.
* Two steps and two keys are the least in which a key can be shared or left out; one
  successor (`MaxVersions` 2) is what a consumer may confuse with the spec that ran.
  The steps are explored through every ending, recovery and resumption; past them only
  runs with at most one further attempt, which did, are followed (`Followed`), because
  assertions and manifests see of the attempts no more than the last of each step.
* Three artifacts are content, what was published from it and what cites that;
  `Budget` 3 with one item of 2 tokens fits one item and not two of them; `MaxViews` 2
  and `MaxHash` 1 are two views of one plan with a change between them.  Plans of three
  items are about one artifact (`AThirdOfOne`), which is where items collapse.

### Fairness

* `Judge` is weakly fair: `correlate` feeds `on_disposition`, "the runtime hook"; no
  fairness is assumed of people or of the boundary.
* `Deliver(i)` is weakly fair: a sender retries until the ledger has the event,
  which is what `submit`'s DUPLICATE is for.  The investigation owes no move and
  no queue owes an alteration.
* The QA runner of a batch is weakly fair as a whole, `Propose` and `\E i : Run(i)`: it
  goes on as long as anything can; no item is favoured and nobody is obliged to edit.
* No other specification states fairness: nobody is obliged to reopen a store, to
  redeem, to delegate, to call a provider, to seal or to act, and no property here says
  that they do.

Runs that do not check for deadlock are those whose subject ends: a batch, a run, an
acquisition, an action, a chain that was refused, a file at its bound, one call of the
causal order.

### Disagreements with the repository's own statements

Four are kept as runs, each a short history that ends where the statement fails:

* `qa_run_verify`.  `verify_stored_hash` is "True when a received record's
  content_hash equals the rcv1 hash of its own identity bytes" (`qa/base.py:522-524`;
  `docs/QA_V1.md` tells consumers to use it).  A `Check` in an assertion result has a
  `detail` that its hash leaves out and `to_json` writes; `strip_non_identity`
  (`qa/base.py:505`) does not take it away.  A manifest with results is therefore not
  verified as it was written.
* `dangling`.  `causal_order` "Raises on a cycle or a dangling parent reference"
  (`investigation.py:235`, and the error text at `:259`).  A parent that is not among the
  events is skipped (`:245`), so its child is a root and the call returns.
  `RaisesOnlyOnCycle` says what the code does instead.
* `seal`.  `seal` is "the only way to reach VERIFIED, and it is a method rather than a
  constructor argument" (`intent.py:551-553`).  The state is an argument of the
  constructor (`:474`), and `tests/test_verified_intent.py:321-329` passes it, with a
  question open.  `SealedIsClosed` is therefore about intents whose state was not given
  to their constructor, or was vouched for by the reader since: `intent_from_json` does
  refuse what says VERIFIED and is open, so such an intent is stored and not read again
  (`RoundTripIsLossless`).
* `handles`.  "Two handles that differ in any canonical field are different handles and
  both survive" (`canonical.py:208-209`).  The items of a plan are collapsed by artifact,
  projection and necessity (`context.py:63-64`, `:116`): of two with different content
  or tenancy the first is hashed, and both are dereferenced.  Views of one hash may then
  have shown different bytes, which is the exception in `SameViewSameBytes`.

The others were met while modelling.  The models do what the code does; no run is
spent on them.

* "DENY contains" (`telemetry.py:350`): on a recovered trajectory a DENY raises and
  contains nothing, because RECOVERED has no edge to CONTAINING (`:339`, `:371`).  The
  trajectory does not run again either way.
* "NO_OVERRIDE is a DENY a human gate cannot lift" (`telemetry.py:70`): DENY outranks
  NO_OVERRIDE (`:315`), so with both reasons the trajectory is not sealed and a
  person may recover it.
* "False once it has concluded" (`ledger.py:111`): a late event with a lower sequence
  number undoes a conclusion that had been derived (`:184`).
* "exactly the sequence order" without parents (`investigation.py:233`): a history
  that repeats a transition collapses in `by_id` and raises (`:240`).
* "reloaded on open" (`file.py:112`): a torn line makes every later open raise
  (`:129`).
* "verify on redeem" (`credentials.py:83`): a secret put again after the grant is
  given out under the old hash; `redeem` compares none (`broker.py:112`).
* "A child may only shorten it" (`security.py:161`): expiries are compared as texts
  (`:213`), so a child that writes its instant with another offset outlasts its parent.
* The comment on corruption (`intent.py:882-886`) names `CorruptIntent`; a field or
  relation that fails its own guard raises `ValueError`, outside the `try`.

Further things a reader of the code may not expect: the sum spent over a ladder may
exceed `max_cost`, each estimate alone may not; `permitted_providers` is not consulted
by `gated_acquire`, and a gate that stops the ladder after money was spent records
`requested=False`; an expansion whose cost is not known counts no tokens, and
`INFEASIBLE_MISSING` is never returned; `validate_decision` compares neither
`response_digest` nor `output_kind` with the request; combining no decisions allows;
a verification result without checks and omissions may promote; a classification that is
not known ranks as public; an empty pin is no pin; `lease_decision` ignores the expiry
of the authority; `verify_chain` compares neither tenant nor depth; a PASS manifest
needs no step result and no fault event (`manifest.py:111-115` looks at those it has),
so it says nothing of the actions; `required_approvals` compares with whichever
`previous` it is given; `_guard_recovery_is_safe` keeps RETRY_SAME from a step that is
not idempotent and no other recovery, so that CHECKPOINT_RESUME and RESET_FIXTURE
repeat a step marked AT_MOST_ONCE (`golden/qa_samples.py:75-77` permits the first);
`may_promote` lets NOT_APPLICABLE and non-deterministic checks pass; `admit_backend`
takes whichever envelope it is handed for the one that was issued; `from_json` refuses a record with an additive field of a newer
writer, which `verify_stored_hash` accepts.

## 4. Proofs

All theorems are checked by TLAPS for every value of the constants that the named
assumptions admit.

* **GovernanceProofs.**  For containment, `IInv` is `TypeOK`, `NeverHalfContained` and
  `HistoryReplays` together.  None is inductive alone: that a containment completes
  rests on the table having an edge from CONTAINING, and that the trail replays rests
  on the walk beginning at its end.  `ToStep` and `ContainStep` carry the argument for
  one and two moves; each action then ends in `EndKeepsIInv`.  From `IInv` follow the
  three invariants, `RefusalMovesNothing`, and `ImplementsContract`, the refinement
  step by step.  For the composition, `GovIInv` adds `DeniedNeverRuns` and
  `SealedForCause`: `ConfinedStays` (no method leads from CONTAINED or RECOVERED back
  to running) and `DeniedIsConfined` give the first, `CorrelateSound` and
  `PrefixFacts` (an appended event leaves judged prefixes alone) the second.
* **HistoryProofs, the ledger.**  `IInv` adds to the type that stored ids are distinct
  and that every stored event is permitted; `PermittedFollowsTransition` derives from
  `WellFormed(Program)` that a permitted event never leaves a terminal state and
  carries the outcome of its transition.  `LifeInv` adds that what is emitted is one
  life of the program, numbered from zero.  The readers are loops, here recursive
  functions of the number of events read; `AlongHistory` is the induction they need, on
  a set of numbers, and `ReplayedTurns` and `StatesTurn` say that each turn follows
  from the one before.  `BySequence` sorts by counting what comes before
  (`PlaceIsARank`, `BySequenceSorts`).  `AuditAcceptsALegalLife` follows one reading,
  `ReadingsAgree` two and three at once (`TwoReadings`, `ThreeReadings`), and
  `CompleteReplayHolds` identifies the sorted ledger with the beginning of what was
  emitted: numbers without a gap from zero are a permutation of their places
  (`GapFree`).  The program is any well-formed one and the alterations are arbitrary.
* **HistoryProofs, the causal order.**  `CountersCount` says of every id that its
  counter is the number of pairs that still hold it back, and that it is ready or
  output exactly when that is zero.  A pop satisfies the links to its id and no other
  (`PopSatisfies`), also where an id is repeated and a counter runs ahead of its
  events.  `ParentsFirst` is part of the invariant.  That the call raises only on a
  cycle is proved both ways: a result of all events is a linear order
  (`ReturnedIsLinear`), and where the loop stops early, the ids left over wait for each
  other, so that the earliest of them in any linear order would wait for nothing
  (`RaisedIsCyclic`).
* **HistoryProofs, the evidence store.**  `StoreInv` says that whatever was
  acknowledged is on some line and that no line is blank; `WrittenTwoWays` (a line of its
  own, or behind what a death left, which tears that line for good) is the one fact about
  the file the rest needs.  `OnlyTearingLoses`, `NoSilentHole` and the refinement
  `FileIsTheLog` follow, for any number of processes.  `KeptMembers` and `KeptOfAppend`
  describe what `snapshot`, `changes` and the constructor select.  `AnswersAreKept`
  has two hypotheses: `Supplied = {}`, that callers leave the stamp to the store,
  without which a past snapshot does change, and `NamesAreTrue`, that an id which is
  the hash of a content is not given to another content, without which a new occurrence
  takes the place of an old content under one reference.  `FeedInv` relates the cursor,
  the file and the reader's memory: while nobody else opened the path, an open reader
  holds every row of the file, and what it holds below the cursor was fed.
  `FeedLosesNoInstant` needs `Supplied = {}` as well: a row stamped in the past is never
  fed.  The run checks both theorems where their hypotheses hold.
* **BrokerProofs.**  `IInv` is `IssueInv`, `StoreInv`, `ReleaseInv` and
  `MaterialIsCurrent`.  `redeem` trusts an id, so safety rests on ids being unique
  among the objects of one broker (`UniqueIds`, kept because the counter only
  grows) and on the dictionary holding no dead one (`ActiveIsAlive`).
  `TTLWithinLimit` is the lifetime rule, zero and unset limits included;
  `RedeemReleases` is the only step that gives anything out; `StoreInv` says that a
  settled file holds what was last put.  The requests, authorities and secrets are
  any sets with fields of the right kind.
* **DelegationProofs.**  The invariant says of the links that `verify_chain` has been
  through that each context is within every one above it; the verified prefix grows
  by a link at a time, and `WithinAuthority` is transitive, the wildcard, constraints
  and unset limits included.  For chains of `narrow` alone every link holds by
  construction of `Child`, which `NarrowedChainsVerify` states for any length.
  `UseStaysWithin` adds the assumption `OneNotation`, that the order of expiry texts
  is the order of their instants; without it the property is false.
* **DecisionProofs, verified intent.**  The invariant relates the object at hand, the
  record and the plan: what says it is sealed and was not constructed so was sealed or
  read under the check of open questions (`SealHolds`, with the history variable
  `given`), and an unedited record is `ToJson` of its original.  Nothing is assumed of
  what constructors are called with.  `HashPinsTheRequest` needs no more than that equal
  canonical forms are equal requests.
* **DecisionProofs, acquisition.**  `AcquisitionInv` is inductive in one piece.  That
  `Match` lists every entitled provider once, cheapest first, is proved of `Turn`:
  providers have different places in the order, so the places are all taken.  The
  calls went down that list, sorted at the prices of the moment of the match, and on
  after failures that are retried (`LadderHolds`); every call carries the lowered need (`RequestsHold`); and a running
  sum of the bills, which each call extends by its own, ends in what was spent
  (`Balanced`).  It assumes that the registry holds a provider once
  (`ProvidersAssumption`: it is a dictionary).
* **QABatchProofs.**  `IInv` adds to the type that a plan at work was accepted
  (`PlanAccepted`), that lanes end in order (`LanesInOrder`), that a run past its
  start worked on frozen content (`WorkedOnFrozen`) and that a halted batch has a
  run which ended without a pass (`HaltedByARun`).  `PassesAreEarned`,
  `GreenBatchesAreIntact` and `HaltingIsFinal` follow from it.  For
  `AcceptedPlansNeverStuck`, a plan without a cycle has, among the items that have
  not ended, one that waits for none of them; `GreatestBelow` and `LanesInOrder`
  turn "its neighbour has ended" into "everything before it in its lane has".  The
  items are any finite set, the plans any set of plans.
* **QARunProofs.**  `IInv` relates the attempts to the effects they had
  (`AttemptsInOrder`: before a step's first attempt its action took no effect, and after
  an attempt that says it was not carried out neither), a run that goes back to the fault
  it goes back for and the recovery its step permits (`RedoneForTheFault`), the faults
  still open to those first detected (`FaultInv`), results to what the verifier read
  (`ResultsTellEvaluation`), the record to the run it was written from
  (`StoredIsOfThisRun`) and a reading to the record (`ReadingIsOfTheStored`).  How
  attempts end is any set of results and effects, crashes and lost sessions with a
  checkpoint to go back to included.  `RepeatsAreAllowed` is kept by `AttemptKeepsRepeats`,
  cited for each kind of attempt.  A hash is kept or taken away by an edit but never fits
  a changed body, so what is accepted with a hash is as written; `AcceptedPass` then
  follows an accepted PASS back through the guards of the manifest to the evaluation of
  every assertion, whatever results, faults and steps the runner left out.
* **MissionActionProofs.**  `Combination` says that the most severe decision governs and
  that it carries every obligation, `GatesDecide` that whatever speaks against an action
  is decided on by a gate, and `GateInv` keeps that through the phases.  `RunInv` says
  that envelopes were issued for the option chosen, and that an admission carries the
  binding of the envelope it was handed (`AdmitBinds`); `BindingPins` (one binding, one
  signature: one envelope) turns the executor's comparison into equality with that one.
  `PlaceInv` and `SelectionIsPermitted` give the target, for an envelope admitted as
  issued, and the isolation.  It assumes that candidates are lists
  (`CandidatesAreLists`).  For the context, `ContextInv` says that citations are
  permitted one link at a time; since `may_be_cited_by` composes (`CitationsCompose`),
  the set of artifacts that may be cited by a viewed one is closed under citing, and
  the origins lie within it however long the chain.  `ViewInv` says that a view shows
  what its own plan grants; `PlanNamesFirsts` that a plan hash names the first item of
  every key, and `ShownUnlessCollapsed` that what one view shows and another of its plan
  does not is of a key with two items, or diverged.  `PromotionInv` says that what was
  promoted holds, but for what was excused, where `RulesDecide`: the requirement asks for
  a deterministic check and for no tier below it, and whoever calls himself deterministic,
  or stands above the models, is a rule or a person.  It assumes that what there is at
  first cites what it may (`BackingAssumption`).

Every safety property and every action property of the passing runs is a theorem.  The
theorems `TrailReplays`, `RefusalMovesNothing`, `SealOnlyForCause`,
`HistoryIsNotRewritten`, `OnlyPermittedIsStored`, `LifeHolds`, `OrderSpecIInv`,
`GrantsGiveTheirOwn`, `ReleasesAreCurrent`, `GreenBatchesAreIntact`, `HaltingIsFinal`,
`FeedIsOfAStore` and the type theorems state formulas that no run repeats: the proof
says more than a run could.

A word on what `CompleteLedgerReplays` says of outcomes: the ledger of a program whose
first state is terminal is complete and empty, and its replay has no outcome; the
property compares with `ConcludedWith`, which is then unset too.

Only model-checked: the liveness properties `DeniedIsContained`, `ConclusionIsLearned`
and `EveryItemEnds`, because fairness and ENABLED are out of the reach of the prover;
and, by a counterexample each, `DanglingRaises`,
`OnlySealVerifies`, `EveryHandleSurvives` and `WrittenVerifies`.  What recursive definitions compute
is proved here only along the loops above; there is no general theorem of sorting or
of sums.

## 5. Not modelled, and why

Component by component in `PROJECT.json`.  Inside the modelled components: hash
computation and canonical forms (tokens), wording of reasons and errors,
redaction, text formats of instants, `scan` and `verify` of the evidence store (pure
filters), file modes and path resolution of the secret store, short writes, several
threads inside one broker, `check_finding_routing` and the verification verdicts of the
ledger, the freshness of intelligence artifacts, recovery ceilings of QA items, the word
lists of the evidence validators, the events of retrieval and dereference, sandbox
receipts and the lineage of a KPI.

Email delivery, the identity graph, the dataset registries and the remaining data
shapes have no rule of their own between two of their steps: what could go wrong is
decided by callers that are not in this repository.  The canonical normal form works on
characters and digits, below the level of these models.

## 6. What is left

All components with a rule of their own between two of their steps are modelled, and
every safety property that is checked is proved.  An abstract specification of a ledger
as a set of facts that only grows, and of a credential as a lease that is granted once
and ends once, would stand next to `ContainmentContract` and `EvidenceContract`, with
`LifeInv` and `UniqueIds` carrying their refinements.

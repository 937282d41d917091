----------------------------- MODULE Acquisition -----------------------------
(***************************************************************************)
(* One decision need resolved through the registry of intelligence         *)
(* providers (runtime_contracts/protocol/intelligence_registry.py,         *)
(* gated_acquire; the records of runtime_contracts/protocol/               *)
(* intelligence.py).                                                       *)
(*                                                                         *)
(* The need is lowered to a request; the entitled providers are matched    *)
(* once, cheapest estimate first; then each is priced again, gated and     *)
(* called, until one answers, a gate stops the ladder or a failure is not  *)
(* to be retried.  Providers are somebody else's: between two steps they   *)
(* change their price or withdraw the entitlement, they may bill what they *)
(* like, and they fail as they like.  The broker around the call           *)
(* (external) keeps a receipt for every call and makes the result of them. *)
(***************************************************************************)
EXTENDS Integers, Sequences, FiniteSets, Functions

CONSTANTS
    Providers,          \* the registered providers of the capability, in order
    Needs,              \* decision needs
    Money,              \* prices and bills, numbers
    Retryable,          \* _RETRYABLE
    Final,              \* the other acquisition failures a provider answers with
    NoFailure,          \* failure that is None
    MaxChanges          \* bound: changes of price or entitlement in a walk

\* The registry is a dictionary: a provider is in it once.
ASSUME ProvidersAssumption ==
    /\ Providers \in Seq(Range(Providers))
    /\ IsInjective(Providers)
ASSUME MoneyAssumption == Money \subseteq Nat /\ 0 \in Money
ASSUME FailuresAssumption ==
    /\ {"no_match"} \subseteq Retryable
    /\ {"not_entitled", "budget_exceeded"} \subseteq Final
    /\ Retryable \cap Final = {} /\ NoFailure \notin Retryable \cup Final
ASSUME NeedsAssumption == \A d \in Needs : d.max_cost \in Nat
ASSUME BoundsAssumption == MaxChanges \in Nat

VARIABLES
    need,
    price,          \* what estimate_cost answers now
    entitled,       \* for whom check_entitlement holds now
    changes,
    phase,          \* "asked", "walking", "done" or "answered"
    matched,        \* the estimates of the match (history)
    candidates,     \* the providers matched, in order
    pos,            \* the candidate to be gated next
    spent,
    lastFailure,
    calls,          \* every call made: provider, request, bill, outcome (history)
    result,         \* AcquisitionResult
    row,            \* EvidenceValueRecord, the row of the value ledger
    answer          \* IntelligenceResult

acquisitionVars == <<need, price, entitled, changes, phase, matched, candidates, pos, spent,
                     lastFailure, calls, result, row, answer>>

walk == <<phase, matched, candidates, pos, spent, lastFailure, calls, result, row, answer>>

None == [ok |-> FALSE, failure |-> NoFailure, cost |-> 0, artifacts |-> {}]

-----------------------------------------------------------------------------
\* An empty text is not set.
Or(text, other) == IF text = "" THEN other ELSE text

\* Mutant: the fields of the need are asked for as they are.
ToEvidenceRequest_AllFields(d) ==
    [capability |-> d.capability, fields |-> d.fields,
     purpose |-> Or(d.purpose, d.objective), max_cost |-> d.max_cost]

\* The need as the request a provider sees.
ToEvidenceRequest(d) ==
    [capability |-> d.capability, fields |-> d.fields \ d.prohibited_fields,
     purpose |-> Or(d.purpose, d.objective), max_cost |-> d.max_cost]

PiiCapabilities == {"person_search", "person_enrichment", "beneficial_ownership"}

\* Mutant: providers are taken as they were registered.
Match_Unsorted == SelectSeq(Providers, LAMBDA p : p \in entitled)

Entitled == {i \in DOMAIN Providers : Providers[i] \in entitled}

Cheaper(i, j) ==
    \/ price[Providers[i]] < price[Providers[j]]
    \/ price[Providers[i]] = price[Providers[j]] /\ i < j

\* Where the i-th provider comes when the entitled ones are sorted.
Turn(i) == Cardinality({j \in Entitled : Cheaper(j, i)}) + 1

\* Entitled providers, cheapest first; equal ones stay in the order of the registry.
Match ==
    [k \in 1..Cardinality(Entitled) |-> Providers[CHOOSE i \in Entitled : Turn(i) = k]]

\* Mutant: the estimate of the match decides.
Gate_MatchedPrice(p) ==
    LET request == ToEvidenceRequest(need) IN
    CASE request.capability \in PiiCapabilities /\ request.purpose = "" -> "purpose"
      [] matched[p] > request.max_cost -> "budget"
      [] ~need.valuable -> "value"
      [] OTHER -> "acquire"

\* decide_acquire, called with entitled = True.
Gate(p) ==
    LET request == ToEvidenceRequest(need) IN
    CASE request.capability \in PiiCapabilities /\ request.purpose = "" -> "purpose"
      [] price[p] > request.max_cost -> "budget"
      [] ~need.valuable -> "value"
      [] OTHER -> "acquire"

\* _record: the row of the ledger.
EvidenceRecord(provider, requested, received, cost) ==
    [provider |-> provider, evidence_requested |-> requested,
     evidence_received |-> received, cost |-> cost]

Found(artifacts, cost) ==
    [ok |-> TRUE, failure |-> NoFailure, cost |-> cost, artifacts |-> artifacts]

Failed(failure, cost) ==
    [ok |-> FALSE, failure |-> failure, cost |-> cost, artifacts |-> {}]

Finish(res, rec) ==
    /\ phase' = "done"
    /\ result' = res
    /\ row' = rec

-----------------------------------------------------------------------------
AcquisitionInit ==
    /\ need \in Needs
    /\ price \in [Range(Providers) -> Money]
    /\ entitled \in SUBSET Range(Providers)
    /\ changes = 0
    /\ phase = "asked"
    /\ matched = price
    /\ candidates = << >>
    /\ pos = 1
    /\ spent = 0
    /\ lastFailure = "no_match"
    /\ calls = << >>
    /\ result = None
    /\ row = EvidenceRecord("", FALSE, FALSE, 0)
    /\ answer = None

\* gated_acquire begins: match, and nothing to do without a candidate.
Start ==
    /\ phase = "asked"
    /\ matched' = price
    /\ candidates' = Match
    /\ IF Match = << >>
       THEN Finish(Failed("not_entitled", 0), EvidenceRecord("", FALSE, FALSE, 0))
       ELSE phase' = "walking" /\ UNCHANGED <<result, row>>
    /\ UNCHANGED <<need, price, entitled, changes, pos, spent, lastFailure, calls, answer>>

\* Mutant: what was spent before the gate stopped is not reported.
GateStops_Free ==
    /\ phase = "walking" /\ pos \in DOMAIN candidates
    /\ Gate(candidates[pos]) # "acquire"
    /\ Finish(Failed("budget_exceeded", 0), EvidenceRecord("", FALSE, FALSE, 0))
    /\ UNCHANGED <<need, price, entitled, changes, matched, candidates, pos, spent,
                   lastFailure, calls, answer>>

\* A gate stops the ladder.  A stop without a failure of its own reports the budget's.
GateStops ==
    /\ phase = "walking" /\ pos \in DOMAIN candidates
    /\ Gate(candidates[pos]) # "acquire"
    /\ Finish(Failed("budget_exceeded", spent), EvidenceRecord("", FALSE, FALSE, spent))
    /\ UNCHANGED <<need, price, entitled, changes, matched, candidates, pos, spent,
                   lastFailure, calls, answer>>

\* The provider at pos is called, and answers with a bill and an end.
Call(bill, end, artifacts) ==
    /\ phase = "walking" /\ pos \in DOMAIN candidates
    /\ Gate(candidates[pos]) = "acquire"
    /\ spent' = spent + bill
    /\ calls' = Append(calls, [provider |-> candidates[pos], bill |-> bill, outcome |-> end,
                               request |-> ToEvidenceRequest(need), artifacts |-> artifacts,
                               estimate |-> price[candidates[pos]]])
    /\ UNCHANGED <<need, price, entitled, changes, matched, candidates, answer>>

\* It found something.
CallFinds(bill) ==
    LET p == candidates[pos] IN
    /\ Call(bill, "found", {p})
    /\ Finish(Found({p}, spent + bill), EvidenceRecord(p, TRUE, TRUE, spent + bill))
    /\ UNCHANGED <<pos, lastFailure>>

\* Mutant: any failure is followed by the next provider.
CallFails_AlwaysRetries(bill, failure) ==
    /\ Call(bill, failure, {})
    /\ lastFailure' = failure
    /\ pos' = pos + 1
    /\ UNCHANGED <<phase, result, row>>

\* It failed, or found nothing, which is a failure too: on to the next, or the end.
CallFails(bill, failure) ==
    /\ Call(bill, failure, {})
    /\ lastFailure' = failure
    /\ IF failure \in Retryable
       THEN pos' = pos + 1 /\ UNCHANGED <<phase, result, row>>
       ELSE /\ Finish(Failed(failure, spent + bill), EvidenceRecord("", TRUE, FALSE, spent + bill))
            /\ UNCHANGED pos

\* The ladder is at its end.
Exhausted ==
    /\ phase = "walking" /\ pos > Len(candidates)
    /\ Finish(Failed(lastFailure, spent), EvidenceRecord("", TRUE, FALSE, spent))
    /\ UNCHANGED <<need, price, entitled, changes, matched, candidates, pos, spent,
                   lastFailure, calls, answer>>

\* ProviderReceipt.for_artifact or for_failure: one for every call.
Receipts ==
    [i \in DOMAIN calls |->
        [provider |-> calls[i].provider, cost |-> calls[i].bill,
         ok |-> calls[i].outcome = "found", artifact_id |-> calls[i].artifacts]]

TotalCost(receipts) ==
    LET sum[n \in 0..Len(receipts)] == IF n = 0 THEN 0 ELSE sum[n - 1] + receipts[n].cost
    IN  sum[Len(receipts)]

\* IntelligenceResult.from_artifacts: lineage of the artifacts, cost of the receipts.
Aggregate ==
    /\ phase = "done"
    /\ phase' = "answered"
    /\ answer' = [evidence_event_ids |-> result.artifacts, provider_receipts |-> Receipts,
                  unresolved_gaps |-> ~result.ok,
                  total_cost |-> TotalCost(Receipts)]
    /\ UNCHANGED <<need, price, entitled, changes, matched, candidates, pos, spent,
                   lastFailure, calls, result, row>>

Reprice(p, money) ==
    /\ phase = "walking" /\ changes < MaxChanges
    /\ changes' = changes + 1
    /\ price' = [price EXCEPT ![p] = money]
    /\ UNCHANGED <<need, entitled, walk>>

Withdraw(p) ==
    /\ phase = "walking" /\ changes < MaxChanges
    /\ changes' = changes + 1
    /\ entitled' = entitled \ {p}
    /\ UNCHANGED <<need, price, walk>>

AcquisitionNext ==
    \/ Start \/ GateStops \/ Exhausted \/ Aggregate
    \/ \E bill \in Money :
          \/ CallFinds(bill)
          \/ \E failure \in Retryable \cup Final : CallFails(bill, failure)
    \/ \E p \in Range(Providers) : Withdraw(p) \/ \E money \in Money : Reprice(p, money)

AcquisitionSpec == AcquisitionInit /\ [][AcquisitionNext]_acquisitionVars

-----------------------------------------------------------------------------
(***************************************************************************)
(* Every call's bill is in every account of the need, whichever way the    *)
(* ladder ended and however many providers failed before: in the result,   *)
(* in the row of the value ledger and in the receipts.  The provider of    *)
(* the row is the one whose artifacts were returned, and nobody when there *)
(* are none.                                                               *)
(***************************************************************************)
EverySpendIsAccounted ==
    /\ phase \in {"done", "answered"} =>
          /\ result.cost = row.cost
          /\ row.evidence_received = (result.artifacts # {})
          /\ result.artifacts # {} => result.artifacts = {row.provider}
    /\ phase = "answered" =>
          /\ answer.total_cost = result.cost
          /\ answer.evidence_event_ids =
                UNION {answer.provider_receipts[i].artifact_id :
                          i \in DOMAIN answer.provider_receipts}

(***************************************************************************)
(* The ladder climbs for a reason: all the calls before the last failed in *)
(* a way that is retried, no provider is called twice, and whoever was     *)
(* estimated cheaper than a called one at the match was called before it.  *)
(***************************************************************************)
CheapestFirst ==
    \A i \in DOMAIN calls :
        /\ i < Len(calls) => calls[i].outcome \in Retryable
        /\ \A q \in Range(candidates) :
              matched[q] < matched[calls[i].provider] =>
                  \E j \in 1..(i - 1) : calls[j].provider = q
        /\ \A j \in 1..(i - 1) : calls[j].provider # calls[i].provider

(***************************************************************************)
(* Whatever reaches a provider respects the need: no prohibited field      *)
(* leaves, a lookup of a person has a purpose, and the price of that       *)
(* moment, not that of the match, was within the ceiling, so providers     *)
(* that bill what they estimate bill a free-only need nothing.             *)
(***************************************************************************)
CallsRespectTheNeed ==
    /\ \A i \in DOMAIN calls :
          /\ calls[i].request.fields \cap need.prohibited_fields = {}
          /\ need.capability \in PiiCapabilities => calls[i].request.purpose # ""
          /\ calls[i].estimate =< need.max_cost
    /\ need.max_cost = 0 /\ (\A i \in DOMAIN calls : calls[i].bill =< calls[i].estimate) =>
          spent = 0

=============================================================================

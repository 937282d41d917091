--------------------------- MODULE VerifiedIntent ---------------------------
(***************************************************************************)
(* The artifact between Discovery and Mission                              *)
(* (runtime_contracts/models/intent.py, VerifiedIntent and                 *)
(* intent_from_json).                                                      *)
(*                                                                         *)
(* Discovery constructs drafts and seals one when nothing that would       *)
(* change the result is open.  The intent is stored, restored, marked      *)
(* stale or invalidated by a runtime whose dependencies moved, and         *)
(* compiled by Mission.  Objects are immutable: what a holder holds is a   *)
(* value, and a change of it is another value.  The store is somebody      *)
(* else's: a record in it may be edited between writing and reading.       *)
(*                                                                         *)
(* Nothing keeps a caller from constructing an intent that says VERIFIED:  *)
(* the constructor takes any state and asks it no question.                *)
(***************************************************************************)
EXTENDS FiniteSets, Sequences, TLC

CONSTANT Contents   \* everything of an intent but its state

VARIABLES
    held,           \* the intent at hand
    given,          \* whether its seal goes back to a constructor's argument (history)
    record,         \* what is in the store, or NoRecord
    outcome,        \* how the last reading of the record ended; "" after another step
    plan            \* what Mission compiled last, or NoPlan

vars == <<held, given, record, outcome, plan>>

States == {"DRAFT", "VERIFIED", "STALE", "INVALIDATED"}
Reasons == {"NOT_ASKED", "USER_DECLINED", "UNRESOLVED_DISAGREEMENT"}

NoRecord == [json |-> "none"]
NoPlan == [compiled_from |-> {}]

-----------------------------------------------------------------------------
\* What __post_init__ of a field, of a relation and of the intent ask for.
FieldsHold(c) == \A d \in DOMAIN c.fields : c.fields[d].contested => c.fields[d].evidence
RelationsHold(c) == \A r \in c.relations : r.members # << >>
NoOverlap(c) == {u.dimension : u \in c.unresolved} \cap DOMAIN c.fields = {}

Constructible(c) == FieldsHold(c) /\ RelationsHold(c) /\ NoOverlap(c)

BlocksExecution(u) == u.reason = "UNRESOLVED_DISAGREEMENT"

Blocking(c) == {u \in c.unresolved : BlocksExecution(u)}

\* Mutant: only a disagreement keeps an intent from being sealed.
Unsealable_BlockingOnly(c) == {u \in c.unresolved : BlocksExecution(u)}

Unsealable(c) == {u \in c.unresolved : u.result_changing \/ BlocksExecution(u)}

\* Mutant: openness that changes the result is no part of the request.
CanonicalForm_SettledOnly(c) ==
    [fields |-> [d \in DOMAIN c.fields |-> [value |-> c.fields[d].value,
                                            author |-> c.fields[d].author]],
     relations |-> c.relations, amendments |-> c.amendments]

\* canonical_form, which intent_hash is the hash of: what was asked, and by whom.
CanonicalForm(c) ==
    [fields |-> [d \in DOMAIN c.fields |-> [value |-> c.fields[d].value,
                                            author |-> c.fields[d].author]],
     relations |-> c.relations, amendments |-> c.amendments,
     unresolved |-> {[dimension |-> u.dimension, reason |-> u.reason] :
                        u \in {v \in c.unresolved :
                                  v.result_changing \/ v.reason # "NOT_ASKED"}}]

\* Mutant: result_changing is not written, and read as True.
ToJson_NoResultChanging(i) ==
    [hash |-> {CanonicalForm(i.content)}, state |-> i.state,
     content |-> [i.content EXCEPT !.unresolved =
                    {[u EXCEPT !.result_changing = TRUE] : u \in i.content.unresolved}]]

\* to_json: the storage form.  A record may lack its hash, so it is a set of at most one.
ToJson(i) == [hash |-> {CanonicalForm(i.content)}, state |-> i.state, content |-> i.content]

\* Mutant: the stored flag is trusted.
Reading_TrustsState(r) ==
    IF ~FieldsHold(r.content) \/ ~RelationsHold(r.content) THEN "ValueError"
    ELSE IF ~NoOverlap(r.content) THEN "CorruptIntent"
    ELSE IF ~(r.hash \subseteq {CanonicalForm(r.content)}) THEN "CorruptIntent"
    ELSE "restored"

\* Mutant: the recorded hash is not compared.
Reading_NoHash(r) ==
    IF ~FieldsHold(r.content) \/ ~RelationsHold(r.content) THEN "ValueError"
    ELSE IF ~NoOverlap(r.content) THEN "CorruptIntent"
    ELSE IF r.state # "DRAFT" /\ Unsealable(r.content) # {} THEN "CorruptIntent"
    ELSE "restored"

\* How intent_from_json ends.  Fields and relations are rebuilt before the try.
Reading(r) ==
    IF ~FieldsHold(r.content) \/ ~RelationsHold(r.content) THEN "ValueError"
    ELSE IF ~NoOverlap(r.content) THEN "CorruptIntent"
    ELSE IF r.state # "DRAFT" /\ Unsealable(r.content) # {} THEN "CorruptIntent"
    ELSE IF ~(r.hash \subseteq {CanonicalForm(r.content)}) THEN "CorruptIntent"
    ELSE "restored"

-----------------------------------------------------------------------------
Init ==
    /\ \E c \in Contents : Constructible(c) /\ held = [content |-> c, state |-> "DRAFT"]
    /\ given = FALSE
    /\ record = NoRecord
    /\ outcome = ""
    /\ plan = NoPlan

\* Somebody constructs an intent, from nothing or with replace, in any state.
Construct(c, s) ==
    /\ Constructible(c)
    /\ held' = [content |-> c, state |-> s]
    /\ given' = (s # "DRAFT")
    /\ outcome' = "" /\ plan' = NoPlan
    /\ UNCHANGED record

\* seal.  It asks for no state: what was stale is sealed again.
Seal ==
    /\ Unsealable(held.content) = {}
    /\ held' = [held EXCEPT !.state = "VERIFIED"]
    /\ given' = FALSE
    /\ outcome' = "" /\ plan' = NoPlan
    /\ UNCHANGED record

\* A runtime finds that a dependency of a sealed intent moved or is gone.
Doubt(s) ==
    /\ held.state \in {"VERIFIED", "STALE"}
    /\ held' = [held EXCEPT !.state = s]
    /\ outcome' = "" /\ plan' = NoPlan
    /\ UNCHANGED <<given, record>>

Store ==
    /\ record' = [json |-> ToJson(held), original |-> held, edited |-> FALSE]
    /\ outcome' = "" /\ plan' = NoPlan
    /\ UNCHANGED <<held, given>>

\* The record is edited; its hash stays, or is dropped.  One edit reaches
\* every record that several do.
Edit(c, s, keepsHash) ==
    /\ record # NoRecord /\ ~record.edited
    /\ record' = [record EXCEPT !.json.content = c, !.json.state = s,
                                !.json.hash = IF keepsHash THEN @ ELSE {},
                                !.edited = TRUE]
    /\ outcome' = "" /\ plan' = NoPlan
    /\ UNCHANGED <<held, given>>

\* intent_from_json.
Restore ==
    /\ record # NoRecord
    /\ outcome' = Reading(record.json)
    /\ held' = IF outcome' = "restored"
               THEN [content |-> record.json.content, state |-> record.json.state]
               ELSE held
    /\ given' = (given /\ outcome' # "restored")
    /\ plan' = NoPlan
    /\ UNCHANGED record

\* Mission runs what is executable in principle, and says what it ran.
Compile ==
    /\ held.state = "VERIFIED" /\ Blocking(held.content) = {}
    /\ plan' = [compiled_from |-> {CanonicalForm(held.content)}, intent |-> held.content]
    /\ outcome' = ""
    /\ UNCHANGED <<held, given, record>>

Next ==
    \/ \E c \in Contents, s \in States : Construct(c, s)
    \/ Seal \/ Store \/ Restore \/ Compile
    \/ \E s \in {"STALE", "INVALIDATED"} : Doubt(s)
    \/ \E c \in Contents, s \in States, keepsHash \in BOOLEAN : Edit(c, s, keepsHash)

Spec == Init /\ [][Next]_vars

-----------------------------------------------------------------------------
(***************************************************************************)
(* An intent whose state was not given to its constructor has nothing open *)
(* that would change the result once it says it was sealed: sealed here,   *)
(* doubted, sealed again, or read from a record that somebody edited or    *)
(* wrote from an intent that was constructed as sealed.  What Mission      *)
(* compiled of such an intent is closed too.                               *)
(***************************************************************************)
SealedIsClosed ==
    ~given =>
        /\ held.state # "DRAFT" =>
              \A u \in held.content.unresolved : ~u.result_changing /\ ~BlocksExecution(u)
        /\ plan # NoPlan => \A u \in plan.intent.unresolved : ~u.result_changing

(***************************************************************************)
(* What was stored and not edited is read back as the same object, so that *)
(* replay from the store is replay of the intent, with the one exception   *)
(* of what should not have been: an intent that was constructed as sealed  *)
(* with something open is written, and is not read again.                  *)
(***************************************************************************)
RoundTripIsLossless ==
    outcome # "" /\ ~record.edited =>
        IF \/ record.original.state = "DRAFT"
           \/ \A u \in record.original.content.unresolved : ~u.result_changing /\ ~BlocksExecution(u)
        THEN outcome = "restored" /\ held = record.original
        ELSE outcome = "CorruptIntent"

(***************************************************************************)
(* A record whose hash was kept is only read as the request that was       *)
(* stored: no value, author, amendment, relation or open dimension was     *)
(* changed, added or settled in the store.                                 *)
(***************************************************************************)
RestoredAsksTheSame ==
    outcome = "restored" /\ record.json.hash # {} =>
        LET a == held.content  b == record.original.content IN
        /\ DOMAIN a.fields = DOMAIN b.fields
        /\ \A d \in DOMAIN a.fields :
              /\ a.fields[d].value = b.fields[d].value
              /\ a.fields[d].author = b.fields[d].author
        /\ a.amendments = b.amendments /\ a.relations = b.relations
        /\ {u.dimension : u \in {v \in a.unresolved : v.result_changing}} \subseteq
              {u.dimension : u \in b.unresolved}
        /\ {u.dimension : u \in {v \in b.unresolved : v.result_changing}} \subseteq
              {u.dimension : u \in a.unresolved}

-----------------------------------------------------------------------------
(***************************************************************************)
(* "This is the only way to reach VERIFIED, and it is a method rather than *)
(* a constructor argument so that the check cannot be skipped by passing   *)
(* the field" (runtime_contracts/models/intent.py:551-553).  The state is  *)
(* a constructor argument, which a test of the repository passes.          *)
(***************************************************************************)
OnlySealVerifies == held.state = "VERIFIED" => Unsealable(held.content) = {}
=============================================================================

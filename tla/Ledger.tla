------------------------------- MODULE Ledger -------------------------------
(***************************************************************************)
(* An investigation, the transition events it emits, and the ledger that   *)
(* receives them (runtime_contracts/models/investigation.py, ledger.py).   *)
(*                                                                         *)
(* The runtime advances the investigation along its pinned program and     *)
(* emits one event per move.  Events travel on retried queues: each may be *)
(* delivered late, in any order, any number of times or never, and a       *)
(* redelivery may carry a changed body under the same id.  The ledger      *)
(* decides every arrival with submit and derives the current state by      *)
(* replaying what it stored.                                               *)
(***************************************************************************)
EXTENDS MissionProgram, Integers, Sequences, SequencesExt

CONSTANTS
    Program,            \* the pinned MissionProgram
    Handover(_),        \* the ownership_change of a transition id
    Altered(_),         \* the changed bodies under which an event may come back
    MaxEvents           \* bound: moves of one investigation

ASSUME ProgramAssumption == WellFormed(Program)
ASSUME MaxEventsAssumption == MaxEvents \in Nat

VARIABLES
    emitted,    \* the events of the investigation, in the order they happened
    stored,     \* the ledger: [event_id, event] in order of arrival
    outcome     \* SubmissionOutcome of the last delivery

vars == <<emitted, stored, outcome>>

SubmissionOutcome == {"ACCEPTED", "DUPLICATE", "CONFLICT", "REFUSED"}

-----------------------------------------------------------------------------

(***************************************************************************)
(* InvestigationTransitionEvent.permitted_by.  The self-transition check    *)
(* of the code is implied by the first conjunct after the pin; leaks is     *)
(* the result of public_leak.                                              *)
(***************************************************************************)
PermittedBy(e, p) ==
    /\ e.program_hash = p.content_hash
    /\ \E t \in Permits(p, e.from_state, e.to_state, e.transition_id) :
          /\ e.to_state \in p.terminal <=> e.terminal_outcome # None
          /\ e.terminal_outcome # None => t.outcome = e.terminal_outcome
    /\ ~e.leaks

\* submit: what becomes of an arriving event, given what is already stored.
Submit(e, id) ==
    IF \E s \in ToSet(stored) : s.event_id = id
    THEN IF \E s \in ToSet(stored) : s.event_id = id /\ s.event = e
         THEN "DUPLICATE" ELSE "CONFLICT"
    ELSE IF PermittedBy(e, Program) THEN "ACCEPTED" ELSE "REFUSED"

-----------------------------------------------------------------------------
\* Mutant: events are replayed in the order they arrived.
BySequence_Arrival(es) == es

(***************************************************************************)
(* replay_ledger.  Sorting by sequence is stable, so equal sequences keep   *)
(* the order of arrival: the k-th event is the one with k - 1 before it.    *)
(***************************************************************************)
Earlier(es, i, j) ==
    \/ es[i].sequence < es[j].sequence
    \/ es[i].sequence = es[j].sequence /\ i < j

Place(es, i) == Cardinality({j \in DOMAIN es : Earlier(es, j, i)}) + 1

BySequence(es) ==
    [k \in DOMAIN es |-> es[CHOOSE i \in DOMAIN es : Place(es, i) = k]]

\* Mutants: two events may share a sequence; an event may start anywhere.
Problem_SharedSequence(r, e) ==
    CASE e.program_hash # Program.content_hash -> "program_mismatch"
      [] r.is_terminal -> "after_the_end"
      [] e.from_state # r.current_state -> "not_contiguous"
      [] ~PermittedBy(e, Program) -> "not_permitted"
      [] OTHER -> "fits"

Problem_FromAnywhere(r, e) ==
    CASE e.sequence \in r.seen -> "duplicate_sequence"
      [] e.program_hash # Program.content_hash -> "program_mismatch"
      [] r.is_terminal -> "after_the_end"
      [] ~PermittedBy(e, Program) -> "not_permitted"
      [] OTHER -> "fits"

\* Why replay_ledger does not take an event, in the order of its checks.
Problem(r, e) ==
    CASE e.sequence \in r.seen -> "duplicate_sequence"
      [] e.program_hash # Program.content_hash -> "program_mismatch"
      [] r.is_terminal -> "after_the_end"
      [] e.from_state # r.current_state -> "not_contiguous"
      [] ~PermittedBy(e, Program) -> "not_permitted"
      [] OTHER -> "fits"

\* Mutant: the loop ends an inquiry and forgets with what.
ReplayStep_NoOutcome(r, e, reading) ==
    IF r.raised THEN r
    ELSE IF Problem(r, e) # "fits"
    THEN [r EXCEPT !.seen = @ \cup {e.sequence},
                   !.problems = @ \cup {Problem(r, e)}, !.raised = reading = "strict"]
    ELSE [r EXCEPT !.seen = @ \cup {e.sequence},
                   !.current_state = e.to_state,
                   !.is_terminal = e.to_state \in Program.terminal,
                   !.accepted = Append(@, e)]

\* One turn of the loop.  A sequence number is used up by the first event that
\* carries it, taken or not.  The strict reading raises on the first problem, the
\* audit reading goes on.
ReplayStep(r, e, reading) ==
    LET problem == Problem(r, e)
        noted == [r EXCEPT !.seen = @ \cup {e.sequence}]
    IN  IF r.raised THEN r
        ELSE IF problem # "fits"
        THEN [noted EXCEPT !.problems = @ \cup {problem}, !.raised = reading = "strict"]
        ELSE [noted EXCEPT
                 !.current_state = e.to_state,
                 !.is_terminal = e.to_state \in Program.terminal,
                 !.outcome = IF e.terminal_outcome # None THEN e.terminal_outcome ELSE @,
                 !.assignment = IF e.ownership # "unchanged" THEN e.ownership ELSE @,
                 !.accepted = Append(@, e)]

ReplayStart ==
    [current_state |-> Program.initial_state, is_terminal |-> FALSE,
     outcome |-> None, assignment |-> None, accepted |-> << >>,
     seen |-> {}, problems |-> {}, raised |-> FALSE]

\* What the loop has derived after each number of events.
Replayed(es, reading) ==
    LET ordered == BySequence(es)
        after[n \in 0..Len(es)] ==
            IF n = 0 THEN ReplayStart ELSE ReplayStep(after[n - 1], ordered[n], reading)
    IN  after

ReplayLedger(es, reading) == Replayed(es, reading)[Len(es)]

\* Mutant: a gap of one event is overlooked.
MissingSequences_LongGaps(es) ==
    LET seqs == {es[i].sequence : i \in DOMAIN es}
    IN  (UNION {Min(seqs)..j : j \in seqs}) \ (seqs \cup {n + 1 : n \in seqs})

(***************************************************************************)
(* missing_sequences of events.py over the stream these events form: each  *)
(* joins it with its own sequence (as_runtime_event).  What is missing is  *)
(* looked for between the first and the last that arrived.                 *)
(***************************************************************************)
MissingSequences(es) ==
    LET seqs == {es[i].sequence : i \in DOMAIN es}
    IN  (UNION {Min(seqs)..j : j \in seqs}) \ seqs

TerminalOutcomeOf(r) == IF r.is_terminal THEN r.outcome ELSE None

\* replay_states of investigation.py, the second reader of a history: all
\* sequences are compared first, then every event must follow.
Follow(r, e) ==
    IF r.raised \/ r.is_terminal \/ e.from_state # r.current_state
                \/ ~PermittedBy(e, Program)
    THEN [r EXCEPT !.raised = TRUE]
    ELSE [r EXCEPT !.current_state = e.to_state,
                   !.is_terminal = e.to_state \in Program.terminal]

StatesAfter(es) ==
    LET ordered == BySequence(es)
        clash == \E i, j \in DOMAIN es : i # j /\ es[i].sequence = es[j].sequence
        after[n \in 0..Len(es)] ==
            IF n = 0 THEN [current_state |-> Program.initial_state,
                           is_terminal |-> FALSE, raised |-> clash]
            ELSE Follow(after[n - 1], ordered[n])
    IN  after

ReplayStates(es) == StatesAfter(es)[Len(es)]

-----------------------------------------------------------------------------
Stored == [i \in DOMAIN stored |-> stored[i].event]

CurrentState == IF emitted = << >> THEN Program.initial_state ELSE Last(emitted).to_state

\* The outcome of the investigation, once it has concluded.
ConcludedWith == IF emitted = << >> THEN None ELSE Last(emitted).terminal_outcome

Init ==
    /\ emitted = << >>
    /\ stored = << >>
    /\ outcome = "ACCEPTED"

\* The runtime takes a move its program permits and emits the event of it.
Advance(t) ==
    /\ Len(emitted) < MaxEvents
    /\ CurrentState \in t.from_states
    /\ emitted' = Append(emitted,
          [transition_id |-> t.transition_id, from_state |-> CurrentState,
           to_state |-> t.to_state, terminal_outcome |-> t.outcome,
           sequence |-> Len(emitted), program_hash |-> Program.content_hash,
           ownership |-> Handover(t.transition_id), leaks |-> FALSE])
    /\ UNCHANGED <<stored, outcome>>

\* An event reaches the ledger under its id; an accepted one is stored.
Arrive(e, id) ==
    /\ outcome' = Submit(e, id)
    /\ stored' = IF outcome' = "ACCEPTED"
                 THEN Append(stored, [event_id |-> id, event |-> e]) ELSE stored
    /\ UNCHANGED emitted

Deliver(i) ==
    /\ i \in DOMAIN emitted
    /\ Arrive(emitted[i], i)

\* A changed body is still an event: one with a negative sequence is never
\* constructed.
DeliverAltered(i) ==
    /\ i \in DOMAIN emitted
    /\ \E e \in Altered(emitted[i]) : e.sequence \in Nat /\ Arrive(e, i)

Next ==
    \/ \E t \in Program.transitions : Advance(t)
    \/ \E i \in 1..MaxEvents : Deliver(i) \/ DeliverAltered(i)

Spec == Init /\ [][Next]_vars

\* The sender retries every event until the ledger has it; nothing obliges the
\* investigation to move or a queue to alter what it carries.
FairSpec == Spec /\ \A i \in 1..MaxEvents : WF_vars(Deliver(i))

-----------------------------------------------------------------------------
Audit == ReplayLedger(Stored, "audit")
Strict == ReplayLedger(Stored, "strict")

\* Every stored body is the one the investigation emitted under that id.
Genuine == \A i \in DOMAIN stored : stored[i].event = emitted[stored[i].event_id]

\* The events an investigation on this program emits.
Event ==
    [transition_id : {t.transition_id : t \in Program.transitions},
     from_state : Program.states, to_state : Program.states,
     terminal_outcome : DOMAIN Program.outcomes \cup {None},
     sequence : Nat, program_hash : {Program.content_hash},
     ownership : {Handover(t.transition_id) : t \in Program.transitions},
     leaks : BOOLEAN]

\* Type invariant of the ledger: it holds emitted events or altered copies.
TypeOK ==
    /\ emitted \in Seq(Event)
    /\ \A i \in DOMAIN stored :
          /\ stored[i].event_id \in DOMAIN emitted
          /\ LET e == emitted[stored[i].event_id]
             IN  stored[i].event \in {e} \cup Altered(e)
    /\ outcome \in SubmissionOutcome

\* An id is stored once and with one body, however often and with whatever
\* body it comes back: a redelivery never rewrites history.
OneBodyPerId ==
    \A i, j \in DOMAIN stored : stored[i].event_id = stored[j].event_id => i = j

\* Nothing enters the ledger that the pinned program does not permit, whoever
\* altered it on the way: no stored event leaves a terminal state, and one that
\* enters a terminal state carries the outcome its transition declares.
StoredIsPermitted ==
    \A i \in DOMAIN stored :
        LET e == stored[i].event
        IN  /\ e.from_state \in Program.states \ Program.terminal
            /\ e.to_state \in Program.terminal => e.terminal_outcome \in DOMAIN Program.outcomes
            /\ \E t \in Program.transitions :
                  /\ e.transition_id = t.transition_id
                  /\ e.terminal_outcome = t.outcome

(***************************************************************************)
(* Order and repetition of the deliveries do not matter, and what is       *)
(* missing is noticed: a ledger that has the first event and in which      *)
(* missing_sequences finds no gap replays strictly to a prefix of the      *)
(* investigation, and to its state and outcome once every event is in.     *)
(***************************************************************************)
CompleteLedgerReplays ==
    /\ Genuine
    /\ stored = << >> \/ \E i \in DOMAIN stored : stored[i].event.sequence = 0
    /\ MissingSequences(Stored) = {}
    => /\ ~Strict.raised
       /\ Strict.accepted = SubSeq(emitted, 1, Len(stored))
       /\ Len(stored) = Len(emitted) =>
             /\ Strict.current_state = CurrentState
             /\ TerminalOutcomeOf(Strict) = ConcludedWith

\* The three readings of one ledger give one answer: replay_states raises when
\* the strict replay_ledger raises, both when the audit reading finds a
\* problem, and otherwise all three end in the same state.
ReadersAgree ==
    LET audit == Audit
        strict == Strict
        states == ReplayStates(Stored)
    IN  /\ strict.raised <=> audit.problems # {}
        /\ states.raised <=> strict.raised
        /\ ~strict.raised =>
              /\ states.current_state = strict.current_state
              /\ states.is_terminal = strict.is_terminal
              /\ audit.accepted = strict.accepted

\* What the audit reading accepts is a legal life of the program, whatever is
\* missing or altered: contiguous permitted moves, the last one alone ending it.
AcceptedIsLegalLife ==
    LET life == Audit.accepted
    IN  \A i \in DOMAIN life :
          /\ PermittedBy(life[i], Program)
          /\ life[i].from_state = IF i = 1 THEN Program.initial_state
                                  ELSE life[i - 1].to_state
          /\ life[i].to_state \in Program.terminal => i = Len(life)

\* However events are delayed and repeated, the ledger comes to derive the
\* outcome an investigation concluded with, unless an altered body got in first.
ConclusionIsLearned ==
    CurrentState \in Program.terminal
        ~> \/ ~Genuine
           \/ TerminalOutcomeOf(Strict) = ConcludedWith
=============================================================================

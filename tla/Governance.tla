----------------------------- MODULE Governance -----------------------------
(***************************************************************************)
(* A governed trajectory: the boundary appends security events, the        *)
(* runtime correlates the trajectory and drives its containment, people    *)
(* resolve reviews and recover (runtime_contracts/protocol/telemetry.py).  *)
(*                                                                         *)
(* Correlation lags emission: any number of events, and any human call,   *)
(* may fall between an event and the correlation that first sees it.      *)
(***************************************************************************)
EXTENDS Containment, SecurityTrajectory

CONSTANTS
    Events,         \* the security events the boundary may emit
    MaxEvents       \* bound: length of the stream

ASSUME EventsAssumption == \A e \in Events : IsSecurityEvent(e)
ASSUME MaxEventsAssumption == MaxEvents \in Nat

VARIABLES
    events,         \* SecurityTrajectory.events
    judged,         \* how many of them the last correlation folded
    verdicts        \* the dispositions handed to the containment so far

govVars == <<events, judged, verdicts>>
allVars == <<vars, govVars>>

-----------------------------------------------------------------------------
GovInit ==
    /\ Init
    /\ events = << >>
    /\ judged = 0
    /\ verdicts = {}

\* SecurityTrajectory.add
Emit(e) ==
    /\ Len(events) < MaxEvents
    /\ events' = Append(events, e)
    /\ UNCHANGED <<vars, judged, verdicts>>

\* Mutant: the runtime correlates only what arrived since the last correlation.
Judge_NewEventsOnly ==
    LET disposition == Correlate(SubSeq(events, judged + 1, Len(events)))
    IN  /\ OnDisposition(disposition)
        /\ judged' = Len(events)
        /\ verdicts' = verdicts \cup {disposition}
        /\ UNCHANGED events

\* Mutant: a verdict on a contained trajectory is counted and never delivered.
Judge_Undelivered ==
    /\ judged' = Len(events)
    /\ verdicts' = verdicts \cup {Correlate(events)}
    /\ UNCHANGED <<vars, events>>

\* containment.on_disposition(correlate(trajectory)[0])
Judge ==
    /\ OnDisposition(Correlate(events))
    /\ judged' = Len(events)
    /\ verdicts' = verdicts \cup {Correlate(events)}
    /\ UNCHANGED events

HumanResolve(approved) ==
    /\ ResolveReview(approved)
    /\ UNCHANGED govVars

HumanRecover ==
    /\ Recover
    /\ UNCHANGED govVars

GovNext ==
    \/ \E e \in Events : Emit(e)
    \/ Judge
    \/ \E approved \in BOOLEAN : HumanResolve(approved)
    \/ HumanRecover

GovSpec == GovInit /\ [][GovNext]_allVars

\* The runtime keeps correlating: telemetry.py calls on_disposition "the
\* runtime hook".  Nothing obliges a person to act or the boundary to emit.
FairGovSpec == GovSpec /\ WF_allVars(Judge)

-----------------------------------------------------------------------------
GovTypeOK ==
    /\ TypeOK
    /\ events \in Seq(Events)
    /\ judged \in 0..Len(events)
    /\ verdicts \subseteq GovernanceDisposition

\* A trajectory once judged DENY or NO_OVERRIDE never runs again: whatever
\* reviews, recoveries and later events follow, it is contained or recovered.
DeniedNeverRuns ==
    verdicts \cap {"DENY", "NO_OVERRIDE"} # {}
        => state \in {"CONTAINED", "RECOVERED"}

\* no_override is set for cause: only a correlation that saw a privilege
\* escalation or a sandbox violation makes a containment irrecoverable.
SealedForCause ==
    no_override => HardTransition(SubSeq(events, 1, judged))

\* Every trajectory that earns containment is contained, unless people let it
\* go first.
DeniedIsContained ==
    (Rank(Correlate(events)) >= 2 /\ state # "RECOVERED")
        ~> state \in {"CONTAINED", "RECOVERED"}
=============================================================================

-------------------------- MODULE GovernanceProofs --------------------------
(***************************************************************************)
(* What Containment guarantees for every length of its audit trail: the   *)
(* type invariant, the atomicity of a containment, the replayable trail,  *)
(* and that it implements ContainmentContract.                             *)
(*                                                                         *)
(* What a governed trajectory guarantees for every set of events, every   *)
(* plan and every threshold: once judged DENY or NO_OVERRIDE it never runs *)
(* again, and it is made irrecoverable only for cause.                     *)
(***************************************************************************)
EXTENDS Governance, TLAPS

\* The walks a method can be on: a position, a trail, a refusal.
Walk == [at : ContainmentState,
         log : Seq(ContainmentState \X ContainmentState),
         refused : BOOLEAN]

\* The trail is a connected walk of table edges from RUNNING to at.
Replays(log, at) ==
    /\ \A i \in 1..Len(log) :
          /\ log[i] \in ContainmentTransitions
          /\ log[i][1] = IF i = 1 THEN "RUNNING" ELSE log[i - 1][2]
    /\ at = IF log = << >> THEN "RUNNING" ELSE log[Len(log)][2]

\* The inductive invariant: the type, no half containment, a replayable trail.
IInv == TypeOK /\ NeverHalfContained /\ HistoryReplays

\* HistoryReplays (the audit/replay trail of Containment.history) says that
\* the trail replays to the state.
LEMMA HistoryReplaysIsReplays == HistoryReplays <=> Replays(history, state)
  BY DEF HistoryReplays, Replays

\* Appending a table edge that leaves the current position keeps the trail
\* replayable (what _to does when it moves).
LEMMA AppendReplays ==
    ASSUME NEW log \in Seq(ContainmentState \X ContainmentState),
           NEW at \in ContainmentState, NEW target \in ContainmentState,
           Replays(log, at), <<at, target>> \in ContainmentTransitions
    PROVE  Replays(Append(log, <<at, target>>), target)
  <1> DEFINE longer == Append(log, <<at, target>>)
  <1>1. /\ longer \in Seq(ContainmentState \X ContainmentState)
        /\ Len(longer) = Len(log) + 1
        /\ longer[Len(longer)] = <<at, target>>
        /\ \A i \in 1..Len(log) : longer[i] = log[i]
        /\ longer # << >>
    OBVIOUS
  <1>2. ASSUME NEW i \in 1..Len(longer)
        PROVE  /\ longer[i] \in ContainmentTransitions
               /\ longer[i][1] = IF i = 1 THEN "RUNNING" ELSE longer[i - 1][2]
    <2>1. CASE i \in 1..Len(log)
      <3>1. i = 1 \/ i - 1 \in 1..Len(log)
        BY <2>1
      <3> QED  BY <1>1, <2>1, <3>1 DEF Replays
    <2>2. CASE i = Len(log) + 1
      <3>1. longer[i] = <<at, target>>
        BY <1>1, <2>2
      <3>2. CASE Len(log) = 0
        <4>1. log = << >>
          BY <3>2
        <4> QED  BY <2>2, <3>1, <3>2, <4>1 DEF Replays
      <3>3. CASE Len(log) > 0
        <4>1. log # << >> /\ i - 1 = Len(log) /\ i - 1 \in 1..Len(log) /\ i # 1
          BY <2>2, <3>3
        <4> QED  BY <1>1, <3>1, <4>1 DEF Replays
      <3> QED  BY <3>2, <3>3
    <2> QED  BY <1>1, <2>1, <2>2
  <1> HIDE DEF longer
  <1>3. Replays(longer, target)
    BY <1>1, <1>2 DEF Replays
  <1> QED  BY <1>3 DEF longer

\* One _to keeps a walk a replayable walk.  A refusal leaves it where it was;
\* otherwise it is at the target.
LEMMA ToStep ==
    ASSUME NEW w \in Walk, NEW target \in ContainmentState, Replays(w.log, w.at)
    PROVE  /\ To(w, target) \in Walk
           /\ Replays(To(w, target).log, To(w, target).at)
           /\ To(w, target).refused => /\ To(w, target).at = w.at
                                       /\ To(w, target).log = w.log
           /\ ~To(w, target).refused => To(w, target).at = target /\ ~w.refused
  <1>1. CASE w.refused \/ target = w.at
    BY <1>1 DEF To, Walk
  <1>2. CASE /\ ~w.refused
             /\ target # w.at
             /\ <<w.at, target>> \in ContainmentTransitions
    <2>1. To(w, target) = [w EXCEPT !.at = target,
                                    !.log = Append(@, <<w.at, target>>)]
      BY <1>2 DEF To
    <2>2. /\ w.log \in Seq(ContainmentState \X ContainmentState)
          /\ w.at \in ContainmentState
      BY DEF Walk
    <2>3. Replays(Append(w.log, <<w.at, target>>), target)
      BY <1>2, <2>2, AppendReplays
    <2>4. Append(w.log, <<w.at, target>>) \in Seq(ContainmentState \X ContainmentState)
      BY <2>2
    <2> QED  BY <1>2, <2>1, <2>3, <2>4 DEF Walk
  <1>3. CASE /\ ~w.refused
             /\ target # w.at
             /\ <<w.at, target>> \notin ContainmentTransitions
    <2>1. To(w, target) = [w EXCEPT !.refused = TRUE]
      BY <1>3 DEF To
    <2> QED  BY <2>1 DEF Walk
  <1> QED  BY <1>1, <1>2, <1>3

\* Containing from any stable state either completes or moves nothing:
\* on_disposition's two _to calls are atomic although nothing locks them.
LEMMA ContainStep ==
    ASSUME NEW w \in Walk, Replays(w.log, w.at), w.at # "CONTAINING"
    PROVE  /\ Contain(w) \in Walk
           /\ Replays(Contain(w).log, Contain(w).at)
           /\ Contain(w).at # "CONTAINING"
           /\ Contain(w).refused => /\ Contain(w).at = w.at
                                    /\ Contain(w).log = w.log
           /\ ~Contain(w).refused =>
                 /\ Contain(w).at = "CONTAINED"
                 /\ w.at \in {"RUNNING", "REVIEW_REQUIRED"}
           /\ Contain(w).refused /\ ~w.refused => w.at \in {"CONTAINED", "RECOVERED"}
  <1> DEFINE v == To(w, "CONTAINING")
  <1>1. /\ v \in Walk
        /\ Replays(v.log, v.at)
        /\ v.refused => v.at = w.at /\ v.log = w.log
        /\ ~v.refused => v.at = "CONTAINING" /\ ~w.refused
    BY ToStep DEF ContainmentState
  <1>2. CASE v.refused
    <2>1. Contain(w) = v
      BY <1>2 DEF Contain, To
    <2>2. ~w.refused => w.at \in {"CONTAINED", "RECOVERED"}
      BY <1>2 DEF To, ContainmentTransitions, Walk, ContainmentState
    <2> QED  BY <1>1, <1>2, <2>1, <2>2
  <1>3. CASE ~v.refused
    <2>1. w.at \in {"RUNNING", "REVIEW_REQUIRED"}
      BY <1>1, <1>3 DEF To, ContainmentTransitions, Walk, ContainmentState
    <2>2. <<v.at, "CONTAINED">> \in ContainmentTransitions
      BY <1>1, <1>3 DEF ContainmentTransitions
    <2>3. /\ To(v, "CONTAINED") \in Walk
          /\ Replays(To(v, "CONTAINED").log, To(v, "CONTAINED").at)
          /\ To(v, "CONTAINED").at = "CONTAINED"
          /\ ~To(v, "CONTAINED").refused
      <3>1. ~To(v, "CONTAINED").refused
        BY <1>1, <1>3, <2>2 DEF To, Walk
      <3> QED  BY <1>1, <3>1, ToStep DEF ContainmentState
    <2> QED  BY <2>1, <2>3 DEF Contain
  <1> QED  BY <1>2, <1>3

\* Under the invariant, the object is a walk that replays.
LEMMA BeginIsWalk ==
    ASSUME IInv
    PROVE  /\ Begin \in Walk
           /\ Replays(Begin.log, Begin.at)
           /\ Begin.at = state /\ Begin.log = history /\ ~Begin.refused
           /\ Begin.at # "CONTAINING"
  BY HistoryReplaysIsReplays DEF IInv, TypeOK, NeverHalfContained, Begin, Walk

\* Ending on a replayable walk that is not half contained restores IInv.
LEMMA EndKeepsIInv ==
    ASSUME NEW w \in Walk, Replays(w.log, w.at), w.at # "CONTAINING", End(w),
           no_override' \in BOOLEAN
    PROVE  IInv'
  <1>1. TypeOK'
    BY DEF End, TypeOK, Walk
  <1>2. NeverHalfContained'
    BY DEF End, NeverHalfContained
  <1>3. Replays(history', state')
    BY DEF End
  <1>4. HistoryReplays'
    BY <1>3 DEF HistoryReplays, Replays
  <1> QED  BY <1>1, <1>2, <1>4 DEF IInv

LEMMA InitIInv == Init => IInv
  <1> SUFFICES ASSUME Init  PROVE IInv
    OBVIOUS
  <1>0. << >> \in Seq(ContainmentState \X ContainmentState)
    OBVIOUS
  <1>1. TypeOK /\ NeverHalfContained
    BY <1>0 DEF Init, TypeOK, NeverHalfContained, ContainmentState
  <1>2. Replays(history, state)
    BY DEF Init, Replays
  <1> QED  BY <1>1, <1>2, HistoryReplaysIsReplays DEF IInv

\* One step per method, one case per way it can end.
LEMMA NextIInv == IInv /\ [Next]_vars => IInv'
  <1> SUFFICES ASSUME IInv, [Next]_vars  PROVE IInv'
    OBVIOUS
  <1> USE DEF ContainmentState
  <1>0. no_override \in BOOLEAN /\ state \in ContainmentState
    BY DEF IInv, TypeOK
  <1>1. ASSUME NEW disposition \in GovernanceDisposition, OnDisposition(disposition)
        PROVE  IInv'
    <2>1. CASE disposition = "ALLOW"
      BY <1>1, <2>1 DEF OnDisposition, IInv, TypeOK, NeverHalfContained, HistoryReplays
    <2>2. CASE disposition = "REQUIRE_REVIEW"
      BY <1>0, <1>1, <2>2, BeginIsWalk, ToStep, EndKeepsIInv DEF OnDisposition
    <2>3. CASE disposition \in {"DENY", "NO_OVERRIDE"}
      BY <1>0, <1>1, <2>3, BeginIsWalk, ContainStep, EndKeepsIInv DEF OnDisposition
    <2> QED  BY <2>1, <2>2, <2>3 DEF GovernanceDisposition
  <1>2. ASSUME Refuse  PROVE IInv'
    BY <1>2 DEF Refuse, IInv, TypeOK, NeverHalfContained, HistoryReplays
  <1>3. ASSUME NEW approved \in BOOLEAN, ResolveReview(approved)
        PROVE  IInv'
    <2>1. CASE approved /\ state = "REVIEW_REQUIRED"
      BY <1>0, <1>3, <2>1, BeginIsWalk, ToStep, EndKeepsIInv DEF ResolveReview
    <2>2. CASE ~approved /\ state = "REVIEW_REQUIRED"
      BY <1>0, <1>3, <2>2, BeginIsWalk, ContainStep, EndKeepsIInv DEF ResolveReview
    <2> QED  BY <1>2, <1>3, <2>1, <2>2 DEF ResolveReview
  <1>4. ASSUME Recover  PROVE IInv'
    BY <1>0, <1>2, <1>4, BeginIsWalk, ToStep, EndKeepsIInv DEF Recover
  <1>5. CASE UNCHANGED vars
    BY <1>5 DEF vars, IInv, TypeOK, NeverHalfContained, HistoryReplays
  <1> QED  BY <1>1, <1>3, <1>4, <1>5 DEF Next

THEOREM InvariantHolds == Spec => []IInv
  BY InitIInv, NextIInv, PTL DEF Spec

\* The type invariant of the object, for every bound.
THEOREM TypeCorrect == Spec => []TypeOK
  BY InvariantHolds, PTL DEF IInv

\* No caller observes CONTAINING: a containment completes or does not start.
THEOREM ContainmentIsAtomic == Spec => []NeverHalfContained
  BY InvariantHolds, PTL DEF IInv

\* The audit trail always replays to the current state.
THEOREM TrailReplays == Spec => []HistoryReplays
  BY InvariantHolds, PTL DEF IInv

-----------------------------------------------------------------------------
\* A call that ContainmentRefused ended has moved nothing and logged nothing.
THEOREM RefusalMovesNothing == Spec => RefusedCallMovesNothing
  <1>1. IInv /\ [Next]_vars
          => [outcome' = "refused" => UNCHANGED <<state, history>>]_vars
    <2> SUFFICES ASSUME IInv, Next, outcome' = "refused"
                 PROVE  UNCHANGED <<state, history>>
      BY DEF vars
    <2> USE DEF ContainmentState
    <2>0. /\ Begin \in Walk /\ Replays(Begin.log, Begin.at)
          /\ Begin.at = state /\ Begin.log = history /\ Begin.at # "CONTAINING"
      BY BeginIsWalk
    <2>1. ASSUME NEW target \in ContainmentState, End(To(Begin, target))
          PROVE  UNCHANGED <<state, history>>
      BY <2>0, <2>1, ToStep DEF End
    <2>2. ASSUME End(Contain(Begin))
          PROVE  UNCHANGED <<state, history>>
      BY <2>0, <2>2, ContainStep DEF End
    <2> QED  BY <2>1, <2>2 DEF Next, OnDisposition, ResolveReview, Recover, Refuse
  <1> QED  BY <1>1, InvariantHolds, PTL DEF Spec, RefusedCallMovesNothing

\* Every method is a step of the contract or changes nothing it can see: a
\* held trajectory is let go only by recover, once, and never when sealed.
THEOREM ImplementsContract == Spec => ContractHolds
  <1>1. Init => Contract!Init
    BY DEF Init, Contract!Init, Posture
  <1>2. IInv /\ [Next]_vars => [Contract!Next]_(Contract!vars)
    <2> SUFFICES ASSUME IInv, [Next]_vars
                 PROVE  [Contract!Next]_(Contract!vars)
      OBVIOUS
    <2> USE DEF ContainmentState
    <2>0. /\ Begin \in Walk /\ Replays(Begin.log, Begin.at)
          /\ Begin.at = state /\ Begin.log = history /\ Begin.at # "CONTAINING"
          /\ ~Begin.refused
          /\ state \in ContainmentState /\ no_override \in BOOLEAN
      BY BeginIsWalk DEF IInv, TypeOK
    <2>1. ASSUME End(Contain(Begin)), no_override' \in {no_override, TRUE}
          PROVE  [Contract!Next]_(Contract!vars)
      <3>1. CASE Contain(Begin).refused
        <4>1. state' = state
          BY <2>0, <2>1, <3>1, ContainStep DEF End
        <4>2. Posture' = Posture
          BY <4>1 DEF Posture
        <4> QED  BY <2>0, <2>1, <4>2 DEF Contract!Next, Contract!Seal, Contract!vars
      <3>2. CASE ~Contain(Begin).refused
        <4>1. state' = "CONTAINED" /\ state \in {"RUNNING", "REVIEW_REQUIRED"}
          BY <2>0, <2>1, <3>2, ContainStep DEF End
        <4>2. Posture = "free" /\ Posture' = "held"
          BY <4>1 DEF Posture
        <4> QED  BY <2>1, <4>2 DEF Contract!Next, Contract!Hold
      <3> QED  BY <3>1, <3>2
    <2>2. ASSUME Refuse
          PROVE  [Contract!Next]_(Contract!vars)
      BY <2>2 DEF Refuse, Contract!vars, Posture
    <2>3. ASSUME NEW target \in {"REVIEW_REQUIRED", "RUNNING"}, no_override' = no_override,
                 End(To(Begin, target)), target = "RUNNING" => state = "REVIEW_REQUIRED"
          PROVE  [Contract!Next]_(Contract!vars)
      <3>1. state' = state \/ (/\ state \in {"RUNNING", "REVIEW_REQUIRED"}
                               /\ state' \in {"RUNNING", "REVIEW_REQUIRED"})
        BY <2>0, <2>3 DEF End, To, ContainmentTransitions
      <3>2. Posture' = Posture
        BY <3>1 DEF Posture
      <3> QED  BY <2>3, <3>2 DEF Contract!vars
    <2>4. ASSUME NEW disposition \in GovernanceDisposition, OnDisposition(disposition)
          PROVE  [Contract!Next]_(Contract!vars)
      <3>1. CASE disposition = "ALLOW"
        BY <2>4, <3>1 DEF OnDisposition, Contract!vars, Posture
      <3>2. CASE disposition = "REQUIRE_REVIEW"
        BY <2>3, <2>4, <3>2 DEF OnDisposition
      <3>3. CASE disposition \in {"DENY", "NO_OVERRIDE"}
        BY <2>0, <2>1, <2>4, <3>3 DEF OnDisposition
      <3> QED  BY <3>1, <3>2, <3>3 DEF GovernanceDisposition
    <2>5. ASSUME NEW approved \in BOOLEAN, ResolveReview(approved)
          PROVE  [Contract!Next]_(Contract!vars)
      <3>1. CASE approved /\ state = "REVIEW_REQUIRED"
        BY <2>3, <2>5, <3>1 DEF ResolveReview
      <3>2. CASE ~approved /\ state = "REVIEW_REQUIRED"
        BY <2>0, <2>1, <2>5, <3>2 DEF ResolveReview
      <3> QED  BY <2>2, <2>5, <3>1, <3>2 DEF ResolveReview
    <2>6. ASSUME Recover, ~no_override
          PROVE  [Contract!Next]_(Contract!vars)
      <3>1. state' = state \/ (state = "CONTAINED" /\ state' = "RECOVERED")
        BY <2>0, <2>6 DEF Recover, End, To, ContainmentTransitions
      <3>2. no_override' = no_override
        BY <2>6 DEF Recover
      <3>3. CASE state' = state
        BY <3>2, <3>3 DEF Contract!vars, Posture
      <3>4. CASE state = "CONTAINED" /\ state' = "RECOVERED"
        <4>1. Posture = "held" /\ Posture' = "released"
          BY <3>4 DEF Posture
        <4> QED  BY <2>6, <3>2, <4>1 DEF Contract!Next, Contract!Release
      <3> QED  BY <3>1, <3>3, <3>4
    <2>7. CASE UNCHANGED vars
      BY <2>7 DEF vars, Contract!vars, Posture
    <2> QED  BY <2>2, <2>4, <2>5, <2>6, <2>7 DEF Next, Recover
  <1> QED  BY <1>1, <1>2, InvariantHolds, PTL DEF Spec, ContractHolds, Contract!Spec

-----------------------------------------------------------------------------
\* correlate always returns a disposition, and NO_OVERRIDE only when a hard
\* transition is in the trajectory.
LEMMA CorrelateSound ==
    ASSUME NEW traj
    PROVE  /\ Correlate(traj) \in GovernanceDisposition
           /\ Correlate(traj) = "NO_OVERRIDE" => HardTransition(traj)
  <1>1. Reasons(traj) \subseteq {"NO_OVERRIDE", "REQUIRE_REVIEW", "DENY"}
    BY DEF Reasons
  <1>2. "NO_OVERRIDE" \in Reasons(traj) => HardTransition(traj)
    BY DEF Reasons
  <1>3. CASE Reasons(traj) = {}
    BY <1>3 DEF Correlate, GovernanceDisposition
  <1>4. CASE Reasons(traj) # {}
    <2> DEFINE Worst(d) == \A r \in Reasons(traj) : Rank(r) =< Rank(d)
    <2>1. /\ Rank("REQUIRE_REVIEW") = 1
          /\ Rank("NO_OVERRIDE") = 2
          /\ Rank("DENY") = 3
      BY DEF Rank
    <2>2. \E d \in Reasons(traj) : Worst(d)
      <3>1. CASE "DENY" \in Reasons(traj)
        BY <1>1, <2>1, <3>1
      <3>2. CASE "DENY" \notin Reasons(traj) /\ "NO_OVERRIDE" \in Reasons(traj)
        BY <1>1, <2>1, <3>2
      <3>3. CASE Reasons(traj) = {"REQUIRE_REVIEW"}
        BY <2>1, <3>3
      <3> QED  BY <1>1, <1>4, <3>1, <3>2, <3>3
    <2> HIDE DEF Worst
    <2>3. Correlate(traj) = CHOOSE d \in Reasons(traj) : Worst(d)
      BY <1>4 DEF Correlate, Worst
    <2>4. Correlate(traj) \in Reasons(traj)
      BY <2>2, <2>3
    <2> QED  BY <1>1, <1>2, <2>4 DEF GovernanceDisposition
  <1> QED  BY <1>3, <1>4

\* A prefix of a longer stream has no more hard transitions than the stream,
\* and appending to a stream leaves its prefixes alone.
LEMMA PrefixFacts ==
    ASSUME NEW traj \in Seq(Events), NEW n \in 0..Len(traj)
    PROVE  /\ HardTransition(SubSeq(traj, 1, n)) => HardTransition(traj)
           /\ SubSeq(traj, 1, Len(traj)) = traj
           /\ \A e \in Events : SubSeq(Append(traj, e), 1, n) = SubSeq(traj, 1, n)
  <1>1. HardTransition(SubSeq(traj, 1, n)) => HardTransition(traj)
    BY DEF HardTransition, ToSet
  <1> QED  BY <1>1

-----------------------------------------------------------------------------
\* The inductive invariant.  DeniedNeverRuns needs the object's invariant:
\* without NeverHalfContained a refused DENY could find a trajectory that is
\* neither contained nor free.
GovIInv == IInv /\ GovTypeOK /\ DeniedNeverRuns /\ SealedForCause

\* No method brings a contained or recovered trajectory back to running.
LEMMA ConfinedStays ==
    ASSUME IInv, Next, state \in {"CONTAINED", "RECOVERED"}
    PROVE  state' \in {"CONTAINED", "RECOVERED"}
  <1> USE DEF ContainmentState
  <1>0. /\ Begin \in Walk /\ Replays(Begin.log, Begin.at) /\ ~Begin.refused
        /\ Begin.at = state /\ Begin.at # "CONTAINING"
    BY BeginIsWalk
  <1>1. ASSUME End(Contain(Begin))
        PROVE  state' \in {"CONTAINED", "RECOVERED"}
    BY <1>0, <1>1, ContainStep DEF End
  <1>2. ASSUME End(To(Begin, "REVIEW_REQUIRED"))
        PROVE  state' \in {"CONTAINED", "RECOVERED"}
    BY <1>0, <1>2 DEF End, To, ContainmentTransitions
  <1>3. ASSUME Recover
        PROVE  state' \in {"CONTAINED", "RECOVERED"}
    BY <1>0, <1>3 DEF Recover, Refuse, End, To, ContainmentTransitions
  <1> QED  BY <1>1, <1>2, <1>3 DEF Next, OnDisposition, ResolveReview, Refuse

\* A DENY or NO_OVERRIDE leaves the trajectory contained or recovered, whether
\* on_disposition returns or raises.
LEMMA DeniedIsConfined ==
    ASSUME IInv, NEW disposition \in {"DENY", "NO_OVERRIDE"}, OnDisposition(disposition)
    PROVE  state' \in {"CONTAINED", "RECOVERED"}
  <1>1. End(Contain(Begin))
    BY DEF OnDisposition
  <1>2. /\ Begin \in Walk /\ Replays(Begin.log, Begin.at) /\ ~Begin.refused
        /\ Begin.at = state /\ Begin.at # "CONTAINING"
    BY BeginIsWalk
  <1> QED  BY <1>1, <1>2, ContainStep DEF End

LEMMA GovInitIInv == GovInit => GovIInv
  <1> SUFFICES ASSUME GovInit  PROVE GovIInv
    OBVIOUS
  <1>1. IInv
    BY InitIInv DEF GovInit
  <1>2. events \in Seq(Events) /\ judged \in 0..Len(events)
    BY DEF GovInit
  <1> QED  BY <1>1, <1>2 DEF GovInit, Init, GovIInv, GovTypeOK, DeniedNeverRuns,
                             SealedForCause, IInv

\* One step per action.
LEMMA GovNextIInv == GovIInv /\ [GovNext]_allVars => GovIInv'
  <1> SUFFICES ASSUME GovIInv, [GovNext]_allVars  PROVE GovIInv'
    OBVIOUS
  <1>0. /\ IInv /\ TypeOK /\ DeniedNeverRuns /\ SealedForCause
        /\ events \in Seq(Events) /\ judged \in 0..Len(events)
        /\ verdicts \subseteq GovernanceDisposition
    BY DEF GovIInv, GovTypeOK
  <1>1. ASSUME NEW e \in Events, Emit(e)  PROVE GovIInv'
    <2>1. IInv'
      BY <1>0, <1>1, NextIInv DEF Emit
    <2>2. GovTypeOK'
      BY <1>0, <1>1, <2>1 DEF Emit, GovTypeOK, IInv
    <2>3. SealedForCause'
      <3>1. /\ events' = Append(events, e)
            /\ judged' = judged /\ no_override' = no_override
        BY <1>1 DEF Emit, vars
      <3>2. SubSeq(Append(events, e), 1, judged) = SubSeq(events, 1, judged)
        BY <1>0, PrefixFacts
      <3> QED  BY <1>0, <3>1, <3>2 DEF SealedForCause
    <2> QED  BY <1>0, <1>1, <2>1, <2>2, <2>3 DEF Emit, GovIInv, DeniedNeverRuns, vars
  <1>2. ASSUME Judge  PROVE GovIInv'
    <2> DEFINE d == Correlate(events)
    <2>1. d \in GovernanceDisposition /\ (d = "NO_OVERRIDE" => HardTransition(events))
      BY CorrelateSound
    <2> HIDE DEF d
    <2>2. /\ OnDisposition(d) /\ judged' = Len(events)
          /\ verdicts' = verdicts \cup {d} /\ events' = events
      BY <1>2 DEF Judge, d
    <2>3. Next
      BY <2>1, <2>2 DEF Next
    <2>4. IInv'
      BY <1>0, <2>3, NextIInv
    <2>5. GovTypeOK'
      BY <1>0, <2>1, <2>2, <2>4 DEF GovTypeOK, IInv
    <2>6. DeniedNeverRuns'
      <3>1. CASE d \in {"DENY", "NO_OVERRIDE"}
        BY <1>0, <2>2, <3>1, DeniedIsConfined DEF DeniedNeverRuns
      <3>2. CASE d \notin {"DENY", "NO_OVERRIDE"}
        BY <1>0, <2>2, <2>3, <3>2, ConfinedStays DEF DeniedNeverRuns
      <3> QED  BY <3>1, <3>2
    <2>7. SealedForCause'
      <3>1. no_override' => HardTransition(events)
        <4>1. no_override' => no_override \/ d = "NO_OVERRIDE"
          BY <2>2 DEF OnDisposition
        <4> QED  BY <1>0, <2>1, <4>1, PrefixFacts DEF SealedForCause
      <3>2. SubSeq(events, 1, Len(events)) = events
        BY <1>0, PrefixFacts
      <3> QED  BY <2>2, <3>1, <3>2 DEF SealedForCause
    <2> QED  BY <2>4, <2>5, <2>6, <2>7 DEF GovIInv
  <1>3. ASSUME Next, UNCHANGED govVars, no_override' = no_override  PROVE GovIInv'
    <2>1. IInv'
      BY <1>0, <1>3, NextIInv
    <2>2. GovTypeOK' /\ SealedForCause'
      BY <1>0, <1>3, <2>1 DEF govVars, GovTypeOK, SealedForCause, IInv
    <2>3. DeniedNeverRuns'
      BY <1>0, <1>3, ConfinedStays DEF govVars, DeniedNeverRuns
    <2> QED  BY <2>1, <2>2, <2>3 DEF GovIInv
  <1>4. ASSUME NEW approved \in BOOLEAN, HumanResolve(approved)  PROVE GovIInv'
    BY <1>3, <1>4 DEF HumanResolve, ResolveReview, Refuse, Next
  <1>5. ASSUME HumanRecover  PROVE GovIInv'
    BY <1>3, <1>5 DEF HumanRecover, Recover, Refuse, Next
  <1>6. CASE UNCHANGED allVars
    <2>1. IInv'
      BY <1>0, <1>6, NextIInv DEF allVars
    <2> QED  BY <1>0, <1>6, <2>1 DEF allVars, vars, govVars, GovIInv, GovTypeOK,
                                     IInv, DeniedNeverRuns, SealedForCause
  <1> QED  BY <1>1, <1>2, <1>4, <1>5, <1>6 DEF GovNext

THEOREM GovInvariantHolds == GovSpec => []GovIInv
  BY GovInitIInv, GovNextIInv, PTL DEF GovSpec

\* The type invariant of the governed trajectory.
THEOREM GovTypeCorrect == GovSpec => []GovTypeOK
  BY GovInvariantHolds, PTL DEF GovIInv

\* Once judged DENY or NO_OVERRIDE a trajectory never runs again.
THEOREM DeniedTrajectoryNeverRuns == GovSpec => []DeniedNeverRuns
  BY GovInvariantHolds, PTL DEF GovIInv

\* no_override is only ever set after a correlation saw a hard transition.
THEOREM SealOnlyForCause == GovSpec => []SealedForCause
  BY GovInvariantHolds, PTL DEF GovIInv
=============================================================================

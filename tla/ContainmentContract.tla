------------------------ MODULE ContainmentContract ------------------------
(***************************************************************************)
(* What trajectory containment promises its caller, without the five      *)
(* states and the transition table that deliver it                         *)
(* (runtime_contracts/protocol/telemetry.py, Containment).                 *)
(*                                                                         *)
(* A trajectory is free until it is held.  A seal may be set at any time  *)
(* and is never lifted.  A held trajectory is let go at most once, and    *)
(* never while it is sealed.                                               *)
(***************************************************************************)
VARIABLES
    posture,    \* "free", "held" or "released"
    sealed      \* a NO_OVERRIDE disposition was seen

vars == <<posture, sealed>>

Init == posture = "free" /\ sealed = FALSE

Hold ==
    /\ posture = "free"
    /\ posture' = "held"
    /\ sealed' \in {sealed, TRUE}

Seal ==
    /\ sealed' = TRUE
    /\ UNCHANGED posture

Release ==
    /\ posture = "held"
    /\ ~sealed
    /\ posture' = "released"
    /\ UNCHANGED sealed

Next == Hold \/ Seal \/ Release

Spec == Init /\ [][Next]_vars
=============================================================================

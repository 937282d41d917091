---------------------------- MODULE MCGovernance ----------------------------
(* Governance on a stream of at most MaxEvents events of six shapes, each the *)
(* smallest that moves one reason of correlate.                               *)
EXTENDS Governance

Event(capability, hard, sensitive, external, records, cause) ==
    [capability |-> capability, hard |-> hard, sensitive |-> sensitive,
     external |-> external, records |-> records, cause |-> cause]

MCPlanned == {"read", "upload"}

MCEvents ==
    { Event("read",   FALSE, TRUE,  FALSE, 1, "none"),      \* a sensitive read
      Event("upload", FALSE, FALSE, TRUE,  1, "none"),      \* external egress
      Event("exec",   FALSE, FALSE, FALSE, 0, "none"),      \* never planned
      Event("none",   TRUE,  FALSE, FALSE, 0, "none"),      \* a hard transition
      Event("read",   FALSE, FALSE, FALSE, 0, "c1"),        \* one of a fan-out
      Event("none",   FALSE, FALSE, FALSE, 0, "c2") }
=============================================================================

-------------------------- MODULE EvidenceContract --------------------------
(***************************************************************************)
(* What the storage seam promises of persistence, whatever is behind it    *)
(* (runtime_contracts/store/base.py, append: "Append-only -- never         *)
(* mutates"): what a later open of the store reads only ever grows at its  *)
(* end, one envelope at a time.                                            *)
(***************************************************************************)
EXTENDS Sequences

CONSTANT Row        \* the envelopes that may be persisted

VARIABLE log        \* the envelopes a later open of the store reads, in order

Init == log = << >>

Append1(r) == log' = Append(log, r)

Next == \E r \in Row : Append1(r)

Spec == Init /\ [][Next]_log
=============================================================================

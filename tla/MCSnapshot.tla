----------------------------- MODULE MCSnapshot -----------------------------
(* Small instances of Snapshot. *)
EXTENDS Snapshot, TLC

CONSTANTS b1, b2, b3, s1, s2

WideWriters == [b \in Backends |-> IF b \in Writers THEN {s1, s2} ELSE {s1}]
WriterSymmetry == Permutations(Writers)
=============================================================================

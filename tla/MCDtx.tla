------------------------------- MODULE MCDtx --------------------------------
(***************************************************************************)
(* Small instances of Dtx: a transaction on one or two segments with       *)
(* several failures and a crash of the coordinator.                        *)
(***************************************************************************)
EXTENDS Dtx, TLC

CONSTANTS g1, s1, s2

OneGxid == {g1}
OneSeg == {s1}
TwoSegs == {s1, s2}
SegSymmetry == Permutations(TwoSegs)
=============================================================================

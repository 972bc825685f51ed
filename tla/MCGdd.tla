------------------------------- MODULE MCGdd -------------------------------
(***************************************************************************)
(* Instances of the detector: the coordinator and up to two segments.  A   *)
(* lock is named by its kind and its segment.                              *)
(***************************************************************************)
EXTENDS Gdd, TLC

CONSTANTS p1, p2, p3

QDSeg == -1
Three == {p1, p2, p3}
Two == {p1, p2}
MCSegs == {QDSeg, 0, 1}
OneSeg == {QDSeg, 0}
X == {"X"}
SX == {"S", "X"}

MCSegOf == [l \in Locks |-> l[2]]
MCKindOf == [l \in Locks |-> l[1]]

Rows == {<<"xid", 0>>, <<"xid", 1>>}
RelationAndRow == {<<"relation", 0>>, <<"xid", 1>>}
QueryLockOnQD == {<<"tuple", QDSeg>>, <<"xid", 0>>}

Symmetry == Permutations(Procs)
=============================================================================

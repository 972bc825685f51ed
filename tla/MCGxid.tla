------------------------------- MODULE MCGxid -------------------------------
(***************************************************************************)
(* Two backends and the dtx recovery worker, batches of two gxids, and     *)
(* room for a few batches before the limit of the identifier space.        *)
(***************************************************************************)
EXTENDS Gxid, TLC

CONSTANTS b1, b2

MCBackend == {b1, b2}
Symmetry == Permutations(MCBackend)
=============================================================================

------------------------------- MODULE MCFts -------------------------------
(***************************************************************************)
(* Instances of Fts for model checking: the bounds are in the              *)
(* configurations.                                                         *)
(***************************************************************************)
EXTENDS Fts

=============================================================================

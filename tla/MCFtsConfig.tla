---------------------------- MODULE MCFtsConfig ----------------------------
(***************************************************************************)
(* Instances of FtsConfig for model checking: the bounds are in the        *)
(* configurations.                                                         *)
(***************************************************************************)
EXTENDS FtsConfig

=============================================================================

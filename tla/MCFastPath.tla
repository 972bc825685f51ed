---------------------------- MODULE MCFastPath ----------------------------
(* Fast-path relation locks among a few backends. *)
EXTENDS FastPath
===========================================================================

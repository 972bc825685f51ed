------------------------------ MODULE MCDtxWal -------------------------------
(* A small instance of DtxWal. *)
EXTENDS DtxWal

CONSTANTS b1, b2

TwoBackends == {b1, b2}
=============================================================================

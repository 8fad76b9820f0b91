----------------------------- MODULE MCTempAlert -----------------------------
(* An instance of TempAlert with one key: the keys do not share anything.  *)
EXTENDS TempAlert

CONSTANT k1
=============================================================================

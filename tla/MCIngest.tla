------------------------------- MODULE MCIngest -------------------------------
(* A small instance of Ingest: a registered device, one that is not, and   *)
(* one that the server cannot name; a failed read, a temperature just      *)
(* below zero, a usual one and one that is out of range; a core            *)
(* temperature above the limit of the others, and one just below zero.     *)
EXTENDS Ingest

MCTemps == {-32768, -50, 2500, 8100}
MCCores == {9000, -50}
=============================================================================

------------------------------ MODULE MCAs6221 ------------------------------
(* A small instance of As6221: NVS may want two addresses, the same one    *)
(* twice, or one that no part can have.                                    *)
EXTENDS As6221

MCWant == {<<1, 2>>, <<2, 2>>, <<9, 1>>}
MCRaws == {-32768, -33, 3201}
=============================================================================

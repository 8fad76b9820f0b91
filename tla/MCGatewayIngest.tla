--------------------------- MODULE MCGatewayIngest ---------------------------
(* Two devices that nothing but their names tells apart.                    *)
EXTENDS GatewayIngest, TLC

Devices == Permutations(Message)
=============================================================================

--------------------------- MODULE MCGatewayInit ---------------------------
(***************************************************************************)
(* Instances of GatewayInit for TLC: a dual-stack gateway.                 *)
(***************************************************************************)
EXTENDS GatewayInit

DualStack == {"v4", "v6"}
=============================================================================

-------------------------- MODULE MCPlatformAccess --------------------------
(* The supervisor on a device with two uplinks.                             *)
EXTENDS PlatformAccess, MCOrdinaryNetwork
=============================================================================

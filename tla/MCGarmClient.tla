---------------------------- MODULE MCGarmClient ----------------------------
(* Small instances of GarmClient.                                           *)
EXTENDS GarmClient

CONSTANTS c1, c2
=============================================================================

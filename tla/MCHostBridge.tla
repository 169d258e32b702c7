---------------------------- MODULE MCHostBridge ----------------------------
(* Three connections with up to two requests each.                         *)
EXTENDS HostBridge
=============================================================================

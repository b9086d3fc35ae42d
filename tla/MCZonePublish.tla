---------------------------- MODULE MCZonePublish ----------------------------
(* Instance for TLC: the constants are given in MCZonePublish.cfg. *)
EXTENDS ZonePublish
===============================================================================

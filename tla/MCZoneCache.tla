---------------------------- MODULE MCZoneCache ----------------------------
(* A small instance of ZoneCache for TLC: two queries at once and two      *)
(* writes of the keys.                                                     *)
EXTENDS ZoneCache
=============================================================================

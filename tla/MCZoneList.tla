---------------------------- MODULE MCZoneList ----------------------------
(* A small instance of ZoneList for TLC: three writes of the list.         *)
EXTENDS ZoneList
=============================================================================

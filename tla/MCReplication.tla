--------------------------- MODULE MCReplication ---------------------------
(***************************************************************************)
(* Small instances of Replication for TLC: one zone, the apex and one more *)
(* location, one record type beside ns, two values.  The sets of requests  *)
(* are the questions' scenarios.                                           *)
(***************************************************************************)
EXTENDS Replication, TLC

CONSTANTS z1, z2, v1, v2, u1

MCImports == {{<<"@", "ns", v1>>}, {<<"@", "ns", v1>>, <<"w", "a", v2>>}}

InLocationW == {r \in Request : "label" \in DOMAIN r => r.label = "w"}
DisableApex == {r \in UpdateLocationRequest : r.label = "@" /\ ~ r.enabled}
OfTypeA     == {r \in Request : "rtype" \in DOMAIN r => r.rtype = "a"}
NewValue    == {r \in Request : "value" \in DOMAIN r =>
                                  r.value = (IF r.type = "add_record" THEN v1 ELSE v2)}

Scenario(ops) == {r \in InLocationW \cap OfTypeA \cap NewValue : r.type \in ops}

ZoneOps     == {"add_zone", "update_zone"}
LocationOps == {"add_location", "update_location"}
RecordOps   == {"add_record", "update_record", "delete_record"}

AllRequests == Scenario(ZoneOps \cup LocationOps \cup RecordOps \cup
                          {"delete_location", "import_zone", "delete_zone"})
                 \cup DisableApex

(* Additions and updates, and the deletion of record sets.                 *)
KeyRequests == {r \in Scenario(ZoneOps \cup LocationOps \cup RecordOps) :
                  r.type = "add_zone" => r.enabled}

DeletedZone      == Scenario({"add_zone", "delete_zone"})
TwoZones         == {r \in Scenario({"add_zone", "update_zone", "add_location"}) :
                       r.enabled}
=============================================================================

---------------------------- MODULE ZoneEvents ----------------------------
(***************************************************************************)
(* The vocabulary shared by the API's database and the zone updater: the   *)
(* requests the REST API accepts on zones, locations and record sets, and  *)
(* the rows of the Events table that carry them to Redis.                  *)
(*                                                                         *)
(* A request is the model of internal/api/database/types.go that a handler *)
(* of internal/api/handlers/zone makes of a request it could bind, with    *)
(* all names present and a record type it knows.  Its data is abstract:    *)
(* names, labels, record types and values are members of small sets.  A    *)
(* zone import is a set of <<label, type, value>> triples, in which the    *)
(* handler has replaced the name servers of the apex by its own.           *)
(***************************************************************************)
EXTENDS Naturals, FiniteSets

CONSTANTS
    Users,      \* ids of the users who send requests
    Zones,      \* zone names
    Labels,     \* location names of a zone, the apex among them
    RTypes,     \* record types
    Values,     \* contents of a record set
    Imports,    \* contents a zone import may carry
    Requests,   \* the requests the environment may send
    Apex,       \* the label "@" every zone is created with
    NS,         \* the type "ns" of the record set created at the apex
    NSValue     \* the name servers GenerateNS puts in it

VARIABLE events     \* the committed rows of the Events table

-----------------------------------------------------------------------------
(* Request models, one record set per operation of the API.                *)

AddZoneRequest        == [type : {"add_zone"}, user : Users, zone : Zones,
                          enabled : BOOLEAN]
UpdateZoneRequest     == [type : {"update_zone"}, user : Users, zone : Zones,
                          enabled : BOOLEAN]
DeleteZoneRequest     == [type : {"delete_zone"}, user : Users, zone : Zones]
ImportZoneRequest     == [type : {"import_zone"}, user : Users, zone : Zones,
                          entries : Imports]
AddLocationRequest    == [type : {"add_location"}, user : Users, zone : Zones,
                          label : Labels, enabled : BOOLEAN]
UpdateLocationRequest == [type : {"update_location"}, user : Users, zone : Zones,
                          label : Labels, enabled : BOOLEAN]
DeleteLocationRequest == [type : {"delete_location"}, user : Users, zone : Zones,
                          label : Labels]
AddRecordRequest      == [type : {"add_record"}, user : Users, zone : Zones,
                          label : Labels, rtype : RTypes, value : Values,
                          enabled : BOOLEAN]
UpdateRecordRequest   == [type : {"update_record"}, user : Users, zone : Zones,
                          label : Labels, rtype : RTypes, value : Values,
                          enabled : BOOLEAN]
DeleteRecordRequest   == [type : {"delete_record"}, user : Users, zone : Zones,
                          label : Labels, rtype : RTypes]

Request ==
    AddZoneRequest \cup UpdateZoneRequest \cup DeleteZoneRequest
      \cup ImportZoneRequest
      \cup AddLocationRequest \cup UpdateLocationRequest \cup DeleteLocationRequest
      \cup AddRecordRequest \cup UpdateRecordRequest \cup DeleteRecordRequest

ASSUME VocabularyAssumption ==
    /\ Apex \in Labels
    /\ NS \in RTypes
    /\ NSValue \in Values
    /\ \A i \in Imports :
          /\ i \subseteq Labels \X RTypes \X Values
          /\ <<Apex, NS, NSValue>> \in i
          /\ \A x, y \in i : x[1] = y[1] /\ x[2] = y[2] => x = y
    /\ Requests \subseteq Request

(***************************************************************************)
(* A row of Events: its AUTO_INCREMENT revision, the id of the zone, the   *)
(* request and the SOA serial it carries.  `object' says whether the JSON  *)
(* stored in the Value column is an object.                                *)
(***************************************************************************)
Event(rev, zid, req, serial, object) ==
    [rev |-> rev, zid |-> zid, req |-> req, serial |-> serial, object |-> object]

Revisions == {e.rev : e \in events}
=============================================================================

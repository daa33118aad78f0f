------------------------- MODULE ReplicationProofs -------------------------
(***************************************************************************)
(* For every set of clients, users, names and values, every bound and      *)
(* every batch size: first the theorems about ApiDatabase, whose invariant *)
(* Replication keeps, then those about Replication itself.                 *)
(***************************************************************************)
EXTENDS Replication, TLAPS

(***************************************************************************)
(* The types and the revisions.  A transaction in progress serves a        *)
(* request; a revision belongs to one event or to one open transaction and *)
(* has been drawn from the counter.                                        *)
(***************************************************************************)
TxRequests ==
    \A c \in Clients : api[c].pc # "idle" => api[c].req \in Request

EventRevisions ==
    /\ \A e \in events : e.rev < nextRevision
    /\ \A e, f \in events : e.rev = f.rev => e = f

OpenRevisions ==
    /\ \A c \in Clients : api[c].pc = "open" =>
          /\ api[c].rev \in 1..MaxRevision
          /\ api[c].rev < nextRevision
          /\ \A e \in events : e.rev # api[c].rev
    /\ \A c, d \in Clients :
          api[c].pc = "open" /\ api[d].pc = "open" /\ api[c].rev = api[d].rev => c = d

ApiInv == ApiTypeOK /\ TxRequests /\ EventRevisions /\ OpenRevisions

-----------------------------------------------------------------------------
(* A request has the fields of its type.                                   *)
LEMMA RequestFields ==
    ASSUME NEW r \in Request
    PROVE  /\ r.user \in Users /\ r.zone \in Zones
           /\ r.type \in {"add_zone", "update_zone", "delete_zone", "import_zone",
                 "add_location", "update_location", "delete_location",
                 "add_record", "update_record", "delete_record"}
           /\ r.type \in {"add_zone", "update_zone", "add_location",
                 "update_location", "add_record", "update_record"}
                => r.enabled \in BOOLEAN
           /\ r.type = "import_zone" => r.entries \in Imports
           /\ r.type \in {"add_location", "update_location", "delete_location",
                 "add_record", "update_record", "delete_record"}
                => r.label \in Labels
           /\ r.type \in {"add_record", "update_record", "delete_record"}
                => r.rtype \in RTypes
           /\ r.type \in {"add_record", "update_record"} => r.value \in Values
<1>1. CASE r \in AddZoneRequest BY <1>1 DEF AddZoneRequest
<1>2. CASE r \in UpdateZoneRequest BY <1>2 DEF UpdateZoneRequest
<1>3. CASE r \in DeleteZoneRequest BY <1>3 DEF DeleteZoneRequest
<1>4. CASE r \in ImportZoneRequest BY <1>4 DEF ImportZoneRequest
<1>5. CASE r \in AddLocationRequest BY <1>5 DEF AddLocationRequest
<1>6. CASE r \in UpdateLocationRequest BY <1>6 DEF UpdateLocationRequest
<1>7. CASE r \in DeleteLocationRequest BY <1>7 DEF DeleteLocationRequest
<1>8. CASE r \in AddRecordRequest BY <1>8 DEF AddRecordRequest
<1>9. CASE r \in UpdateRecordRequest BY <1>9 DEF UpdateRecordRequest
<1>10. CASE r \in DeleteRecordRequest BY <1>10 DEF DeleteRecordRequest
<1> QED BY <1>1, <1>2, <1>3, <1>4, <1>5, <1>6, <1>7, <1>8, <1>9, <1>10 DEF Request

-----------------------------------------------------------------------------
(* Typing of the identifiers the API draws and looks up.                   *)
LEMMA ObjectIds ==
    /\ NoId \in ObjectId
    /\ \A n \in 1..MaxRevision : ZoneId(n) \in ObjectId
    /\ \A n \in 1..MaxRevision, l \in Labels : LocationId(n, l) \in ObjectId
    /\ \A n \in 1..MaxRevision, l \in Labels, t \in RTypes :
          RecordId(n, l, t) \in ObjectId
BY DEF ObjectId

(* Deletion with its cascades leaves the tables well-typed.                *)
LEMMA DeleteResourcesType ==
    ASSUME NEW d \in Tables, NEW ids
    PROVE  DeleteResources(d, ids) \in Tables
BY DEF DeleteResources, Tables

(* Replacing tables by well-typed ones.                                    *)
LEMMA TablesUpdate ==
    ASSUME NEW d \in Tables,
           NEW ids \in SUBSET ObjectId, NEW zs \in SUBSET ZoneRowType,
           NEW ls \in SUBSET LocationRowType, NEW rs \in SUBSET RecordRowType
    PROVE  /\ [d EXCEPT !.zones = zs] \in Tables
           /\ [d EXCEPT !.locations = ls] \in Tables
           /\ [d EXCEPT !.records = rs] \in Tables
           /\ [d EXCEPT !.resources = @ \cup ids, !.locations = @ \cup ls] \in Tables
           /\ [d EXCEPT !.resources = @ \cup ids, !.records = @ \cup rs] \in Tables
           /\ [d EXCEPT !.resources = @ \cup ids, !.locations = @ \cup ls,
                        !.records = @ \cup rs] \in Tables
           /\ [resources |-> d.resources \cup ids, zones |-> d.zones \cup zs,
               locations |-> d.locations \cup ls, records |-> d.records \cup rs]
                \in Tables
BY DEF Tables

(* Lookups find ids that are in the tables.                                *)
LEMMA LookupType ==
    ASSUME NEW d \in Tables, NEW r \in Request, NEW ids \in Lookup(d, r)
    PROVE  ids \in [zone : ObjectId, loc : ObjectId, rec : ObjectId]
<1> DEFINE Triples == [zone : ObjectId, loc : ObjectId, rec : ObjectId]
<1>1. NoIds \in Triples
  BY ObjectIds DEF NoIds
<1>2. ZoneLookup(d, r) \subseteq Triples
  BY <1>1 DEF ZoneLookup, OwnZones, Tables, ZoneRowType
<1>3. LocationLookup(d, r) \subseteq Triples
  BY <1>1 DEF LocationLookup, Tables, LocationRowType
<1>4. RecordLookup(d, r) \subseteq Triples
  BY <1>3 DEF RecordLookup, Tables, RecordRowType
<1> QED BY <1>1, <1>2, <1>3, <1>4, RequestFields DEF Lookup

(* The statements of an open transaction leave the tables well-typed.      *)
LEMMA EffectType ==
    ASSUME NEW d \in Tables, NEW t \in ApiState, t.req \in Request,
           t.rev \in 1..MaxRevision
    PROVE  Effect(d, t) \in Tables
<1> DEFINE r == t.req
<1>f. /\ r.user \in Users /\ r.zone \in Zones
      /\ t.serial \in Nat /\ t.ids.zone \in ObjectId /\ t.ids.loc \in ObjectId
  BY RequestFields DEF ApiState
<1>1. CASE r.type = "add_zone"
  <2>1. Effect(d, t) = AddZone(d, t)
    BY <1>1 DEF Effect
  <2>2. ZoneRow(ZoneId(t.rev), r.zone, r.user, r.enabled, InitialSerial) \in ZoneRowType
    BY <1>1, <1>f, RequestFields, ObjectIds DEF ZoneRow, ZoneRowType, InitialSerial
  <2>3. LocationRow(LocationId(t.rev, Apex), ZoneId(t.rev), Apex, TRUE) \in LocationRowType
    BY ObjectIds, VocabularyAssumption DEF LocationRow, LocationRowType
  <2>4. RecordRow(RecordId(t.rev, Apex, NS), LocationId(t.rev, Apex), NS, NSValue, TRUE)
          \in RecordRowType
    BY ObjectIds, VocabularyAssumption DEF RecordRow, RecordRowType
  <2> DEFINE ids == {ZoneId(t.rev), LocationId(t.rev, Apex), RecordId(t.rev, Apex, NS)}
             zs == {ZoneRow(ZoneId(t.rev), r.zone, r.user, r.enabled, InitialSerial)}
             ls == {LocationRow(LocationId(t.rev, Apex), ZoneId(t.rev), Apex, TRUE)}
             rs == {RecordRow(RecordId(t.rev, Apex, NS), LocationId(t.rev, Apex), NS,
                              NSValue, TRUE)}
  <2>5. ids \in SUBSET ObjectId
    BY ObjectIds, VocabularyAssumption
  <2>6. zs \in SUBSET ZoneRowType /\ ls \in SUBSET LocationRowType
          /\ rs \in SUBSET RecordRowType
    BY <2>2, <2>3, <2>4
  <2> HIDE DEF ids, zs, ls, rs
  <2>7. [resources |-> d.resources \cup ids, zones |-> d.zones \cup zs,
         locations |-> d.locations \cup ls, records |-> d.records \cup rs] \in Tables
    BY <2>5, <2>6, TablesUpdate
  <2> QED BY <2>1, <2>7 DEF AddZone, ids, zs, ls, rs
<1>2. CASE r.type = "update_zone"
  <2>1. Effect(d, t) = UpdateZone(d, t)
    BY <1>2 DEF Effect
  <2>2. \A z \in ZoneRowType :
           [z EXCEPT !.enabled = r.enabled, !.serial = t.serial] \in ZoneRowType
    BY <1>2, <1>f, RequestFields DEF ZoneRowType
  <2> DEFINE rows == {IF z.id = t.ids.zone
           THEN [z EXCEPT !.enabled = t.req.enabled, !.serial = t.serial]
           ELSE z : z \in d.zones}
  <2>3. rows \in SUBSET ZoneRowType
    BY <2>2 DEF Tables
  <2> HIDE DEF rows
  <2>4. [d EXCEPT !.zones = rows] \in Tables
    BY <2>3, TablesUpdate
  <2> QED BY <2>1, <2>4 DEF UpdateZone, rows
<1>3. CASE r.type = "delete_zone"
  <2>1. Effect(d, t) = DeleteZone(d, t)
    BY <1>3 DEF Effect
  <2> QED BY <2>1, DeleteResourcesType DEF DeleteZone
<1>4. CASE r.type = "import_zone"
  <2> DEFINE c  == DeleteResources(d, Ids(LocationsOf(d, t.ids.zone)))
             ls == {LocationRow(LocationId(t.rev, x[1]), t.ids.zone, x[1], TRUE) :
                      x \in r.entries}
             rs == {RecordRow(RecordId(t.rev, x[1], x[2]), LocationId(t.rev, x[1]),
                              x[2], x[3], TRUE) : x \in r.entries}
  <2>1. Effect(d, t) = ImportZone(d, t)
    BY <1>4 DEF Effect
  <2>2. \A x \in r.entries : x[1] \in Labels /\ x[2] \in RTypes /\ x[3] \in Values
    BY <1>4, RequestFields, VocabularyAssumption
  <2>3. \A x \in r.entries :
           LocationRow(LocationId(t.rev, x[1]), t.ids.zone, x[1], TRUE) \in LocationRowType
    BY <2>2, <1>f, ObjectIds DEF LocationRow, LocationRowType
  <2>4. \A x \in r.entries :
           RecordRow(RecordId(t.rev, x[1], x[2]), LocationId(t.rev, x[1]), x[2], x[3], TRUE)
             \in RecordRowType
    BY <2>2, ObjectIds DEF RecordRow, RecordRowType
  <2>5. ls \in SUBSET LocationRowType /\ rs \in SUBSET RecordRowType
    BY <2>3, <2>4
  <2>6. Ids(ls) \cup Ids(rs) \in SUBSET ObjectId
    BY <2>5 DEF Ids, LocationRowType, RecordRowType
  <2>7. c \in Tables
    BY DeleteResourcesType
  <2> HIDE DEF c, ls, rs
  <2>8. [c EXCEPT !.resources = @ \cup Ids(ls) \cup Ids(rs),
                  !.locations = @ \cup ls, !.records = @ \cup rs] \in Tables
    BY <2>5, <2>6, <2>7 DEF Tables
  <2> QED BY <2>1, <2>8 DEF ImportZone, c, ls, rs
<1>5. CASE r.type = "add_location"
  <2>1. Effect(d, t) = AddLocation(d, t)
    BY <1>5 DEF Effect
  <2>2. LocationRow(LocationId(t.rev, r.label), t.ids.zone, r.label, r.enabled)
          \in LocationRowType
    BY <1>5, <1>f, RequestFields, ObjectIds DEF LocationRow, LocationRowType
  <2>3. {LocationId(t.rev, r.label)} \in SUBSET ObjectId
    BY <1>5, RequestFields, ObjectIds
  <2> DEFINE ids == {LocationId(t.rev, r.label)}
             ls == {LocationRow(LocationId(t.rev, r.label), t.ids.zone, r.label, r.enabled)}
  <2>4. ls \in SUBSET LocationRowType /\ ids \in SUBSET ObjectId
    BY <2>2, <2>3
  <2> HIDE DEF ids, ls
  <2>5. [d EXCEPT !.resources = @ \cup ids, !.locations = @ \cup ls] \in Tables
    BY <2>4, TablesUpdate
  <2> QED BY <2>1, <2>5 DEF AddLocation, ids, ls
<1>6. CASE r.type = "update_location"
  <2>1. Effect(d, t) = UpdateLocation(d, t)
    BY <1>6 DEF Effect
  <2>2. \A l \in LocationRowType : [l EXCEPT !.enabled = r.enabled] \in LocationRowType
    BY <1>6, RequestFields DEF LocationRowType
  <2> DEFINE rows == {IF l.id = t.ids.loc THEN [l EXCEPT !.enabled = t.req.enabled] ELSE l :
            l \in d.locations}
  <2>3. rows \in SUBSET LocationRowType
    BY <2>2 DEF Tables
  <2> HIDE DEF rows
  <2>4. [d EXCEPT !.locations = rows] \in Tables
    BY <2>3, TablesUpdate
  <2> QED BY <2>1, <2>4 DEF UpdateLocation, rows
<1>7. CASE r.type = "delete_location"
  <2>1. Effect(d, t) = DeleteLocation(d, t)
    BY <1>7 DEF Effect
  <2> QED BY <2>1, DeleteResourcesType DEF DeleteLocation
<1>8. CASE r.type = "add_record"
  <2>1. Effect(d, t) = AddRecordSet(d, t)
    BY <1>8 DEF Effect
  <2>2. RecordRow(RecordId(t.rev, r.label, r.rtype), t.ids.loc, r.rtype, r.value, r.enabled)
          \in RecordRowType
    BY <1>8, <1>f, RequestFields, ObjectIds DEF RecordRow, RecordRowType
  <2>3. {RecordId(t.rev, r.label, r.rtype)} \in SUBSET ObjectId
    BY <1>8, RequestFields, ObjectIds
  <2> DEFINE ids == {RecordId(t.rev, r.label, r.rtype)}
             rs == {RecordRow(RecordId(t.rev, r.label, r.rtype), t.ids.loc, r.rtype,
                              r.value, r.enabled)}
  <2>4. rs \in SUBSET RecordRowType /\ ids \in SUBSET ObjectId
    BY <2>2, <2>3
  <2> HIDE DEF ids, rs
  <2>5. [d EXCEPT !.resources = @ \cup ids, !.records = @ \cup rs] \in Tables
    BY <2>4, TablesUpdate
  <2> QED BY <2>1, <2>5 DEF AddRecordSet, ids, rs
<1>9. CASE r.type = "update_record"
  <2>1. Effect(d, t) = UpdateRecordSet(d, t)
    BY <1>9 DEF Effect
  <2>2. \A x \in RecordRowType :
           [x EXCEPT !.value = r.value, !.enabled = r.enabled] \in RecordRowType
    BY <1>9, RequestFields DEF RecordRowType
  <2> DEFINE rows == {IF x.id = t.ids.rec
           THEN [x EXCEPT !.value = t.req.value, !.enabled = t.req.enabled]
           ELSE x : x \in d.records}
  <2>3. rows \in SUBSET RecordRowType
    BY <2>2 DEF Tables
  <2> HIDE DEF rows
  <2>4. [d EXCEPT !.records = rows] \in Tables
    BY <2>3, TablesUpdate
  <2> QED BY <2>1, <2>4 DEF UpdateRecordSet, rows
<1>10. CASE r.type = "delete_record"
  <2>1. Effect(d, t) = DeleteRecordSet(d, t)
    BY <1>10 DEF Effect
  <2> QED BY <2>1, DeleteResourcesType DEF DeleteRecordSet
<1> QED
  BY <1>1, <1>2, <1>3, <1>4, <1>5, <1>6, <1>7, <1>8, <1>9, <1>10, RequestFields

(* ... and the row it inserts in Events is one.                            *)
LEMMA EventOfType ==
    ASSUME NEW t \in ApiState, t.req \in Request, t.rev \in 1..MaxRevision
    PROVE  EventOf(t) \in EventRow /\ EventOf(t).rev = t.rev
BY RequestFields, ObjectIds DEF EventOf, Event, EventRow, ApiState

-----------------------------------------------------------------------------
(* A step of one client changes its own entry of api only.                 *)
LEMMA ApiEntry ==
    ASSUME api \in [Clients -> ApiState], NEW c \in Clients, NEW a \in ApiState,
           api' = [api EXCEPT ![c] = a]
    PROVE  /\ api' \in [Clients -> ApiState]
           /\ api'[c] = a
           /\ \A d \in Clients : d # c => api'[d] = api[d]
BY DEF ApiState

(* A client without a request is well-typed.                               *)
LEMMA IdleType == Idle \in ApiState
BY ObjectIds, ApiAssumption DEF Idle, ApiState, NoIds, NoRequest, InitialSerial

(* The API's part of the invariant holds at the start.                     *)
LEMMA ApiInitInv == ApiInit => ApiInv
<1> SUFFICES ASSUME ApiInit PROVE ApiInv
  OBVIOUS
<1>1. EmptyTables \in Tables
  BY DEF EmptyTables, Tables
<1>2. ApiTypeOK
  BY <1>1, IdleType, ApiAssumption DEF ApiInit, ApiTypeOK
<1>3. TxRequests /\ EventRevisions /\ OpenRevisions
  BY DEF ApiInit, TxRequests, EventRevisions, OpenRevisions, Idle
<1> QED BY <1>2, <1>3 DEF ApiInv

(* A client that gives up leaves the rest as it was.                       *)
LEMMA BackToIdle ==
    ASSUME ApiInv, NEW c \in Clients, api' = [api EXCEPT ![c] = Idle],
           UNCHANGED <<events, db, nextRevision>>
    PROVE  ApiInv'
<1>1. /\ api' \in [Clients -> ApiState]
      /\ api'[c].pc = "idle"
      /\ \A d \in Clients : d # c => api'[d] = api[d]
  BY ApiEntry, IdleType DEF ApiInv, ApiTypeOK, Idle
<1>2. ApiTypeOK'
  BY <1>1 DEF ApiInv, ApiTypeOK
<1>3. TxRequests' /\ EventRevisions' /\ OpenRevisions'
  BY <1>1 DEF ApiInv, TxRequests, EventRevisions, OpenRevisions
<1> QED BY <1>2, <1>3 DEF ApiInv

(* A client that has not reached its transaction holds no revision.        *)
LEMMA BeforeTransaction ==
    ASSUME ApiInv, NEW c \in Clients, NEW a \in ApiState,
           a.pc \in {"read", "found"}, a.req \in Request,
           api' = [api EXCEPT ![c] = a], UNCHANGED <<events, db, nextRevision>>
    PROVE  ApiInv'
<1>1. /\ api' \in [Clients -> ApiState]
      /\ api'[c] = a
      /\ \A d \in Clients : d # c => api'[d] = api[d]
  BY ApiEntry DEF ApiInv, ApiTypeOK
<1>2. ApiTypeOK'
  BY <1>1 DEF ApiInv, ApiTypeOK
<1>3. TxRequests' /\ EventRevisions' /\ OpenRevisions'
  BY <1>1 DEF ApiInv, TxRequests, EventRevisions, OpenRevisions
<1> QED BY <1>2, <1>3 DEF ApiInv

(* Every step of every request keeps the API's part of the invariant.      *)
LEMMA ApiNextInv == ApiInv /\ ApiNext => ApiInv'
<1> SUFFICES ASSUME ApiInv, ApiNext PROVE ApiInv'
  OBVIOUS
<1>t. /\ api \in [Clients -> ApiState] /\ db \in Tables /\ events \subseteq EventRow
      /\ nextRevision \in 1..(MaxRevision + 1) /\ MaxRevision \in Nat
  BY ApiAssumption DEF ApiInv, ApiTypeOK
<1>1. ASSUME NEW c \in Clients, NEW r \in Requests, ReadZone(c, r) PROVE ApiInv'
  <2>1. r \in Request
    BY VocabularyAssumption
  <2>2. PICK z \in OwnZones(db, r) :
           api' = [api EXCEPT ![c].pc = "read", ![c].req = r, ![c].serial = z.serial + 1]
    BY <1>1 DEF ReadZone
  <2>3. z.serial + 1 \in Nat
    BY <1>t DEF OwnZones, Tables, ZoneRowType
  <2> DEFINE a == [api[c] EXCEPT !.pc = "read", !.req = r, !.serial = z.serial + 1]
  <2>4. a \in ApiState /\ a.pc = "read" /\ a.req = r
    BY <1>t, <2>1, <2>3 DEF ApiState
  <2>5. api' = [api EXCEPT ![c] = a]
    BY <2>2, <1>t DEF ApiState
  <2> HIDE DEF a
  <2> QED BY <1>1, <2>1, <2>4, <2>5, BeforeTransaction DEF ReadZone
<1>2. ASSUME NEW c \in Clients, NEW r \in Requests, LookUp(c, r) PROVE ApiInv'
  <2>1. r \in Request
    BY VocabularyAssumption
  <2>2. PICK ids \in Lookup(db, r) :
           api' = [api EXCEPT ![c].pc = "found", ![c].req = r, ![c].ids = ids]
    BY <1>2 DEF LookUp
  <2>3. ids \in [zone : ObjectId, loc : ObjectId, rec : ObjectId]
    BY <1>t, <2>1, LookupType
  <2> DEFINE a == [api[c] EXCEPT !.pc = "found", !.req = r, !.ids = ids]
  <2>4. a \in ApiState /\ a.pc = "found" /\ a.req = r
    BY <1>t, <2>1, <2>3 DEF ApiState
  <2>5. api' = [api EXCEPT ![c] = a]
    BY <2>2, <1>t DEF ApiState
  <2> HIDE DEF a
  <2> QED BY <1>2, <2>1, <2>4, <2>5, BeforeTransaction DEF LookUp
<1>3. ASSUME NEW c \in Clients, LookUpFails(c) \/ ExecFails(c) \/ Rollback(c)
      PROVE  ApiInv'
  BY <1>3, BackToIdle DEF LookUpFails, ExecFails, Rollback
<1>4. ASSUME NEW c \in Clients, Exec(c) PROVE ApiInv'
  <2> DEFINE a == [api[c] EXCEPT !.pc = "open", !.rev = nextRevision]
  <2>1. nextRevision \in 1..MaxRevision /\ nextRevision' = nextRevision + 1
    BY <1>4, <1>t DEF Exec
  <2>2. a \in ApiState /\ a.pc = "open" /\ a.rev = nextRevision /\ a.req = api[c].req
    <3>1. api[c] \in ApiState /\ nextRevision \in 0..MaxRevision
      BY <1>t, <2>1
    <3> QED BY <3>1 DEF ApiState
  <2>3. api' = [api EXCEPT ![c] = a]
    BY <1>4, <1>t DEF Exec, ApiState
  <2> HIDE DEF a
  <2>4. /\ api' \in [Clients -> ApiState] /\ api'[c] = a
        /\ \A d \in Clients : d # c => api'[d] = api[d]
    BY <2>2, <2>3, <1>t, ApiEntry
  <2>5. ApiTypeOK'
    BY <2>1, <2>4, <1>4, <1>t DEF ApiTypeOK, Exec
  <2>6. TxRequests'
    BY <2>2, <2>4, <1>4 DEF ApiInv, TxRequests, Exec
  <2>7. EventRevisions'
    BY <2>1, <1>4, <1>t DEF ApiInv, EventRevisions, Exec, EventRow
  <2>8. OpenRevisions'
    BY <2>1, <2>2, <2>4, <1>4, <1>t DEF ApiInv, OpenRevisions, EventRevisions, Exec, EventRow
  <2> QED BY <2>5, <2>6, <2>7, <2>8 DEF ApiInv
<1>5. ASSUME NEW c \in Clients, Commit(c) PROVE ApiInv'
  <2> DEFINE t == api[c]
  <2>1. t \in ApiState /\ t.req \in Request /\ t.rev \in 1..MaxRevision
          /\ t.rev < nextRevision /\ \A e \in events : e.rev # t.rev
    BY <1>5, <1>t DEF Commit, ApiInv, TxRequests, OpenRevisions
  <2>2. db' \in Tables
    BY <2>1, <1>5, <1>t, EffectType DEF Commit
  <2>3. EventOf(t) \in EventRow /\ EventOf(t).rev = t.rev
    BY <2>1, EventOfType
  <2>4. /\ api' \in [Clients -> ApiState] /\ api'[c].pc = "idle"
        /\ \A d \in Clients : d # c => api'[d] = api[d]
    BY <1>5, <1>t, ApiEntry, IdleType DEF Commit, Idle
  <2>5. events' = events \cup {EventOf(t)} /\ nextRevision' = nextRevision
    BY <1>5 DEF Commit
  <2> HIDE DEF t
  <2>6. ApiTypeOK'
    BY <2>2, <2>3, <2>4, <2>5, <1>t DEF ApiTypeOK
  <2>7. TxRequests'
    BY <2>4 DEF ApiInv, TxRequests
  <2>8. EventRevisions'
    BY <2>1, <2>3, <2>5 DEF ApiInv, EventRevisions
  <2>9. OpenRevisions'
    BY <2>1, <2>3, <2>4, <2>5, <1>5 DEF ApiInv, OpenRevisions, Commit, t
  <2> QED BY <2>6, <2>7, <2>8, <2>9 DEF ApiInv
<1> QED BY <1>1, <1>2, <1>3, <1>4, <1>5 DEF ApiNext

-----------------------------------------------------------------------------
(***************************************************************************)
(* The tables.  An id tells its table and the revision it was drawn for.   *)
(***************************************************************************)
ZoneIds     == {ZoneId(n) : n \in 1..MaxRevision}
LocationIds == {LocationId(n, l) : n \in 1..MaxRevision, l \in Labels}
RecordIds   == {RecordId(n, l, t) : n \in 1..MaxRevision, l \in Labels, t \in RTypes}

(* The revision an id was drawn for.                                       *)
DrawnFor(id) == id[1]

(* No id belongs to two tables, and ids of different revisions differ.     *)
LEMMA IdKinds ==
    /\ ZoneIds \cap LocationIds = {} /\ ZoneIds \cap RecordIds = {}
    /\ LocationIds \cap RecordIds = {}
    /\ \A id \in ZoneIds \cup LocationIds \cup RecordIds : DrawnFor(id) \in 1..MaxRevision
    /\ \A n \in 1..MaxRevision : ZoneId(n) \in ZoneIds /\ DrawnFor(ZoneId(n)) = n
    /\ \A n \in 1..MaxRevision, l \in Labels :
          LocationId(n, l) \in LocationIds /\ DrawnFor(LocationId(n, l)) = n
    /\ \A n \in 1..MaxRevision, l \in Labels, t \in RTypes :
          RecordId(n, l, t) \in RecordIds /\ DrawnFor(RecordId(n, l, t)) = n
<1>1. \A n, m, l : ZoneId(n) # LocationId(m, l)
  BY DEF ZoneId, LocationId
<1>2. \A n, m, l, t : ZoneId(n) # RecordId(m, l, t)
  BY DEF ZoneId, RecordId
<1>3. \A n, k, m, l, t : LocationId(n, k) # RecordId(m, l, t)
  BY DEF LocationId, RecordId
<1>4. \A n : DrawnFor(ZoneId(n)) = n
  BY DEF ZoneId, DrawnFor
<1>5. \A n, l : DrawnFor(LocationId(n, l)) = n
  BY DEF LocationId, DrawnFor
<1>6. \A n, l, t : DrawnFor(RecordId(n, l, t)) = n
  BY DEF RecordId, DrawnFor
<1> QED BY <1>1, <1>2, <1>3, <1>4, <1>5, <1>6 DEF ZoneIds, LocationIds, RecordIds

(* Locations of one revision and different labels have different ids.      *)
LEMMA IdsOfLabels ==
    /\ \A n, k, l : LocationId(n, k) = LocationId(n, l) => k = l
    /\ \A n, k, l, s, t : RecordId(n, k, s) = RecordId(n, l, t) => k = l /\ s = t
BY DEF LocationId, RecordId

(* ReferentialIntegrity of any tables, and ids of their kinds.             *)
Resourced(d) == Ids(d.zones) \cup Ids(d.locations) \cup Ids(d.records) \subseteq d.resources
Parents(d) ==
    /\ \A l \in d.locations : l.zone \in Ids(d.zones)
    /\ \A r \in d.records : r.loc \in Ids(d.locations)
ZoneKeys(d) == \A y, z \in d.zones : y.name = z.name => y = z
LocationKeys(d) == \A k, l \in d.locations : k.zone = l.zone /\ k.name = l.name => k = l
RecordKeys(d) == \A q, r \in d.records : q.loc = r.loc /\ q.type = r.type => q = r
PrimaryKeys(d) ==
    /\ \A y, z \in d.zones : y.id = z.id => y = z
    /\ \A k, l \in d.locations : k.id = l.id => k = l
    /\ \A q, r \in d.records : q.id = r.id => q = r
Kinds(d) ==
    /\ Ids(d.zones) \subseteq ZoneIds /\ Ids(d.locations) \subseteq LocationIds
    /\ Ids(d.records) \subseteq RecordIds /\ d.resources \subseteq ZoneIds \cup LocationIds \cup RecordIds

TablesOK(d) ==
    /\ Resourced(d) /\ Parents(d) /\ Kinds(d) /\ PrimaryKeys(d)
    /\ ZoneKeys(d) /\ LocationKeys(d) /\ RecordKeys(d)

Locked(d, t) == ExclusiveLocks(d, t.req, t.ids)
Shared(d, t) == SharedLocks(d, t.req, t.ids)

ZoneTypes ==
    {"update_zone", "delete_zone", "import_zone", "add_location", "update_location",
     "delete_location", "add_record", "update_record", "delete_record"}
LocationTypes ==
    {"update_location", "delete_location", "add_record", "update_record", "delete_record"}
RecordTypes == {"update_record", "delete_record"}

(* The ids a transaction works with were drawn for no revision in U, and   *)
(* the rows that have them, if there still are any, are the ones that were *)
(* found: under a zone of the user and under the names of the request.     *)
ZoneFits(d, t, U) ==
    t.req.type \in ZoneTypes =>
       /\ t.ids.zone \in ZoneIds /\ DrawnFor(t.ids.zone) \notin U
       /\ \A z \in d.zones : z.id = t.ids.zone =>
             z.owner = t.req.user /\ z.name = t.req.zone
LocationFits(d, t, U) ==
    t.req.type \in LocationTypes =>
       /\ t.ids.loc \in LocationIds /\ DrawnFor(t.ids.loc) \notin U
       /\ \A l \in d.locations : l.id = t.ids.loc =>
             l.zone = t.ids.zone /\ l.name = t.req.label
RecordFits(d, t, U) ==
    t.req.type \in RecordTypes =>
       /\ t.ids.rec \in RecordIds /\ DrawnFor(t.ids.rec) \notin U
       /\ \A r \in d.records : r.id = t.ids.rec =>
             r.loc = t.ids.loc /\ r.type = t.req.rtype
IdsFit(d, t, U) == ZoneFits(d, t, U) /\ LocationFits(d, t, U) /\ RecordFits(d, t, U)

Compatible(d, s, t) == (Locked(d, s) \cup Shared(d, s)) \cap Locked(d, t) = {}

(* Revisions that no row may have been drawn for yet.                      *)
Unborn ==
    {n \in 1..(MaxRevision + 1) :
       n >= nextRevision \/ \E c \in Clients : api[c].pc = "open" /\ api[c].rev = n}

AllBorn(d, U) == \A id \in d.resources : DrawnFor(id) \notin U

(* What makes ReferentialIntegrity inductive: ids are fresh, every open    *)
(* transaction's statements would still succeed, and open transactions     *)
(* hold compatible locks.                                                  *)
TxFits == \A c \in Clients : api[c].pc \in {"found", "open"} => IdsFit(db, api[c], Unborn)
TxReady ==
    \A c \in Clients : api[c].pc = "open" => ~ StatementFails(db, api[c].req, api[c].ids)
TxLocks ==
    \A c, d \in Clients :
       api[c].pc = "open" /\ api[d].pc = "open" /\ c # d => Compatible(db, api[c], api[d])

TablesInv ==
    /\ ApiInv /\ TablesOK(db) /\ AllBorn(db, Unborn)
    /\ TxFits /\ TxReady /\ TxLocks

-----------------------------------------------------------------------------
(***************************************************************************)
(* What the statements of one transaction do to the tables d, leaving e.   *)
(***************************************************************************)
Doable(d, t) ==
    /\ d \in Tables /\ TablesOK(d)
    /\ t \in ApiState /\ t.req \in Request /\ t.rev \in 1..MaxRevision
    /\ AllBorn(d, {t.rev}) /\ IdsFit(d, t, {t.rev})
    /\ ~ StatementFails(d, t.req, t.ids)

(* Whatever is new was drawn for the transaction's revision.               *)
IdsFrom(d, t, e) == \A id \in e.resources : id \in d.resources \/ DrawnFor(id) = t.rev

(* A row was there before under the same key, or its key or the gap it is  *)
(* in is locked and its parent too, or its parent is new as well.          *)
ZonesFrom(d, t, e) ==
    \A z \in e.zones :
       \/ \E y \in d.zones : y.id = z.id /\ y.name = z.name /\ y.owner = z.owner
       \/ DrawnFor(z.id) = t.rev /\ ZoneLock(z) \in Locked(d, t)
NewLocation(d, t, l) ==
    /\ \E z \in d.zones : z.id = l.zone /\ ZoneLock(z) \in Shared(d, t)
    /\ \/ RangeLock(l.zone) \in Locked(d, t)
       \/ RangeLock(l.zone) \in Shared(d, t) /\ LocationLock(l) \in Locked(d, t)
LocationsFrom(d, t, e) ==
    \A l \in e.locations :
       \/ \E k \in d.locations : k.id = l.id /\ k.zone = l.zone /\ k.name = l.name
       \/ DrawnFor(l.id) = t.rev /\ (DrawnFor(l.zone) = t.rev \/ NewLocation(d, t, l))
NewRecord(d, t, r) ==
    /\ RecordLock(r) \in Locked(d, t)
    /\ \E l \in d.locations : l.id = r.loc /\ LocationLock(l) \in Shared(d, t)
RecordsFrom(d, t, e) ==
    \A r \in e.records :
       \/ \E q \in d.records : q.id = r.id /\ q.loc = r.loc /\ q.type = r.type
       \/ DrawnFor(r.id) = t.rev /\ (DrawnFor(r.loc) = t.rev \/ NewRecord(d, t, r))

(* A row that is gone was locked.                                          *)
RowsLeft(d, t, e) ==
    /\ \A z \in d.zones : z.id \in Ids(e.zones) \/ ZoneLock(z) \in Locked(d, t)
    /\ \A l \in d.locations : l.id \in Ids(e.locations) \/ LocationLock(l) \in Locked(d, t)

(* Nothing under a zone of somebody else has changed.                      *)
OthersKept(d, t, e) ==
    \A z \in d.zones :
       z.owner # t.req.user => z \in e.zones /\ ZoneTree(e, z) = ZoneTree(d, z)

StepOK(d, t, e) ==
    /\ TablesOK(e) /\ IdsFrom(d, t, e)
    /\ ZonesFrom(d, t, e) /\ LocationsFrom(d, t, e) /\ RecordsFrom(d, t, e)
    /\ RowsLeft(d, t, e) /\ OthersKept(d, t, e)
    /\ t.req.type # "import_zone" => Orphans(e) \subseteq Orphans(d)

(* The rows of tables are records with their fields.                       *)
LEMMA RowFields ==
    ASSUME NEW d \in Tables
    PROVE  /\ \A z \in d.zones : z \in ZoneRowType
           /\ \A l \in d.locations : l \in LocationRowType
           /\ \A r \in d.records : r \in RecordRowType
BY DEF Tables

(* Updating the rows of one table in place, keys and ids staying as they   *)
(* are, changes no key, id or parent.                                      *)
LEMMA ZoneUpdateStep ==
    ASSUME NEW d, NEW t, Doable(d, t), t.req.type = "update_zone"
    PROVE  StepOK(d, t, UpdateZone(d, t))
<1> DEFINE up(z) == IF z.id = t.ids.zone
                      THEN [z EXCEPT !.enabled = t.req.enabled, !.serial = t.serial] ELSE z
           e == UpdateZone(d, t)
<1>1. /\ e.zones = {up(z) : z \in d.zones} /\ e.locations = d.locations
      /\ e.records = d.records /\ e.resources = d.resources
  BY DEF UpdateZone, Doable, Tables
<1>2. \A z \in d.zones : up(z).id = z.id /\ up(z).name = z.name /\ up(z).owner = z.owner
  BY RowFields DEF Doable, ZoneRowType
<1> HIDE DEF e, up
<1>3. Ids(e.zones) = Ids(d.zones)
  BY <1>1, <1>2 DEF Ids
<1>4. TablesOK(e)
  <2>1. ZoneKeys(e) /\ PrimaryKeys(e)
    BY <1>1, <1>2 DEF ZoneKeys, PrimaryKeys, Doable, TablesOK
  <2> QED BY <2>1, <1>1, <1>3
          DEF Doable, TablesOK, Resourced, Parents, Kinds, LocationKeys, RecordKeys
<1>5. ZonesFrom(d, t, e)
  BY <1>1, <1>2 DEF ZonesFrom
<1>6. IdsFrom(d, t, e) /\ LocationsFrom(d, t, e) /\ RecordsFrom(d, t, e)
  BY <1>1 DEF IdsFrom, LocationsFrom, RecordsFrom
<1>7. RowsLeft(d, t, e)
  BY <1>1, <1>3 DEF RowsLeft, Ids
<1>8. OthersKept(d, t, e)
  <2>1. \A z \in d.zones : z.owner # t.req.user => up(z) = z
    BY DEF Doable, IdsFit, ZoneFits, ZoneTypes, up
  <2> QED BY <2>1, <1>1 DEF OthersKept, ZoneTree, LocationsOf, RecordsOf, Ids
<1>9. Orphans(e) = Orphans(d)
  BY <1>1, <1>3 DEF Orphans
<1> QED BY <1>4, <1>5, <1>6, <1>7, <1>8, <1>9 DEF StepOK, e

(* ... a location,                                                         *)
LEMMA LocationUpdateStep ==
    ASSUME NEW d, NEW t, Doable(d, t), t.req.type = "update_location"
    PROVE  StepOK(d, t, UpdateLocation(d, t))
<1> DEFINE up(l) == IF l.id = t.ids.loc THEN [l EXCEPT !.enabled = t.req.enabled] ELSE l
           e == UpdateLocation(d, t)
<1>1. /\ e.locations = {up(l) : l \in d.locations} /\ e.zones = d.zones
      /\ e.records = d.records /\ e.resources = d.resources
  BY DEF UpdateLocation, Doable, Tables
<1>2. \A l \in d.locations : up(l).id = l.id /\ up(l).name = l.name /\ up(l).zone = l.zone
  BY RowFields DEF Doable, LocationRowType
<1> HIDE DEF e, up
<1>3. Ids(e.locations) = Ids(d.locations)
  BY <1>1, <1>2 DEF Ids
<1>4. TablesOK(e)
  <2>1. LocationKeys(e) /\ PrimaryKeys(e)
    BY <1>1, <1>2 DEF LocationKeys, PrimaryKeys, Doable, TablesOK
  <2>2. Parents(e)
    BY <1>1, <1>2, <1>3 DEF Parents, Doable, TablesOK
  <2> QED BY <2>1, <2>2, <1>1, <1>3
          DEF Doable, TablesOK, Resourced, Kinds, ZoneKeys, RecordKeys
<1>5. LocationsFrom(d, t, e)
  BY <1>1, <1>2 DEF LocationsFrom
<1>6. IdsFrom(d, t, e) /\ ZonesFrom(d, t, e) /\ RecordsFrom(d, t, e)
  BY <1>1 DEF IdsFrom, ZonesFrom, RecordsFrom
<1>7. RowsLeft(d, t, e)
  BY <1>1, <1>3 DEF RowsLeft, Ids
<1>8. OthersKept(d, t, e)
  <2> SUFFICES ASSUME NEW z \in d.zones, z.owner # t.req.user
               PROVE  ZoneTree(e, z) = ZoneTree(d, z)
    BY <1>1 DEF OthersKept
  <2>1. z.id # t.ids.zone
    BY DEF Doable, IdsFit, ZoneFits, ZoneTypes
  <2>2. \A l \in d.locations : l.id = t.ids.loc => l.zone = t.ids.zone
    BY DEF Doable, IdsFit, LocationFits, LocationTypes
  <2>3. \A l \in d.locations : l.zone = z.id => up(l) = l
    BY <2>1, <2>2 DEF up
  <2>4. LocationsOf(e, z.id) = LocationsOf(d, z.id)
    BY <2>3, <1>1, <1>2 DEF LocationsOf
  <2> QED BY <2>4, <1>1 DEF ZoneTree, RecordsOf
<1>9. Orphans(e) = Orphans(d)
  BY <1>1, <1>3 DEF Orphans
<1> QED BY <1>4, <1>5, <1>6, <1>7, <1>8, <1>9 DEF StepOK, e

(* ... or a record set.                                                    *)
LEMMA RecordUpdateStep ==
    ASSUME NEW d, NEW t, Doable(d, t), t.req.type = "update_record"
    PROVE  StepOK(d, t, UpdateRecordSet(d, t))
<1> DEFINE up(r) == IF r.id = t.ids.rec
                      THEN [r EXCEPT !.value = t.req.value, !.enabled = t.req.enabled] ELSE r
           e == UpdateRecordSet(d, t)
<1>1. /\ e.records = {up(r) : r \in d.records} /\ e.zones = d.zones
      /\ e.locations = d.locations /\ e.resources = d.resources
  BY DEF UpdateRecordSet, Doable, Tables
<1>2. \A r \in d.records : up(r).id = r.id /\ up(r).loc = r.loc /\ up(r).type = r.type
  BY RowFields DEF Doable, RecordRowType
<1> HIDE DEF e, up
<1>3. Ids(e.records) = Ids(d.records)
  BY <1>1, <1>2 DEF Ids
<1>4. TablesOK(e)
  <2>1. RecordKeys(e) /\ PrimaryKeys(e)
    BY <1>1, <1>2 DEF RecordKeys, PrimaryKeys, Doable, TablesOK
  <2>2. Parents(e)
    BY <1>1, <1>2 DEF Parents, Doable, TablesOK
  <2> QED BY <2>1, <2>2, <1>1, <1>3
          DEF Doable, TablesOK, Resourced, Kinds, ZoneKeys, LocationKeys
<1>5. RecordsFrom(d, t, e)
  BY <1>1, <1>2 DEF RecordsFrom
<1>6. IdsFrom(d, t, e) /\ ZonesFrom(d, t, e) /\ LocationsFrom(d, t, e)
  BY <1>1 DEF IdsFrom, ZonesFrom, LocationsFrom
<1>7. RowsLeft(d, t, e)
  BY <1>1 DEF RowsLeft, Ids
<1>8. OthersKept(d, t, e)
  <2> SUFFICES ASSUME NEW z \in d.zones, z.owner # t.req.user
               PROVE  ZoneTree(e, z) = ZoneTree(d, z)
    BY <1>1 DEF OthersKept
  <2>1. z.id # t.ids.zone
    BY DEF Doable, IdsFit, ZoneFits, ZoneTypes
  <2>2. \A l \in d.locations : l.id = t.ids.loc => l.zone = t.ids.zone
    BY DEF Doable, IdsFit, LocationFits, LocationTypes
  <2>3. \A r \in d.records : r.id = t.ids.rec => r.loc = t.ids.loc
    BY DEF Doable, IdsFit, RecordFits, RecordTypes
  <2>4. t.ids.loc \notin Ids(LocationsOf(d, z.id))
    BY <2>1, <2>2 DEF Ids, LocationsOf
  <2>5. \A r \in d.records : r.loc \in Ids(LocationsOf(d, z.id)) => up(r) = r
    BY <2>3, <2>4 DEF up
  <2>6. RecordsOf(e, Ids(LocationsOf(d, z.id))) = RecordsOf(d, Ids(LocationsOf(d, z.id)))
    BY <2>5, <1>1, <1>2 DEF RecordsOf
  <2>7. LocationsOf(e, z.id) = LocationsOf(d, z.id)
    BY <1>1 DEF LocationsOf
  <2> QED BY <2>6, <2>7 DEF ZoneTree
<1>9. Orphans(e) = Orphans(d)
  BY <1>1, <1>3 DEF Orphans
<1> QED BY <1>4, <1>5, <1>6, <1>7, <1>8, <1>9 DEF StepOK, e

(* Whatever is deleted, the cascades leave no row without its parent.      *)
LEMMA DeleteKeeps ==
    ASSUME NEW d \in Tables, TablesOK(d), NEW ids
    PROVE  /\ TablesOK(DeleteResources(d, ids))
           /\ DeleteResources(d, ids).resources = d.resources \ ids
           /\ DeleteResources(d, ids).zones = {z \in d.zones : z.id \notin ids}
           /\ \A l : l \in DeleteResources(d, ids).locations <=>
                /\ l \in d.locations /\ l.id \notin ids
                /\ l.zone \in Ids(DeleteResources(d, ids).zones)
           /\ \A r : r \in DeleteResources(d, ids).records <=>
                /\ r \in d.records /\ r.id \notin ids
                /\ r.loc \in Ids(DeleteResources(d, ids).locations)
<1> DEFINE e == DeleteResources(d, ids)
<1>1. /\ e.resources = d.resources \ ids
      /\ e.zones = {z \in d.zones : z.id \notin ids}
  BY DEF DeleteResources
<1>2. e.locations = {l \in d.locations : l.id \notin ids /\ l.zone \in Ids(e.zones)}
  BY DEF DeleteResources
<1>3. e.records = {r \in d.records : r.id \notin ids /\ r.loc \in Ids(e.locations)}
  BY DEF DeleteResources
<1> HIDE DEF e
<1>4. Resourced(e)
  BY <1>1, <1>2, <1>3 DEF TablesOK, Resourced, Ids
<1>5. Parents(e)
  BY <1>2, <1>3 DEF Parents
<1>6. Kinds(e)
  BY <1>1, <1>2, <1>3 DEF TablesOK, Kinds, Ids
<1>7. ZoneKeys(e) /\ LocationKeys(e) /\ RecordKeys(e) /\ PrimaryKeys(e)
  BY <1>1, <1>2, <1>3 DEF TablesOK, ZoneKeys, LocationKeys, RecordKeys, PrimaryKeys
<1>8. TablesOK(e)
  BY <1>4, <1>5, <1>6, <1>7 DEF TablesOK
<1> QED BY <1>1, <1>2, <1>3, <1>8 DEF e

(* A deletion whose ids hold, with a row, the rows that refer to it, and   *)
(* only rows of the zone found, orphans no resource: the cascades find     *)
(* nothing left to do.                                                     *)
LEMMA DeletionStep ==
    ASSUME NEW d, NEW t, Doable(d, t), t.req.type \in ZoneTypes, NEW ids,
           \A z \in d.zones : z.id \in ids => z.id = t.ids.zone /\ ZoneLock(z) \in Locked(d, t),
           \A l \in d.locations : l.id \in ids \/ l.zone \in ids =>
              l.id \in ids /\ l.zone = t.ids.zone /\ LocationLock(l) \in Locked(d, t),
           \A r \in d.records : r.id \in ids \/ r.loc \in ids =>
              r.id \in ids /\ \A l \in d.locations : l.id = r.loc => l.zone = t.ids.zone
    PROVE  StepOK(d, t, DeleteResources(d, ids))
<1> DEFINE e == DeleteResources(d, ids)
<1>1. /\ d \in Tables /\ TablesOK(d)
      /\ \A z \in d.zones : z.id = t.ids.zone => z.owner = t.req.user
  BY DEF Doable, IdsFit, ZoneFits
<1>2. /\ TablesOK(e) /\ e.resources = d.resources \ ids
      /\ e.zones = {z \in d.zones : z.id \notin ids}
  BY <1>1, DeleteKeeps
<1>3. \A l : l \in e.locations <=> l \in d.locations /\ l.id \notin ids /\ l.zone \in Ids(e.zones)
  BY <1>1, DeleteKeeps
<1>4. \A r : r \in e.records <=> r \in d.records /\ r.id \notin ids /\ r.loc \in Ids(e.locations)
  BY <1>1, DeleteKeeps
<1> HIDE DEF e
<1>5. \A l \in d.locations : l.id \notin ids => l \in e.locations
  <2> SUFFICES ASSUME NEW l \in d.locations, l.id \notin ids PROVE l.zone \in Ids(e.zones)
    BY <1>3
  <2>1. PICK z \in d.zones : z.id = l.zone
    BY <1>1 DEF TablesOK, Parents, Ids
  <2>2. z.id \notin ids
    BY <2>1
  <2> QED BY <2>1, <2>2, <1>2 DEF Ids
<1>6. \A r \in d.records : r.id \notin ids => r \in e.records
  <2> SUFFICES ASSUME NEW r \in d.records, r.id \notin ids PROVE r.loc \in Ids(e.locations)
    BY <1>4
  <2>1. PICK l \in d.locations : l.id = r.loc
    BY <1>1 DEF TablesOK, Parents, Ids
  <2>2. l.id \notin ids
    BY <2>1
  <2> QED BY <2>1, <2>2, <1>5 DEF Ids
<1>7. IdsFrom(d, t, e) /\ ZonesFrom(d, t, e) /\ LocationsFrom(d, t, e) /\ RecordsFrom(d, t, e)
  BY <1>2, <1>3, <1>4 DEF IdsFrom, ZonesFrom, LocationsFrom, RecordsFrom
<1>8. RowsLeft(d, t, e)
  BY <1>2, <1>5 DEF RowsLeft, Ids
<1>9. OthersKept(d, t, e)
  <2> SUFFICES ASSUME NEW z \in d.zones, z.owner # t.req.user
               PROVE  z \in e.zones /\ ZoneTree(e, z) = ZoneTree(d, z)
    BY DEF OthersKept
  <2>1. z.id # t.ids.zone
    BY <1>1
  <2>2. z \in e.zones
    BY <2>1, <1>2
  <2>3. LocationsOf(e, z.id) = LocationsOf(d, z.id)
    BY <2>1, <1>3, <1>5 DEF LocationsOf
  <2>4. \A r \in d.records : r.loc \in Ids(LocationsOf(d, z.id)) => r.id \notin ids
    BY <2>1 DEF Ids, LocationsOf
  <2>5. RecordsOf(e, Ids(LocationsOf(d, z.id))) = RecordsOf(d, Ids(LocationsOf(d, z.id)))
    BY <2>4, <1>4, <1>6 DEF RecordsOf
  <2> QED BY <2>2, <2>3, <2>5 DEF ZoneTree
<1>10. Orphans(e) \subseteq Orphans(d)
  BY <1>2, <1>5, <1>6 DEF Orphans, Ids
<1> QED BY <1>2, <1>7, <1>8, <1>9, <1>10 DEF StepOK, e

(* DeleteZone: the zone, its locations and their record sets.              *)
LEMMA DeleteZoneStep ==
    ASSUME NEW d, NEW t, Doable(d, t), t.req.type = "delete_zone"
    PROVE  StepOK(d, t, DeleteZone(d, t))
<1> DEFINE ls == LocationsOf(d, t.ids.zone)
           rs == RecordsOf(d, Ids(ls))
           ids == {t.ids.zone} \cup Ids(ls) \cup Ids(rs)
<1>1. /\ Kinds(d) /\ Parents(d) /\ PrimaryKeys(d)
      /\ t.ids.zone \in ZoneIds /\ t.req.type \in ZoneTypes
  BY DEF Doable, TablesOK, IdsFit, ZoneFits, ZoneTypes
<1>2. Locked(d, t) = {ZoneLock(z) : z \in ZoneRows(d, t.ids.zone)} \cup TreeLocks(d, ls)
  BY DEF Locked, ExclusiveLocks
<1>3. /\ ls = {l \in d.locations : l.zone = t.ids.zone}
      /\ rs = {r \in d.records : r.loc \in Ids(ls)}
  BY DEF LocationsOf, RecordsOf
<1>4. Ids(ls) \subseteq LocationIds /\ Ids(rs) \subseteq RecordIds
  BY <1>1, <1>3 DEF Kinds, Ids
<1>5. DeleteZone(d, t) = DeleteResources(d, ids)
  BY DEF DeleteZone
<1> HIDE DEF ls, rs
<1>6. ASSUME NEW l \in d.locations PROVE l.id \in Ids(ls) <=> l.zone = t.ids.zone
  BY <1>1, <1>3 DEF PrimaryKeys, Ids
<1>7. ASSUME NEW r \in d.records PROVE r.id \in Ids(rs) <=> r.loc \in Ids(ls)
  BY <1>1, <1>3 DEF PrimaryKeys, Ids
<1>8. ASSUME NEW z \in d.zones, z.id \in ids
      PROVE  z.id = t.ids.zone /\ ZoneLock(z) \in Locked(d, t)
  <2>1. z.id \in ZoneIds
    BY <1>1 DEF Kinds, Ids
  <2>2. z.id = t.ids.zone
    BY <1>8, <2>1, <1>4, IdKinds
  <2> QED BY <2>2, <1>2 DEF ZoneRows
<1>9. ASSUME NEW l \in d.locations, l.id \in ids \/ l.zone \in ids
      PROVE  l.id \in ids /\ l.zone = t.ids.zone /\ LocationLock(l) \in Locked(d, t)
  <2>1. l.id \in LocationIds /\ l.zone \in ZoneIds
    BY <1>1 DEF Kinds, Parents, Ids
  <2>2. l.id \in Ids(ls) \/ l.zone = t.ids.zone
    BY <1>9, <2>1, <1>1, <1>4, IdKinds
  <2>3. l \in ls /\ l.id \in Ids(ls) /\ l.zone = t.ids.zone
    BY <2>2, <1>3, <1>6
  <2> QED BY <2>3, <1>2 DEF TreeLocks
<1>10. ASSUME NEW r \in d.records, r.id \in ids \/ r.loc \in ids
       PROVE  r.id \in ids /\ \A l \in d.locations : l.id = r.loc => l.zone = t.ids.zone
  <2>1. r.id \in RecordIds /\ r.loc \in LocationIds
    BY <1>1 DEF Kinds, Parents, Ids
  <2>2. r.id \in Ids(rs) \/ r.loc \in Ids(ls)
    BY <1>10, <2>1, <1>1, <1>4, IdKinds
  <2> QED BY <2>2, <1>6, <1>7
<1> HIDE DEF ids
<1> QED BY <1>1, <1>5, <1>8, <1>9, <1>10, DeletionStep

(* DeleteLocation: the location and its record sets.                       *)
LEMMA DeleteLocationStep ==
    ASSUME NEW d, NEW t, Doable(d, t), t.req.type = "delete_location"
    PROVE  StepOK(d, t, DeleteLocation(d, t))
<1> DEFINE rs == RecordsOf(d, {t.ids.loc})
           ids == {t.ids.loc} \cup Ids(rs)
<1>1. /\ Kinds(d) /\ Parents(d) /\ PrimaryKeys(d)
      /\ t.ids.loc \in LocationIds /\ t.req.type \in ZoneTypes
      /\ \A l \in d.locations : l.id = t.ids.loc => l.zone = t.ids.zone
  BY DEF Doable, TablesOK, IdsFit, LocationFits, ZoneTypes, LocationTypes
<1>2. Locked(d, t) = TreeLocks(d, LocationRows(d, t.ids.loc))
  BY DEF Locked, ExclusiveLocks
<1>3. rs = {r \in d.records : r.loc = t.ids.loc}
  BY DEF RecordsOf
<1>4. Ids(rs) \subseteq RecordIds
  BY <1>1, <1>3 DEF Kinds, Ids
<1>5. DeleteLocation(d, t) = DeleteResources(d, ids)
  BY DEF DeleteLocation
<1> HIDE DEF rs
<1>6. ASSUME NEW r \in d.records PROVE r.id \in Ids(rs) <=> r.loc = t.ids.loc
  BY <1>1, <1>3 DEF PrimaryKeys, Ids
<1>7. ASSUME NEW z \in d.zones, z.id \in ids
      PROVE  z.id = t.ids.zone /\ ZoneLock(z) \in Locked(d, t)
  <2>1. z.id \in ZoneIds
    BY <1>1 DEF Kinds, Ids
  <2> QED BY <1>7, <2>1, <1>1, <1>4, IdKinds
<1>8. ASSUME NEW l \in d.locations, l.id \in ids \/ l.zone \in ids
      PROVE  l.id \in ids /\ l.zone = t.ids.zone /\ LocationLock(l) \in Locked(d, t)
  <2>1. l.id \in LocationIds /\ l.zone \in ZoneIds
    BY <1>1 DEF Kinds, Parents, Ids
  <2>2. l.id = t.ids.loc
    BY <1>8, <2>1, <1>1, <1>4, IdKinds
  <2> QED BY <2>2, <1>1, <1>2 DEF TreeLocks, LocationRows
<1>9. ASSUME NEW r \in d.records, r.id \in ids \/ r.loc \in ids
      PROVE  r.id \in ids /\ \A l \in d.locations : l.id = r.loc => l.zone = t.ids.zone
  <2>1. r.id \in RecordIds /\ r.loc \in LocationIds
    BY <1>1 DEF Kinds, Parents, Ids
  <2>2. r.id \in Ids(rs) \/ r.loc = t.ids.loc
    BY <1>9, <2>1, <1>1, <1>4, IdKinds
  <2> QED BY <2>2, <1>1, <1>6
<1> HIDE DEF ids
<1> QED BY <1>1, <1>5, <1>7, <1>8, <1>9, DeletionStep

(* DeleteRecordSet: the record set.                                        *)
LEMMA DeleteRecordStep ==
    ASSUME NEW d, NEW t, Doable(d, t), t.req.type = "delete_record"
    PROVE  StepOK(d, t, DeleteRecordSet(d, t))
<1> DEFINE ids == {t.ids.rec}
<1>1. /\ Kinds(d) /\ Parents(d) /\ t.ids.rec \in RecordIds /\ t.req.type \in ZoneTypes
      /\ \A l \in d.locations : l.id = t.ids.loc => l.zone = t.ids.zone
      /\ \A r \in d.records : r.id = t.ids.rec => r.loc = t.ids.loc
  BY DEF Doable, TablesOK, IdsFit, LocationFits, RecordFits, ZoneTypes, LocationTypes, RecordTypes
<1>2. DeleteRecordSet(d, t) = DeleteResources(d, ids)
  BY DEF DeleteRecordSet
<1>3. ASSUME NEW z \in d.zones, z.id \in ids PROVE FALSE
  BY <1>1, <1>3, IdKinds DEF Kinds, Ids
<1>4. ASSUME NEW l \in d.locations, l.id \in ids \/ l.zone \in ids PROVE FALSE
  <2>1. l.id \in LocationIds /\ l.zone \in ZoneIds
    BY <1>1 DEF Kinds, Parents, Ids
  <2> QED BY <1>1, <1>4, <2>1, IdKinds
<1>5. ASSUME NEW r \in d.records, r.id \in ids \/ r.loc \in ids
      PROVE  r.id \in ids /\ \A l \in d.locations : l.id = r.loc => l.zone = t.ids.zone
  <2>1. r.loc \in LocationIds
    BY <1>1 DEF Kinds, Parents, Ids
  <2>2. r.id = t.ids.rec
    BY <1>1, <1>5, <2>1, IdKinds
  <2> QED BY <2>2, <1>1
<1> HIDE DEF ids
<1> QED BY <1>1, <1>2, <1>3, <1>4, <1>5, DeletionStep

(* No row that is there has an id drawn for the transaction's revision.    *)
LEMMA OldIds ==
    ASSUME NEW d, NEW t, Doable(d, t)
    PROVE  /\ \A z \in d.zones : DrawnFor(z.id) # t.rev
           /\ \A l \in d.locations : DrawnFor(l.id) # t.rev /\ DrawnFor(l.zone) # t.rev
           /\ \A r \in d.records : DrawnFor(r.id) # t.rev /\ DrawnFor(r.loc) # t.rev
<1>1. \A id \in d.resources : DrawnFor(id) # t.rev
  BY DEF Doable, AllBorn
<1>2. Resourced(d) /\ Parents(d)
  BY DEF Doable, TablesOK
<1> QED BY <1>1, <1>2 DEF Resourced, Parents, Ids

(* AddZone: the zone, its apex and the name servers there.                 *)
LEMMA AddZoneStep ==
    ASSUME NEW d, NEW t, Doable(d, t), t.req.type = "add_zone"
    PROVE  StepOK(d, t, AddZone(d, t))
<1> DEFINE zid == ZoneId(t.rev)
           lid == LocationId(t.rev, Apex)
           nid == RecordId(t.rev, Apex, NS)
           zone == ZoneRow(zid, t.req.zone, t.req.user, t.req.enabled, InitialSerial)
           apex == LocationRow(lid, zid, Apex, TRUE)
           ns == RecordRow(nid, lid, NS, NSValue, TRUE)
           e == AddZone(d, t)
<1>1. /\ e.resources = d.resources \cup {zid, lid, nid} /\ e.zones = d.zones \cup {zone}
      /\ e.locations = d.locations \cup {apex} /\ e.records = d.records \cup {ns}
  BY DEF AddZone
<1>2. /\ zone.id = zid /\ zone.name = t.req.zone
      /\ apex.id = lid /\ apex.zone = zid /\ ns.id = nid /\ ns.loc = lid
  BY DEF ZoneRow, LocationRow, RecordRow
<1>3. /\ zid \in ZoneIds /\ lid \in LocationIds /\ nid \in RecordIds
      /\ DrawnFor(zid) = t.rev /\ DrawnFor(lid) = t.rev /\ DrawnFor(nid) = t.rev
  BY IdKinds, VocabularyAssumption DEF Doable
<1>4. \A z \in d.zones : z.name # t.req.zone
  BY DEF Doable, StatementFails
<1>5. ZoneLock(zone) \in Locked(d, t)
  BY <1>2 DEF Locked, ExclusiveLocks, ZoneLock
<1>6. TablesOK(d)
  BY DEF Doable
<1> HIDE DEF e, zone, apex, ns, zid, lid, nid
<1>7. /\ Ids(e.zones) = Ids(d.zones) \cup {zid} /\ Ids(e.locations) = Ids(d.locations) \cup {lid}
      /\ Ids(e.records) = Ids(d.records) \cup {nid}
  BY <1>1, <1>2 DEF Ids
<1>8. TablesOK(e)
  <2>1. Resourced(e)
    BY <1>1, <1>6, <1>7 DEF TablesOK, Resourced
  <2>2. Parents(e)
    BY <1>1, <1>2, <1>6, <1>7 DEF TablesOK, Parents
  <2>3. Kinds(e)
    BY <1>1, <1>3, <1>6, <1>7 DEF TablesOK, Kinds
  <2>4. PrimaryKeys(e)
    BY <1>1, <1>2, <1>3, <1>6, OldIds DEF TablesOK, PrimaryKeys
  <2>5. ZoneKeys(e)
    BY <1>1, <1>2, <1>4, <1>6 DEF TablesOK, ZoneKeys
  <2>6. LocationKeys(e)
    BY <1>1, <1>2, <1>3, <1>6, OldIds DEF TablesOK, LocationKeys
  <2>7. RecordKeys(e)
    BY <1>1, <1>2, <1>3, <1>6, OldIds DEF TablesOK, RecordKeys
  <2> QED BY <2>1, <2>2, <2>3, <2>4, <2>5, <2>6, <2>7 DEF TablesOK
<1>9. IdsFrom(d, t, e)
  BY <1>1, <1>3 DEF IdsFrom
<1>10. ZonesFrom(d, t, e)
  BY <1>1, <1>2, <1>3, <1>5 DEF ZonesFrom
<1>11. LocationsFrom(d, t, e) /\ RecordsFrom(d, t, e)
  BY <1>1, <1>2, <1>3 DEF LocationsFrom, RecordsFrom
<1>12. RowsLeft(d, t, e)
  BY <1>1 DEF RowsLeft, Ids
<1>13. OthersKept(d, t, e)
  <2> SUFFICES ASSUME NEW z \in d.zones PROVE z \in e.zones /\ ZoneTree(e, z) = ZoneTree(d, z)
    BY DEF OthersKept
  <2>1. z.id # zid
    BY <1>3, OldIds
  <2>2. LocationsOf(e, z.id) = LocationsOf(d, z.id)
    BY <2>1, <1>1, <1>2 DEF LocationsOf
  <2>3. lid \notin Ids(LocationsOf(d, z.id))
    BY <1>3, OldIds DEF Ids, LocationsOf
  <2>4. RecordsOf(e, Ids(LocationsOf(d, z.id))) = RecordsOf(d, Ids(LocationsOf(d, z.id)))
    BY <2>3, <1>1, <1>2 DEF RecordsOf
  <2> QED BY <2>2, <2>4, <1>1 DEF ZoneTree
<1>14. Orphans(e) \subseteq Orphans(d)
  BY <1>1, <1>7 DEF Orphans
<1> QED BY <1>8, <1>9, <1>10, <1>11, <1>12, <1>13, <1>14 DEF StepOK, e

(* AddLocation.                                                            *)
LEMMA AddLocationStep ==
    ASSUME NEW d, NEW t, Doable(d, t), t.req.type = "add_location"
    PROVE  StepOK(d, t, AddLocation(d, t))
<1> DEFINE lid == LocationId(t.rev, t.req.label)
           new == LocationRow(lid, t.ids.zone, t.req.label, t.req.enabled)
           e == AddLocation(d, t)
<1>1. /\ e.resources = d.resources \cup {lid} /\ e.zones = d.zones
      /\ e.locations = d.locations \cup {new} /\ e.records = d.records
  BY DEF AddLocation, Doable, Tables
<1>2. new.id = lid /\ new.zone = t.ids.zone /\ new.name = t.req.label
  BY DEF LocationRow
<1>3. lid \in LocationIds /\ DrawnFor(lid) = t.rev
  BY IdKinds, RequestFields DEF Doable
<1>4. /\ \E z \in d.zones : z.id = t.ids.zone
      /\ \A l \in d.locations : l.zone = t.ids.zone => l.name # t.req.label
  BY DEF Doable, StatementFails, ZoneRows, LocationsOf
<1>5. TablesOK(d)
  BY DEF Doable
<1>6. Locked(d, t) = {<<"location", t.ids.zone, t.req.label>>}
  BY DEF Locked, ExclusiveLocks
<1>7. Shared(d, t) = {ZoneLock(z) : z \in ZoneRows(d, t.ids.zone)} \cup {RangeLock(t.ids.zone)}
  BY DEF Shared, SharedLocks
<1>8. NewLocation(d, t, new)
  BY <1>2, <1>4, <1>6, <1>7 DEF NewLocation, LocationLock, ZoneRows
<1>9. \A z \in d.zones : z.id = t.ids.zone => z.owner = t.req.user
  BY DEF Doable, IdsFit, ZoneFits, ZoneTypes
<1> HIDE DEF e, new, lid
<1>10. Ids(e.zones) = Ids(d.zones) /\ Ids(e.locations) = Ids(d.locations) \cup {lid}
       /\ Ids(e.records) = Ids(d.records)
  BY <1>1, <1>2 DEF Ids
<1>11. TablesOK(e)
  <2>1. Resourced(e)
    BY <1>1, <1>5, <1>10 DEF TablesOK, Resourced
  <2>2. t.ids.zone \in Ids(d.zones)
    BY <1>4 DEF Ids
  <2>3. Parents(e)
    BY <1>1, <1>2, <1>5, <1>10, <2>2 DEF TablesOK, Parents
  <2>4. Kinds(e)
    BY <1>1, <1>3, <1>5, <1>10 DEF TablesOK, Kinds
  <2>5. PrimaryKeys(e)
    BY <1>1, <1>2, <1>3, <1>5, OldIds DEF TablesOK, PrimaryKeys
  <2>6. LocationKeys(e)
    BY <1>1, <1>2, <1>4, <1>5 DEF TablesOK, LocationKeys
  <2>7. ZoneKeys(e) /\ RecordKeys(e)
    BY <1>1, <1>5 DEF TablesOK, ZoneKeys, RecordKeys
  <2> QED BY <2>1, <2>3, <2>4, <2>5, <2>6, <2>7 DEF TablesOK
<1>12. IdsFrom(d, t, e) /\ ZonesFrom(d, t, e) /\ RecordsFrom(d, t, e)
  BY <1>1, <1>3 DEF IdsFrom, ZonesFrom, RecordsFrom
<1>13. LocationsFrom(d, t, e)
  BY <1>1, <1>2, <1>3, <1>8 DEF LocationsFrom
<1>14. RowsLeft(d, t, e)
  BY <1>1 DEF RowsLeft, Ids
<1>15. OthersKept(d, t, e)
  <2> SUFFICES ASSUME NEW z \in d.zones, z.owner # t.req.user
               PROVE  ZoneTree(e, z) = ZoneTree(d, z)
    BY <1>1 DEF OthersKept
  <2>1. LocationsOf(e, z.id) = LocationsOf(d, z.id)
    BY <1>1, <1>2, <1>9 DEF LocationsOf
  <2> QED BY <2>1, <1>1 DEF ZoneTree, RecordsOf
<1>16. Orphans(e) \subseteq Orphans(d)
  BY <1>1, <1>10 DEF Orphans
<1> QED BY <1>11, <1>12, <1>13, <1>14, <1>15, <1>16 DEF StepOK, e

(* AddRecordSet.                                                           *)
LEMMA AddRecordStep ==
    ASSUME NEW d, NEW t, Doable(d, t), t.req.type = "add_record"
    PROVE  StepOK(d, t, AddRecordSet(d, t))
<1> DEFINE rid == RecordId(t.rev, t.req.label, t.req.rtype)
           new == RecordRow(rid, t.ids.loc, t.req.rtype, t.req.value, t.req.enabled)
           e == AddRecordSet(d, t)
<1>1. /\ e.resources = d.resources \cup {rid} /\ e.zones = d.zones
      /\ e.locations = d.locations /\ e.records = d.records \cup {new}
  BY DEF AddRecordSet, Doable, Tables
<1>2. new.id = rid /\ new.loc = t.ids.loc /\ new.type = t.req.rtype
  BY DEF RecordRow
<1>3. rid \in RecordIds /\ DrawnFor(rid) = t.rev
  BY IdKinds, RequestFields DEF Doable
<1>4. /\ \E l \in d.locations : l.id = t.ids.loc
      /\ \A r \in d.records : r.loc = t.ids.loc => r.type # t.req.rtype
  BY DEF Doable, StatementFails, LocationRows, RecordsOf
<1>5. TablesOK(d)
  BY DEF Doable
<1>6. Locked(d, t) = {<<"record", t.ids.loc, t.req.rtype>>}
  BY DEF Locked, ExclusiveLocks
<1>7. Shared(d, t) = {LocationLock(l) : l \in LocationRows(d, t.ids.loc)}
  BY DEF Shared, SharedLocks
<1>8. NewRecord(d, t, new)
  BY <1>2, <1>4, <1>6, <1>7 DEF NewRecord, RecordLock, LocationRows
<1>9. /\ \A z \in d.zones : z.id = t.ids.zone => z.owner = t.req.user
      /\ \A l \in d.locations : l.id = t.ids.loc => l.zone = t.ids.zone
  BY DEF Doable, IdsFit, ZoneFits, LocationFits, ZoneTypes, LocationTypes
<1> HIDE DEF e, new, rid
<1>10. Ids(e.zones) = Ids(d.zones) /\ Ids(e.locations) = Ids(d.locations)
       /\ Ids(e.records) = Ids(d.records) \cup {rid}
  BY <1>1, <1>2 DEF Ids
<1>11. TablesOK(e)
  <2>1. Resourced(e)
    BY <1>1, <1>5, <1>10 DEF TablesOK, Resourced
  <2>2. t.ids.loc \in Ids(d.locations)
    BY <1>4 DEF Ids
  <2>3. Parents(e)
    BY <1>1, <1>2, <1>5, <1>10, <2>2 DEF TablesOK, Parents
  <2>4. Kinds(e)
    BY <1>1, <1>3, <1>5, <1>10 DEF TablesOK, Kinds
  <2>5. PrimaryKeys(e)
    BY <1>1, <1>2, <1>3, <1>5, OldIds DEF TablesOK, PrimaryKeys
  <2>6. RecordKeys(e)
    BY <1>1, <1>2, <1>4, <1>5 DEF TablesOK, RecordKeys
  <2>7. ZoneKeys(e) /\ LocationKeys(e)
    BY <1>1, <1>5 DEF TablesOK, ZoneKeys, LocationKeys
  <2> QED BY <2>1, <2>3, <2>4, <2>5, <2>6, <2>7 DEF TablesOK
<1>12. IdsFrom(d, t, e) /\ ZonesFrom(d, t, e) /\ LocationsFrom(d, t, e)
  BY <1>1, <1>3 DEF IdsFrom, ZonesFrom, LocationsFrom
<1>13. RecordsFrom(d, t, e)
  BY <1>1, <1>2, <1>3, <1>8 DEF RecordsFrom
<1>14. RowsLeft(d, t, e)
  BY <1>1 DEF RowsLeft, Ids
<1>15. OthersKept(d, t, e)
  <2> SUFFICES ASSUME NEW z \in d.zones, z.owner # t.req.user
               PROVE  ZoneTree(e, z) = ZoneTree(d, z)
    BY <1>1 DEF OthersKept
  <2>1. LocationsOf(e, z.id) = LocationsOf(d, z.id)
    BY <1>1 DEF LocationsOf
  <2>2. t.ids.loc \notin Ids(LocationsOf(d, z.id))
    BY <1>9 DEF Ids, LocationsOf
  <2>3. RecordsOf(e, Ids(LocationsOf(d, z.id))) = RecordsOf(d, Ids(LocationsOf(d, z.id)))
    BY <2>2, <1>1, <1>2 DEF RecordsOf
  <2> QED BY <2>1, <2>3 DEF ZoneTree
<1>16. Orphans(e) \subseteq Orphans(d)
  BY <1>1, <1>10 DEF Orphans
<1> QED BY <1>11, <1>12, <1>13, <1>14, <1>15, <1>16 DEF StepOK, e

(* ImportZone: the locations of the zone are deleted, and their record     *)
(* sets by cascade, and the new ones inserted.                             *)
LEMMA ImportZoneStep ==
    ASSUME NEW d, NEW t, Doable(d, t), t.req.type = "import_zone"
    PROVE  StepOK(d, t, ImportZone(d, t))
<1> DEFINE old == Ids(LocationsOf(d, t.ids.zone))
           c == DeleteResources(d, old)
           lrow(x) == LocationRow(LocationId(t.rev, x[1]), t.ids.zone, x[1], TRUE)
           rrow(x) == RecordRow(RecordId(t.rev, x[1], x[2]), LocationId(t.rev, x[1]),
                                x[2], x[3], TRUE)
           ls == {lrow(x) : x \in t.req.entries}
           rs == {rrow(x) : x \in t.req.entries}
           e == ImportZone(d, t)
<1>1. /\ d \in Tables /\ TablesOK(d) /\ c \in Tables
      /\ t.ids.zone \in ZoneIds /\ DrawnFor(t.ids.zone) # t.rev
      /\ \A z \in d.zones : z.id = t.ids.zone => z.owner = t.req.user
  BY DeleteResourcesType DEF Doable, IdsFit, ZoneFits, ZoneTypes
<1>2. /\ e.resources = c.resources \cup Ids(ls) \cup Ids(rs) /\ e.zones = c.zones
      /\ e.locations = c.locations \cup ls /\ e.records = c.records \cup rs
  BY <1>1 DEF ImportZone, Tables
<1>3. /\ TablesOK(c) /\ c.resources = d.resources \ old
      /\ c.zones = {z \in d.zones : z.id \notin old}
  BY <1>1, DeleteKeeps
<1>4. \A l : l \in c.locations <=> l \in d.locations /\ l.id \notin old /\ l.zone \in Ids(c.zones)
  BY <1>1, DeleteKeeps
<1>5. \A r : r \in c.records <=> r \in d.records /\ r.id \notin old /\ r.loc \in Ids(c.locations)
  BY <1>1, DeleteKeeps
<1>6. \A x \in t.req.entries :
         /\ x[1] \in Labels /\ x[2] \in RTypes
         /\ \A y \in t.req.entries : x[1] = y[1] /\ x[2] = y[2] => x = y
  BY RequestFields, VocabularyAssumption DEF Doable
<1>7. \A x \in t.req.entries :
         /\ lrow(x).id = LocationId(t.rev, x[1]) /\ lrow(x).zone = t.ids.zone /\ lrow(x).name = x[1]
         /\ rrow(x).id = RecordId(t.rev, x[1], x[2]) /\ rrow(x).loc = LocationId(t.rev, x[1])
         /\ rrow(x).type = x[2]
  BY DEF LocationRow, RecordRow
<1>8. /\ \A l \in ls : l.id \in LocationIds /\ DrawnFor(l.id) = t.rev /\ l.zone = t.ids.zone
      /\ \A r \in rs : /\ r.id \in RecordIds /\ DrawnFor(r.id) = t.rev
                       /\ r.loc \in Ids(ls) /\ DrawnFor(r.loc) = t.rev
  <2>1. t.rev \in 1..MaxRevision
    BY DEF Doable
  <2>2. ASSUME NEW x \in t.req.entries
        PROVE  /\ LocationId(t.rev, x[1]) \in LocationIds /\ DrawnFor(LocationId(t.rev, x[1])) = t.rev
               /\ RecordId(t.rev, x[1], x[2]) \in RecordIds
               /\ DrawnFor(RecordId(t.rev, x[1], x[2])) = t.rev
    BY <2>1, <1>6, IdKinds
  <2>3. \A x \in t.req.entries : LocationId(t.rev, x[1]) \in Ids(ls)
    BY <1>7 DEF Ids
  <2> HIDE DEF lrow, rrow
  <2> QED BY <2>2, <2>3, <1>7
<1>9. \A k, l \in ls : k.id = l.id \/ k.name = l.name => k = l
  <2> HIDE DEF lrow
  <2>1. ASSUME NEW x \in t.req.entries, NEW y \in t.req.entries,
               lrow(x).id = lrow(y).id \/ lrow(x).name = lrow(y).name
        PROVE  lrow(x) = lrow(y)
    <3>1. LocationId(t.rev, x[1]) = LocationId(t.rev, y[1]) \/ x[1] = y[1]
      BY <2>1, <1>7
    <3>2. x[1] = y[1]
      BY <3>1, IdsOfLabels
    <3> QED BY <3>2 DEF lrow
  <2> QED BY <2>1
<1>10. \A q, r \in rs : q.id = r.id \/ (q.loc = r.loc /\ q.type = r.type) => q = r
  <2> HIDE DEF rrow
  <2>1. ASSUME NEW x \in t.req.entries, NEW y \in t.req.entries,
               \/ rrow(x).id = rrow(y).id
               \/ rrow(x).loc = rrow(y).loc /\ rrow(x).type = rrow(y).type
        PROVE  rrow(x) = rrow(y)
    <3>1. \/ RecordId(t.rev, x[1], x[2]) = RecordId(t.rev, y[1], y[2])
          \/ LocationId(t.rev, x[1]) = LocationId(t.rev, y[1]) /\ x[2] = y[2]
      BY <2>1, <1>7
    <3>2. x[1] = y[1] /\ x[2] = y[2]
      BY <3>1, IdsOfLabels
    <3> QED BY <3>2, <1>6 DEF rrow
  <2> QED BY <2>1
<1>11. /\ RangeLock(t.ids.zone) \in Locked(d, t)
       /\ \A l \in d.locations : l.zone = t.ids.zone => LocationLock(l) \in Locked(d, t)
  BY DEF Locked, ExclusiveLocks, TreeLocks, LocationsOf
<1>12. \E z \in d.zones : z.id = t.ids.zone /\ ZoneLock(z) \in Shared(d, t)
  BY DEF Doable, StatementFails, Shared, SharedLocks, ZoneRows
<1>13. old \subseteq LocationIds
  BY <1>1 DEF TablesOK, Kinds, Ids, LocationsOf
<1>14. \A l \in d.locations : l.id \in old <=> l.zone = t.ids.zone
  BY <1>1 DEF TablesOK, PrimaryKeys, Ids, LocationsOf
<1> HIDE DEF e, c, old, ls, rs, lrow, rrow
<1>15. c.zones = d.zones
  <2>1. \A z \in d.zones : z.id \in ZoneIds
    BY <1>1 DEF TablesOK, Kinds, Ids
  <2> QED BY <2>1, <1>3, <1>13, IdKinds
<1>16. \A l \in d.locations : l.zone # t.ids.zone => l \in c.locations
  BY <1>1, <1>4, <1>14, <1>15 DEF TablesOK, Parents
<1>17. /\ \A l \in c.locations : l.zone # t.ids.zone /\ DrawnFor(l.id) # t.rev
       /\ \A r \in c.records : DrawnFor(r.id) # t.rev /\ DrawnFor(r.loc) # t.rev
  BY <1>4, <1>5, <1>14, OldIds
<1>18. /\ Ids(e.zones) = Ids(c.zones) /\ Ids(e.locations) = Ids(c.locations) \cup Ids(ls)
       /\ Ids(e.records) = Ids(c.records) \cup Ids(rs)
  BY <1>2 DEF Ids
<1>19. TablesOK(e)
  <2>1. Resourced(e)
    BY <1>2, <1>3, <1>18 DEF TablesOK, Resourced
  <2>2. t.ids.zone \in Ids(c.zones)
    BY <1>12, <1>15 DEF Ids
  <2>3. Parents(e)
    BY <1>2, <1>3, <1>8, <1>18, <2>2 DEF TablesOK, Parents
  <2>4. Ids(ls) \subseteq LocationIds /\ Ids(rs) \subseteq RecordIds
    BY <1>8 DEF Ids
  <2>5. Kinds(e)
    BY <1>2, <1>3, <1>18, <2>4 DEF TablesOK, Kinds
  <2>6. PrimaryKeys(e)
    BY <1>2, <1>3, <1>8, <1>9, <1>10, <1>17 DEF TablesOK, PrimaryKeys
  <2>7. LocationKeys(e)
    BY <1>2, <1>3, <1>8, <1>9, <1>17 DEF TablesOK, LocationKeys
  <2>8. RecordKeys(e)
    BY <1>2, <1>3, <1>8, <1>10, <1>17 DEF TablesOK, RecordKeys
  <2>9. ZoneKeys(e)
    BY <1>2, <1>3 DEF TablesOK, ZoneKeys
  <2> QED BY <2>1, <2>3, <2>5, <2>6, <2>7, <2>8, <2>9 DEF TablesOK
<1>20. IdsFrom(d, t, e)
  BY <1>2, <1>3, <1>8 DEF IdsFrom, Ids
<1>21. ZonesFrom(d, t, e)
  BY <1>2, <1>15 DEF ZonesFrom
<1>22. LocationsFrom(d, t, e)
  <2>1. \A l \in ls : NewLocation(d, t, l)
    BY <1>8, <1>11, <1>12 DEF NewLocation
  <2> QED BY <2>1, <1>2, <1>4, <1>8 DEF LocationsFrom
<1>23. RecordsFrom(d, t, e)
  BY <1>2, <1>5, <1>8 DEF RecordsFrom
<1>24. RowsLeft(d, t, e)
  BY <1>2, <1>11, <1>15, <1>16 DEF RowsLeft, Ids
<1>25. OthersKept(d, t, e)
  <2> SUFFICES ASSUME NEW z \in d.zones, z.owner # t.req.user
               PROVE  ZoneTree(e, z) = ZoneTree(d, z)
    BY <1>2, <1>15 DEF OthersKept
  <2>1. z.id # t.ids.zone
    BY <1>1
  <2>2. LocationsOf(e, z.id) = LocationsOf(d, z.id)
    BY <2>1, <1>2, <1>4, <1>8, <1>16 DEF LocationsOf
  <2> DEFINE lids == Ids(LocationsOf(d, z.id))
  <2>3. \A r \in rs : r.loc \notin lids
    BY <1>8, OldIds DEF Ids, LocationsOf
  <2>4. ASSUME NEW r \in d.records, r.loc \in lids PROVE r \in c.records
    <3>1. PICK l \in d.locations : l.id = r.loc /\ l.zone = z.id
      BY <2>4 DEF Ids, LocationsOf
    <3>2. r.loc \in Ids(c.locations)
      BY <3>1, <2>1, <1>16 DEF Ids
    <3>3. r.id \in RecordIds
      BY <1>1 DEF TablesOK, Kinds, Ids
    <3> QED BY <3>2, <3>3, <1>5, <1>13, IdKinds
  <2>5. RecordsOf(e, lids) = RecordsOf(d, lids)
    BY <2>3, <2>4, <1>2, <1>5 DEF RecordsOf
  <2> QED BY <2>2, <2>5 DEF ZoneTree
<1> QED BY <1>19, <1>20, <1>21, <1>22, <1>23, <1>24, <1>25 DEF StepOK, e

(* Whatever the operation.                                                 *)
LEMMA EffectStep ==
    ASSUME NEW d, NEW t, Doable(d, t)
    PROVE  StepOK(d, t, Effect(d, t))
<1>1. t.req.type \in {"add_zone", "update_zone", "delete_zone", "import_zone",
         "add_location", "update_location", "delete_location",
         "add_record", "update_record", "delete_record"}
  BY RequestFields DEF Doable
<1>2. CASE t.req.type = "add_zone" BY <1>2, AddZoneStep DEF Effect
<1>3. CASE t.req.type = "update_zone" BY <1>3, ZoneUpdateStep DEF Effect
<1>4. CASE t.req.type = "delete_zone" BY <1>4, DeleteZoneStep DEF Effect
<1>5. CASE t.req.type = "import_zone" BY <1>5, ImportZoneStep DEF Effect
<1>6. CASE t.req.type = "add_location" BY <1>6, AddLocationStep DEF Effect
<1>7. CASE t.req.type = "update_location" BY <1>7, LocationUpdateStep DEF Effect
<1>8. CASE t.req.type = "delete_location" BY <1>8, DeleteLocationStep DEF Effect
<1>9. CASE t.req.type = "add_record" BY <1>9, AddRecordStep DEF Effect
<1>10. CASE t.req.type = "update_record" BY <1>10, RecordUpdateStep DEF Effect
<1>11. CASE t.req.type = "delete_record" BY <1>11, DeleteRecordStep DEF Effect
<1> QED BY <1>1, <1>2, <1>3, <1>4, <1>5, <1>6, <1>7, <1>8, <1>9, <1>10, <1>11

-----------------------------------------------------------------------------
(***************************************************************************)
(* The transaction t beside another one, s, that takes the tables from d   *)
(* to e while t is open.                                                   *)
(***************************************************************************)
Beside(d, s, e, t) ==
    /\ Doable(d, s) /\ StepOK(d, s, e)
    /\ t.req \in Request /\ IdsFit(d, t, {s.rev})
    /\ Compatible(d, s, t) /\ Compatible(d, t, s)

(* The rows t refers to by id have the locks they had.                     *)
LEMMA RowLocksShrink ==
    ASSUME NEW d, NEW s, NEW e, NEW t, Beside(d, s, e, t)
    PROVE  /\ t.req.type \in ZoneTypes =>
                {ZoneLock(z) : z \in ZoneRows(e, t.ids.zone)}
                  \subseteq {ZoneLock(z) : z \in ZoneRows(d, t.ids.zone)}
           /\ t.req.type \in LocationTypes =>
                {LocationLock(l) : l \in LocationRows(e, t.ids.loc)}
                  \subseteq {LocationLock(l) : l \in LocationRows(d, t.ids.loc)}
           /\ t.req.type \in RecordTypes =>
                {RecordLock(r) : r \in RecordRows(e, t.ids.rec)}
                  \subseteq {RecordLock(r) : r \in RecordRows(d, t.ids.rec)}
<1>1. ZonesFrom(d, s, e) /\ LocationsFrom(d, s, e) /\ RecordsFrom(d, s, e)
  BY DEF Beside, StepOK
<1>2. ASSUME t.req.type \in ZoneTypes, NEW z \in ZoneRows(e, t.ids.zone)
      PROVE  \E y \in ZoneRows(d, t.ids.zone) : ZoneLock(y) = ZoneLock(z)
  <2>1. z \in e.zones /\ z.id = t.ids.zone /\ DrawnFor(z.id) # s.rev
    BY <1>2 DEF ZoneRows, Beside, IdsFit, ZoneFits
  <2> QED BY <2>1, <1>1 DEF ZonesFrom, ZoneRows, ZoneLock
<1>3. ASSUME t.req.type \in LocationTypes, NEW l \in LocationRows(e, t.ids.loc)
      PROVE  \E k \in LocationRows(d, t.ids.loc) : LocationLock(k) = LocationLock(l)
  <2>1. l \in e.locations /\ l.id = t.ids.loc /\ DrawnFor(l.id) # s.rev
    BY <1>3 DEF LocationRows, Beside, IdsFit, LocationFits
  <2> QED BY <2>1, <1>1 DEF LocationsFrom, LocationRows, LocationLock
<1>4. ASSUME t.req.type \in RecordTypes, NEW r \in RecordRows(e, t.ids.rec)
      PROVE  \E q \in RecordRows(d, t.ids.rec) : RecordLock(q) = RecordLock(r)
  <2>1. r \in e.records /\ r.id = t.ids.rec /\ DrawnFor(r.id) # s.rev
    BY <1>4 DEF RecordRows, Beside, IdsFit, RecordFits
  <2> QED BY <2>1, <1>1 DEF RecordsFrom, RecordRows, RecordLock
<1> QED BY <1>2, <1>3, <1>4

(* Locations that t holds and that were there get no new record sets.      *)
LEMMA TreeLocksShrink ==
    ASSUME NEW d, NEW s, NEW e, NEW t, Beside(d, s, e, t),
           NEW K \in SUBSET d.locations, NEW M,
           \A l \in M : \E k \in K : k.id = l.id /\ k.zone = l.zone /\ k.name = l.name,
           TreeLocks(d, K) \subseteq Locked(d, t)
    PROVE  TreeLocks(e, M) \subseteq TreeLocks(d, K)
<1>1. ASSUME NEW l \in M PROVE LocationLock(l) \in TreeLocks(d, K)
  BY DEF TreeLocks, LocationLock
<1>2. ASSUME NEW r \in RecordsOf(e, Ids(M)) PROVE RecordLock(r) \in TreeLocks(d, K)
  <2>1. r \in e.records /\ PrimaryKeys(d) /\ RecordsFrom(d, s, e)
    BY DEF RecordsOf, Beside, StepOK, Doable, TablesOK
  <2>2. PICK k \in K : k.id = r.loc
    BY DEF RecordsOf, Ids
  <2>3. DrawnFor(r.loc) # s.rev
    BY <2>2, OldIds DEF Beside
  <2>4. LocationLock(k) \in Locked(d, t)
    BY DEF TreeLocks
  <2>5. ~ NewRecord(d, s, r)
    <3>1. ASSUME NEW l \in d.locations, l.id = r.loc, LocationLock(l) \in Shared(d, s)
          PROVE  FALSE
      <4>1. l = k
        BY <3>1, <2>1, <2>2 DEF PrimaryKeys
      <4> QED BY <3>1, <4>1, <2>4 DEF Beside, Compatible
    <3> QED BY <3>1 DEF NewRecord
  <2>6. PICK q \in d.records : q.loc = r.loc /\ q.type = r.type
    BY <2>1, <2>3, <2>5 DEF RecordsFrom
  <2>7. q \in RecordsOf(d, Ids(K))
    BY <2>2, <2>6 DEF RecordsOf, Ids
  <2> QED BY <2>6, <2>7 DEF TreeLocks, RecordLock
<1> QED BY <1>1, <1>2 DEF TreeLocks

(* A zone that t deletes or imports gets no new location.                  *)
LEMMA LocationsStay ==
    ASSUME NEW d, NEW s, NEW e, NEW t, Beside(d, s, e, t),
           t.req.type \in {"delete_zone", "import_zone"}
    PROVE  \A l \in LocationsOf(e, t.ids.zone) :
              \E k \in LocationsOf(d, t.ids.zone) : k.id = l.id /\ k.zone = l.zone /\ k.name = l.name
<1> SUFFICES ASSUME NEW l \in e.locations, l.zone = t.ids.zone
             PROVE  \E k \in d.locations : k.id = l.id /\ k.zone = l.zone /\ k.name = l.name
  BY DEF LocationsOf
<1>1. LocationsFrom(d, s, e) /\ PrimaryKeys(d) /\ DrawnFor(l.zone) # s.rev
  BY DEF Beside, StepOK, Doable, TablesOK, IdsFit, ZoneFits, ZoneTypes
<1>2. ~ NewLocation(d, s, l)
  <2>1. CASE t.req.type = "import_zone"
    <3>1. RangeLock(l.zone) \in Locked(d, t)
      BY <2>1 DEF Locked, ExclusiveLocks
    <3> QED BY <3>1 DEF NewLocation, Beside, Compatible
  <2>2. CASE t.req.type = "delete_zone"
    <3>1. \A z \in d.zones : z.id = l.zone => ZoneLock(z) \in Locked(d, t)
      BY <2>2 DEF Locked, ExclusiveLocks, ZoneRows
    <3> QED BY <3>1 DEF NewLocation, Beside, Compatible
  <2> QED BY <2>1, <2>2
<1> QED BY <1>1, <1>2 DEF LocationsFrom

(* The commit of s gives t no lock that it did not hold.                   *)
LEMMA LocksShrink ==
    ASSUME NEW d, NEW s, NEW e, NEW t, Beside(d, s, e, t)
    PROVE  Locked(e, t) \subseteq Locked(d, t) /\ Shared(e, t) \subseteq Shared(d, t)
<1>1. t.req.type \in {"add_zone", "update_zone", "delete_zone", "import_zone",
         "add_location", "update_location", "delete_location",
         "add_record", "update_record", "delete_record"}
  BY RequestFields DEF Beside
<1>2. CASE t.req.type \in {"add_zone", "add_location", "add_record"}
  <2>1. Locked(e, t) = Locked(d, t)
    BY <1>2 DEF Locked, ExclusiveLocks
  <2>2. Shared(e, t) \subseteq Shared(d, t)
    <3>1. CASE t.req.type = "add_zone"
      BY <3>1 DEF Shared, SharedLocks
    <3>2. CASE t.req.type = "add_location"
      BY <3>2, RowLocksShrink DEF Shared, SharedLocks, ZoneTypes
    <3>3. CASE t.req.type = "add_record"
      BY <3>3, RowLocksShrink DEF Shared, SharedLocks, LocationTypes
    <3> QED BY <1>2, <3>1, <3>2, <3>3
  <2> QED BY <2>1, <2>2
<1>3. CASE t.req.type \in {"update_zone", "update_location", "update_record", "delete_record"}
  <2>1. Shared(e, t) = {}
    BY <1>3 DEF Shared, SharedLocks
  <2>2. CASE t.req.type = "update_zone"
    BY <2>1, <2>2, RowLocksShrink DEF Locked, ExclusiveLocks, ZoneTypes
  <2>3. CASE t.req.type = "update_location"
    BY <2>1, <2>3, RowLocksShrink DEF Locked, ExclusiveLocks, LocationTypes
  <2>4. CASE t.req.type \in {"update_record", "delete_record"}
    BY <2>1, <2>4, RowLocksShrink DEF Locked, ExclusiveLocks, RecordTypes
  <2> QED BY <1>3, <2>2, <2>3, <2>4
<1>4. CASE t.req.type \in {"delete_zone", "import_zone"}
  <2> DEFINE K == LocationsOf(d, t.ids.zone)
             M == LocationsOf(e, t.ids.zone)
  <2>1. K \in SUBSET d.locations
    BY DEF LocationsOf
  <2>2. \A l \in M : \E k \in K : k.id = l.id /\ k.zone = l.zone /\ k.name = l.name
    BY <1>4, LocationsStay
  <2>3. TreeLocks(d, K) \subseteq Locked(d, t)
    BY <1>4 DEF Locked, ExclusiveLocks
  <2> HIDE DEF K, M
  <2>4. TreeLocks(e, M) \subseteq TreeLocks(d, K)
    BY <2>1, <2>2, <2>3, TreeLocksShrink
  <2>5. CASE t.req.type = "delete_zone"
    BY <2>4, <2>5, RowLocksShrink
       DEF Locked, ExclusiveLocks, Shared, SharedLocks, ZoneTypes, K, M
  <2>6. CASE t.req.type = "import_zone"
    BY <2>4, <2>6, RowLocksShrink
       DEF Locked, ExclusiveLocks, Shared, SharedLocks, ZoneTypes, K, M
  <2> QED BY <1>4, <2>5, <2>6
<1>5. CASE t.req.type = "delete_location"
  <2> DEFINE K == LocationRows(d, t.ids.loc)
             M == LocationRows(e, t.ids.loc)
  <2>1. K \in SUBSET d.locations
    BY DEF LocationRows
  <2>2. \A l \in M : \E k \in K : k.id = l.id /\ k.zone = l.zone /\ k.name = l.name
    <3> SUFFICES ASSUME NEW l \in e.locations, l.id = t.ids.loc
                 PROVE  \E k \in d.locations : k.id = l.id /\ k.zone = l.zone /\ k.name = l.name
      BY DEF LocationRows
    <3>1. LocationsFrom(d, s, e) /\ DrawnFor(l.id) # s.rev
      BY <1>5 DEF Beside, StepOK, IdsFit, LocationFits, LocationTypes
    <3> QED BY <3>1 DEF LocationsFrom
  <2>3. Locked(d, t) = TreeLocks(d, K) /\ Locked(e, t) = TreeLocks(e, M) /\ Shared(e, t) = {}
    BY <1>5 DEF Locked, ExclusiveLocks, Shared, SharedLocks
  <2> HIDE DEF K, M
  <2> QED BY <2>1, <2>2, <2>3, TreeLocksShrink
<1> QED BY <1>1, <1>2, <1>3, <1>4, <1>5

(* The statements of t still succeed after it.                             *)
LEMMA StillReady ==
    ASSUME NEW d, NEW s, NEW e, NEW t, Beside(d, s, e, t), ~ StatementFails(d, t.req, t.ids)
    PROVE  ~ StatementFails(e, t.req, t.ids)
<1>1. /\ ZonesFrom(d, s, e) /\ LocationsFrom(d, s, e) /\ RecordsFrom(d, s, e) /\ RowsLeft(d, s, e)
      /\ Compatible(d, s, t) /\ Compatible(d, t, s)
  BY DEF Beside, StepOK
<1>2. ASSUME NEW z \in d.zones, z.id = t.ids.zone, ZoneLock(z) \in Locked(d, t) \cup Shared(d, t)
      PROVE  ZoneRows(e, t.ids.zone) # {}
  <2>1. ZoneLock(z) \notin Locked(d, s)
    BY <1>1, <1>2 DEF Compatible
  <2> QED BY <1>1, <1>2, <2>1 DEF RowsLeft, Ids, ZoneRows
<1>3. CASE t.req.type = "add_zone"
  <2>1. \A z \in d.zones : z.name # t.req.zone
    BY <1>3 DEF StatementFails
  <2>2. <<"zone", t.req.zone>> \notin Locked(d, s)
    BY <1>1, <1>3 DEF Compatible, Locked, ExclusiveLocks
  <2>3. \A z \in e.zones : z.name # t.req.zone
    BY <2>1, <2>2, <1>1 DEF ZonesFrom, ZoneLock
  <2> QED BY <1>3, <2>3 DEF StatementFails
<1>4. CASE t.req.type \in {"update_zone", "import_zone", "add_location"}
  <2>1. PICK z \in d.zones : z.id = t.ids.zone
    BY <1>4 DEF StatementFails, ZoneRows
  <2>2. ZoneLock(z) \in Locked(d, t) \cup Shared(d, t)
    BY <1>4, <2>1 DEF Locked, ExclusiveLocks, Shared, SharedLocks, ZoneRows
  <2>3. ZoneRows(e, t.ids.zone) # {}
    BY <1>2, <2>1, <2>2
  <2>4. CASE t.req.type \in {"update_zone", "import_zone"}
    BY <2>3, <2>4 DEF StatementFails
  <2>5. CASE t.req.type = "add_location"
    <3>1. \A l \in d.locations : l.zone = t.ids.zone => l.name # t.req.label
      BY <2>5 DEF StatementFails, LocationsOf
    <3>2. /\ RangeLock(t.ids.zone) \notin Locked(d, s)
          /\ <<"location", t.ids.zone, t.req.label>> \notin Locked(d, s)
      BY <1>1, <2>5 DEF Compatible, Locked, ExclusiveLocks, Shared, SharedLocks
    <3>3. DrawnFor(t.ids.zone) # s.rev
      BY <2>5 DEF Beside, IdsFit, ZoneFits, ZoneTypes
    <3>4. ASSUME NEW l \in e.locations, l.zone = t.ids.zone, l.name = t.req.label PROVE FALSE
      <4>1. ~ NewLocation(d, s, l)
        BY <3>2, <3>4 DEF NewLocation, LocationLock
      <4> QED BY <3>1, <3>3, <3>4, <4>1, <1>1 DEF LocationsFrom
    <3> QED BY <2>3, <2>5, <3>4 DEF StatementFails, LocationsOf
  <2> QED BY <1>4, <2>4, <2>5
<1>5. CASE t.req.type = "add_record"
  <2>1. PICK l \in d.locations : l.id = t.ids.loc
    BY <1>5 DEF StatementFails, LocationRows
  <2>2. LocationLock(l) \in Shared(d, t)
    BY <1>5, <2>1 DEF Shared, SharedLocks, LocationRows
  <2>3. LocationRows(e, t.ids.loc) # {}
    BY <2>1, <2>2, <1>1 DEF Compatible, RowsLeft, Ids, LocationRows
  <2>4. \A r \in d.records : r.loc = t.ids.loc => r.type # t.req.rtype
    BY <1>5 DEF StatementFails, RecordsOf
  <2>5. <<"record", t.ids.loc, t.req.rtype>> \notin Locked(d, s)
    BY <1>1, <1>5 DEF Compatible, Locked, ExclusiveLocks
  <2>6. DrawnFor(t.ids.loc) # s.rev
    BY <1>5 DEF Beside, IdsFit, LocationFits, LocationTypes
  <2>7. ASSUME NEW r \in e.records, r.loc = t.ids.loc, r.type = t.req.rtype PROVE FALSE
    <3>1. ~ NewRecord(d, s, r)
      BY <2>5, <2>7 DEF NewRecord, RecordLock
    <3> QED BY <2>4, <2>6, <2>7, <3>1, <1>1 DEF RecordsFrom
  <2> QED BY <1>5, <2>3, <2>7 DEF StatementFails, RecordsOf
<1>6. CASE t.req.type \in {"delete_zone", "update_location", "delete_location",
                           "update_record", "delete_record"}
  BY <1>6 DEF StatementFails
<1>7. t.req \in Request
  BY DEF Beside
<1> QED BY <1>3, <1>4, <1>5, <1>6, <1>7, RequestFields

(* The rows t found are still the ones it found.                           *)
LEMMA StillFits ==
    ASSUME NEW d, NEW s, NEW e, NEW t, NEW U, StepOK(d, s, e), s.rev \in U, IdsFit(d, t, U)
    PROVE  IdsFit(e, t, U)
<1>1. ZonesFrom(d, s, e) /\ LocationsFrom(d, s, e) /\ RecordsFrom(d, s, e)
  BY DEF StepOK
<1>2. ZoneFits(e, t, U)
  BY <1>1 DEF IdsFit, ZoneFits, ZonesFrom
<1>3. LocationFits(e, t, U)
  BY <1>1 DEF IdsFit, LocationFits, LocationsFrom
<1>4. RecordFits(e, t, U)
  BY <1>1 DEF IdsFit, RecordFits, RecordsFrom
<1> QED BY <1>2, <1>3, <1>4 DEF IdsFit

-----------------------------------------------------------------------------
(* The ids found are of rows of the tables, under a zone of the user.      *)
LEMMA LookupFits ==
    ASSUME NEW d \in Tables, TablesOK(d), NEW U, AllBorn(d, U),
           NEW t, t.req \in Request, t.ids \in Lookup(d, t.req)
    PROVE  IdsFit(d, t, U)
<1> DEFINE r == t.req
<1>1. /\ Kinds(d) /\ Parents(d) /\ PrimaryKeys(d) /\ Resourced(d)
  BY DEF TablesOK
<1>2. /\ \A z \in d.zones : z.id \in ZoneIds /\ DrawnFor(z.id) \notin U
      /\ \A l \in d.locations : l.id \in LocationIds /\ DrawnFor(l.id) \notin U
      /\ \A x \in d.records : x.id \in RecordIds /\ DrawnFor(x.id) \notin U
  BY <1>1 DEF Kinds, Resourced, AllBorn, Ids
<1>3. \A z \in d.zones, y \in OwnZones(d, r) : z.id = y.id => z.owner = r.user /\ z.name = r.zone
  BY <1>1 DEF OwnZones, PrimaryKeys
<1>4. ASSUME NEW i \in ZoneLookup(d, r)
      PROVE  \E z \in OwnZones(d, r) : i.zone = z.id
  BY DEF ZoneLookup, NoIds
<1>5. ASSUME NEW i \in LocationLookup(d, r)
      PROVE  \E l \in d.locations : /\ i.zone = l.zone /\ i.loc = l.id /\ l.name = r.label
                                    /\ l.zone \in Ids(OwnZones(d, r))
  BY DEF LocationLookup, NoIds
<1>6. ASSUME NEW i \in RecordLookup(d, r)
      PROVE  \E j \in LocationLookup(d, r), x \in d.records :
                /\ i.zone = j.zone /\ i.loc = j.loc /\ i.rec = x.id
                /\ x.loc = j.loc /\ x.type = r.rtype
  <2>1. PICK j \in LocationLookup(d, r), x \in d.records :
           x.loc = j.loc /\ x.type = r.rtype /\ i = [j EXCEPT !.rec = x.id]
    BY DEF RecordLookup
  <2>2. PICK l \in d.locations : j = [NoIds EXCEPT !.zone = l.zone, !.loc = l.id]
    BY DEF LocationLookup
  <2>3. i.zone = j.zone /\ i.loc = j.loc /\ i.rec = x.id
    BY <2>1, <2>2 DEF NoIds
  <2> QED BY <2>1, <2>3
<1>7. OwnZones(d, r) \subseteq d.zones
  BY DEF OwnZones
<1>8. CASE r.type \in {"update_zone", "delete_zone", "import_zone", "add_location"}
  <2>1. PICK z \in OwnZones(d, r) : t.ids.zone = z.id
    BY <1>4, <1>8 DEF Lookup
  <2>2. ZoneFits(d, t, U)
    BY <2>1, <1>2, <1>3, <1>7 DEF ZoneFits
  <2> QED BY <1>8, <2>2 DEF IdsFit, LocationFits, RecordFits, LocationTypes, RecordTypes
<1>9. ASSUME NEW i \in LocationLookup(d, r), t.ids.zone = i.zone, t.ids.loc = i.loc
      PROVE  ZoneFits(d, t, U) /\ LocationFits(d, t, U)
  <2>1. PICK l \in d.locations : /\ i.zone = l.zone /\ i.loc = l.id /\ l.name = r.label
                                 /\ l.zone \in Ids(OwnZones(d, r))
    BY <1>5
  <2>2. PICK z \in OwnZones(d, r) : l.zone = z.id
    BY <2>1 DEF Ids
  <2>3. ZoneFits(d, t, U)
    BY <1>9, <2>1, <2>2, <1>2, <1>3, <1>7 DEF ZoneFits
  <2>4. LocationFits(d, t, U)
    BY <1>9, <2>1, <1>1, <1>2 DEF LocationFits, PrimaryKeys
  <2> QED BY <2>3, <2>4
<1>10. CASE r.type \in {"update_location", "delete_location", "add_record"}
  <2>1. t.ids \in LocationLookup(d, r)
    BY <1>10 DEF Lookup
  <2> QED BY <1>9, <1>10, <2>1 DEF IdsFit, RecordFits, RecordTypes
<1>11. CASE r.type \in {"update_record", "delete_record"}
  <2>1. t.ids \in RecordLookup(d, r)
    BY <1>11 DEF Lookup
  <2>2. PICK j \in LocationLookup(d, r), x \in d.records :
           /\ t.ids.zone = j.zone /\ t.ids.loc = j.loc /\ t.ids.rec = x.id
           /\ x.loc = j.loc /\ x.type = r.rtype
    BY <1>6, <2>1
  <2>3. RecordFits(d, t, U)
    BY <2>2, <1>1, <1>2 DEF RecordFits, PrimaryKeys
  <2> QED BY <1>9, <2>2, <2>3 DEF IdsFit
<1>12. CASE r.type = "add_zone"
  BY <1>12 DEF IdsFit, ZoneFits, LocationFits, RecordFits, ZoneTypes, LocationTypes, RecordTypes
<1> QED BY <1>8, <1>10, <1>11, <1>12, RequestFields

(* Ids that avoid revisions avoid fewer.                                   *)
LEMMA FewerUnborn ==
    ASSUME NEW U, NEW V \in SUBSET U, NEW d
    PROVE  /\ AllBorn(d, U) => AllBorn(d, V)
           /\ \A t : IdsFit(d, t, U) => IdsFit(d, t, V)
BY DEF AllBorn, IdsFit, ZoneFits, LocationFits, RecordFits

(* At the start there are no rows and no requests.                         *)
LEMMA TablesInitInv == ApiInit => TablesInv
<1> SUFFICES ASSUME ApiInit PROVE TablesInv
  OBVIOUS
<1>1. ApiInv
  BY ApiInitInv
<1>2. /\ db.resources = {} /\ db.zones = {} /\ db.locations = {} /\ db.records = {}
      /\ \A c \in Clients : api[c].pc = "idle"
  BY DEF ApiInit, EmptyTables, Idle
<1>3. TablesOK(db) /\ AllBorn(db, Unborn)
  BY <1>2 DEF TablesOK, Resourced, Parents, Kinds, PrimaryKeys, ZoneKeys, LocationKeys,
              RecordKeys, AllBorn, Ids
<1>4. TxFits /\ TxReady /\ TxLocks
  BY <1>2 DEF TxFits, TxReady, TxLocks
<1> QED BY <1>1, <1>3, <1>4 DEF TablesInv

(* A client that does not hold a transaction after its step, and has not   *)
(* committed one, leaves the others as they were.                          *)
LEMMA QuietStep ==
    ASSUME TablesInv, ApiInv', NEW c \in Clients, db' = db, nextRevision' = nextRevision,
           \A o \in Clients : o # c => api'[o] = api[o], api'[c].pc # "open",
           api'[c].pc = "found" => IdsFit(db, api'[c], Unborn)
    PROVE  TablesInv'
<1>1. Unborn' \subseteq Unborn
  BY DEF Unborn
<1>2. TablesOK(db')
  BY DEF TablesInv
<1>3. AllBorn(db', Unborn')
  BY <1>1, FewerUnborn DEF TablesInv
<1>4. TxFits'
  <2> SUFFICES ASSUME NEW o \in Clients, api'[o].pc \in {"found", "open"}
               PROVE  IdsFit(db', api'[o], Unborn')
    BY DEF TxFits
  <2>1. IdsFit(db, api'[o], Unborn)
    BY DEF TablesInv, TxFits
  <2> QED BY <2>1, <1>1, FewerUnborn
<1>5. TxReady' /\ TxLocks'
  BY DEF TablesInv, TxReady, TxLocks
<1>6. TablesOK(db)' /\ AllBorn(db, Unborn)'
  BY <1>2, <1>3
<1> QED BY <1>4, <1>5, <1>6 DEF TablesInv

(* The statements run: the locks they took are free of those of others.    *)
LEMMA ExecInv ==
    ASSUME TablesInv, NEW c \in Clients, Exec(c)
    PROVE  TablesInv'
<1> DEFINE a == [api[c] EXCEPT !.pc = "open", !.rev = nextRevision]
<1>1. /\ api \in [Clients -> ApiState] /\ api[c].pc = "found"
      /\ nextRevision \in 1..MaxRevision /\ nextRevision' = nextRevision + 1 /\ db' = db
  BY ApiAssumption DEF Exec, TablesInv, ApiInv, ApiTypeOK
<1>2. ApiInv'
  BY ApiNextInv DEF TablesInv, ApiNext
<1>3. a.pc = "open" /\ a.rev = nextRevision /\ a.req = api[c].req /\ a.ids = api[c].ids
  BY <1>1 DEF ApiState
<1>4. api'[c] = a /\ \A o \in Clients : o # c => api'[o] = api[o]
  BY <1>1 DEF Exec, ApiState
<1> HIDE DEF a
<1>5. Unborn' \subseteq Unborn
  BY <1>1, <1>3, <1>4, ApiAssumption DEF Unborn
<1>6. TablesOK(db)' /\ AllBorn(db, Unborn)'
  <2>1. TablesOK(db') /\ AllBorn(db', Unborn')
    BY <1>1, <1>5, FewerUnborn DEF TablesInv
  <2> QED BY <2>1
<1>7. TxFits'
  <2> SUFFICES ASSUME NEW o \in Clients, api'[o].pc \in {"found", "open"}
               PROVE  IdsFit(db', api'[o], Unborn')
    BY DEF TxFits
  <2>1. IdsFit(db, api[o], Unborn)
    BY <1>1, <1>4 DEF TablesInv, TxFits
  <2>2. api'[o].req = api[o].req /\ api'[o].ids = api[o].ids
    BY <1>3, <1>4
  <2>3. IdsFit(db, api'[o], Unborn)
    BY <2>1, <2>2 DEF IdsFit, ZoneFits, LocationFits, RecordFits
  <2> QED BY <2>3, <1>1, <1>5, FewerUnborn
<1>8. TxReady'
  BY <1>1, <1>3, <1>4 DEF Exec, TablesInv, TxReady
<1>9. TxLocks'
  <2>1. ASSUME NEW o \in Clients, o # c, api[o].pc = "open"
        PROVE  Compatible(db, a, api[o]) /\ Compatible(db, api[o], a)
    <3>1. Locked(db, a) = Locked(db, api[c]) /\ Shared(db, a) = Shared(db, api[c])
      BY <1>3 DEF Locked, Shared
    <3>2. Locked(db, api[o]) \subseteq OpenLocks(c) /\ Shared(db, api[o]) \subseteq OpenShared(c)
      BY <2>1 DEF OpenLocks, OpenShared, Locked, Shared
    <3>3. /\ (Locked(db, api[c]) \cup Shared(db, api[c])) \cap OpenLocks(c) = {}
          /\ Locked(db, api[c]) \cap OpenShared(c) = {}
      BY DEF Exec, LocksFree, Locked, Shared
    <3> QED BY <3>1, <3>2, <3>3 DEF Compatible
  <2> SUFFICES ASSUME NEW o \in Clients, NEW p \in Clients, o # p,
                      api'[o].pc = "open", api'[p].pc = "open"
               PROVE  Compatible(db, api'[o], api'[p])
    BY <1>1 DEF TxLocks
  <2>2. CASE o = c
    BY <2>1, <2>2, <1>4
  <2>3. CASE p = c
    BY <2>1, <2>3, <1>4
  <2>4. CASE o # c /\ p # c
    BY <2>4, <1>4 DEF TablesInv, TxLocks
  <2> QED BY <2>2, <2>3, <2>4
<1> QED BY <1>2, <1>6, <1>7, <1>8, <1>9 DEF TablesInv

(* What a commit does, as above.                                           *)
LEMMA CommitStep ==
    ASSUME TablesInv, NEW c \in Clients, Commit(c)
    PROVE  /\ Doable(db, api[c]) /\ StepOK(db, api[c], db')
           /\ api'[c].pc = "idle" /\ \A o \in Clients : o # c => api'[o] = api[o]
<1>1. api[c] \in ApiState /\ db \in Tables /\ api[c].pc = "open"
  BY DEF Commit, TablesInv, ApiInv, ApiTypeOK
<1>2. api[c].req \in Request /\ api[c].rev \in 1..MaxRevision
  BY <1>1 DEF TablesInv, ApiInv, TxRequests, OpenRevisions
<1>3. {api[c].rev} \in SUBSET Unborn
  BY <1>1, <1>2, ApiAssumption DEF Unborn
<1>4. Doable(db, api[c])
  BY <1>1, <1>2, <1>3, FewerUnborn DEF Doable, TablesInv, TxFits, TxReady
<1>5. StepOK(db, api[c], db')
  BY <1>4, EffectStep DEF Commit
<1>6. api'[c].pc = "idle" /\ \A o \in Clients : o # c => api'[o] = api[o]
  BY DEF Commit, TablesInv, ApiInv, ApiTypeOK, Idle
<1> QED BY <1>4, <1>5, <1>6

(* A commit: what it did to the tables leaves those of the others intact.  *)
LEMMA CommitInv ==
    ASSUME TablesInv, NEW c \in Clients, Commit(c)
    PROVE  TablesInv'
<1>1. ApiInv'
  BY ApiNextInv DEF TablesInv, ApiNext
<1>2. /\ Doable(db, api[c]) /\ StepOK(db, api[c], db') /\ api[c].pc = "open"
      /\ api'[c].pc = "idle" /\ \A o \in Clients : o # c => api'[o] = api[o]
      /\ nextRevision' = nextRevision
  BY CommitStep DEF Commit
<1>3. api[c].rev \in Unborn /\ api[c].rev \in 1..MaxRevision
  BY <1>2, ApiAssumption DEF Doable, Unborn
<1>4. Unborn' \subseteq Unborn \ {api[c].rev}
  <2>1. \A n \in Unborn' : n \in Unborn
    BY <1>2 DEF Unborn
  <2>2. api[c].rev \notin Unborn'
    <3>1. /\ api[c].rev < nextRevision /\ nextRevision \in 1..(MaxRevision + 1)
          /\ \A o \in Clients : api[o].pc = "open" /\ o # c => api[o].rev # api[c].rev
      BY <1>2 DEF TablesInv, ApiInv, ApiTypeOK, OpenRevisions
    <3> QED BY <3>1, <1>2, <1>3, ApiAssumption DEF Unborn
  <2> QED BY <2>1, <2>2
<1>5. AllBorn(db', Unborn')
  BY <1>2, <1>4 DEF StepOK, IdsFrom, AllBorn, TablesInv
<1>6. TablesOK(db')
  BY <1>2 DEF StepOK
<1>7. TxFits'
  <2> SUFFICES ASSUME NEW o \in Clients, api'[o].pc \in {"found", "open"}
               PROVE  IdsFit(db', api'[o], Unborn')
    BY DEF TxFits
  <2>1. o # c /\ api'[o] = api[o] /\ IdsFit(db, api[o], Unborn)
    BY <1>2 DEF TablesInv, TxFits
  <2>2. IdsFit(db', api[o], Unborn)
    BY <2>1, <1>2, <1>3, StillFits
  <2> QED BY <2>1, <2>2, <1>4, FewerUnborn
<1>8. ASSUME NEW o \in Clients, api'[o].pc = "open"
      PROVE  /\ o # c /\ api'[o] = api[o] /\ Beside(db, api[c], db', api[o])
             /\ ~ StatementFails(db, api[o].req, api[o].ids)
  <2>1. o # c /\ api'[o] = api[o] /\ api[o].pc = "open"
    BY <1>2, <1>8
  <2>2. api[o].req \in Request /\ Compatible(db, api[c], api[o]) /\ Compatible(db, api[o], api[c])
    BY <2>1, <1>2 DEF TablesInv, ApiInv, TxRequests, TxLocks
  <2>3. IdsFit(db, api[o], Unborn) /\ {api[c].rev} \in SUBSET Unborn
    BY <2>1, <1>3 DEF TablesInv, TxFits
  <2>4. IdsFit(db, api[o], {api[c].rev})
    BY <2>3, FewerUnborn
  <2>5. ~ StatementFails(db, api[o].req, api[o].ids)
    BY <2>1 DEF TablesInv, TxReady
  <2> QED BY <1>2, <2>1, <2>2, <2>4, <2>5 DEF Beside
<1>9. TxReady'
  <2> SUFFICES ASSUME NEW o \in Clients, api'[o].pc = "open"
               PROVE  ~ StatementFails(db', api'[o].req, api'[o].ids)
    BY DEF TxReady
  <2> QED BY <1>8, StillReady
<1>10. TxLocks'
  <2> SUFFICES ASSUME NEW o \in Clients, NEW p \in Clients, o # p,
                      api'[o].pc = "open", api'[p].pc = "open"
               PROVE  Compatible(db', api'[o], api'[p])
    BY DEF TxLocks
  <2>1. api'[o] = api[o] /\ api'[p] = api[p]
    BY <1>8
  <2>2. /\ Locked(db', api[o]) \subseteq Locked(db, api[o]) /\ Shared(db', api[o]) \subseteq Shared(db, api[o])
        /\ Locked(db', api[p]) \subseteq Locked(db, api[p])
    BY <1>8, LocksShrink
  <2>3. Compatible(db, api[o], api[p])
    BY <2>1 DEF TablesInv, TxLocks
  <2> QED BY <2>1, <2>2, <2>3 DEF Compatible
<1>11. TablesOK(db)' /\ AllBorn(db, Unborn)'
  BY <1>5, <1>6
<1> QED BY <1>1, <1>7, <1>9, <1>10, <1>11 DEF TablesInv

(* Every step of every request.                                            *)
LEMMA TablesNextInv ==
    ASSUME TablesInv, [ApiNext]_apiVars
    PROVE  TablesInv'
<1>t. api \in [Clients -> ApiState] /\ db \in Tables
  BY DEF TablesInv, ApiInv, ApiTypeOK
<1>1. ASSUME NEW c \in Clients, NEW r \in Requests, ReadZone(c, r) PROVE TablesInv'
  <2>1. ApiInv'
    BY <1>1, ApiNextInv DEF TablesInv, ApiNext
  <2>2. /\ db' = db /\ nextRevision' = nextRevision /\ api'[c].pc = "read"
        /\ \A o \in Clients : o # c => api'[o] = api[o]
    BY <1>1, <1>t DEF ReadZone, ApiState
  <2> QED BY <2>1, <2>2, QuietStep
<1>2. ASSUME NEW c \in Clients, NEW r \in Requests, LookUp(c, r) PROVE TablesInv'
  <2>1. ApiInv'
    BY <1>2, ApiNextInv DEF TablesInv, ApiNext
  <2>2. PICK ids \in Lookup(db, r) :
           api' = [api EXCEPT ![c].pc = "found", ![c].req = r, ![c].ids = ids]
    BY <1>2 DEF LookUp
  <2>3. /\ db' = db /\ nextRevision' = nextRevision
        /\ api'[c].pc = "found" /\ api'[c].req = r /\ api'[c].ids = ids
        /\ \A o \in Clients : o # c => api'[o] = api[o]
    BY <1>2, <1>t, <2>2 DEF LookUp, ApiState
  <2>4. r \in Request
    BY VocabularyAssumption
  <2>5. IdsFit(db, api'[c], Unborn)
    BY <1>t, <2>2, <2>3, <2>4, LookupFits DEF TablesInv
  <2> QED BY <2>1, <2>3, <2>5, QuietStep
<1>3. ASSUME NEW c \in Clients, LookUpFails(c) \/ ExecFails(c) \/ Rollback(c) PROVE TablesInv'
  <2>1. ApiInv'
    BY <1>3, ApiNextInv DEF TablesInv, ApiNext
  <2>2. /\ db' = db /\ nextRevision' = nextRevision /\ api'[c].pc = "idle"
        /\ \A o \in Clients : o # c => api'[o] = api[o]
    BY <1>3, <1>t DEF LookUpFails, ExecFails, Rollback, Idle
  <2> QED BY <2>1, <2>2, QuietStep
<1>4. CASE UNCHANGED apiVars
  <2>1. events' = events /\ db' = db /\ nextRevision' = nextRevision /\ api' = api
    BY <1>4 DEF apiVars
  <2>2. ApiInv'
    BY <2>1 DEF TablesInv, ApiInv, ApiTypeOK, TxRequests, EventRevisions, OpenRevisions
  <2>3. Unborn' = Unborn
    BY <2>1 DEF Unborn
  <2>4. TxFits' /\ TxReady' /\ TxLocks'
    BY <2>1, <2>3 DEF TablesInv, TxFits, TxReady, TxLocks
  <2>5. TablesOK(db') /\ AllBorn(db', Unborn')
    BY <2>1, <2>3 DEF TablesInv
  <2>6. TablesOK(db)' /\ AllBorn(db, Unborn)'
    BY <2>5
  <2> QED BY <2>2, <2>4, <2>6 DEF TablesInv
<1> QED BY <1>1, <1>2, <1>3, <1>4, ExecInv, CommitInv DEF ApiNext

-----------------------------------------------------------------------------
(***************************************************************************)
(* The theorems.                                                           *)
(***************************************************************************)

(* The inductive invariant of the API over MySQL holds: the tables keep    *)
(* the schema's keys, and every open transaction's statements stay right   *)
(* whatever the transactions beside it commit.                             *)
THEOREM TablesInvariance == ApiSpec => []TablesInv
BY TablesInitInv, TablesNextInv, PTL DEF ApiSpec

(* The foreign and unique keys of the schema hold in every committed       *)
(* state, for any number of clients, although every operation resolves its *)
(* ids before its transaction begins.                                      *)
THEOREM TablesStayConsistent == ApiSpec => []ReferentialIntegrity
<1>1. TablesInv => ReferentialIntegrity
  BY DEF TablesInv, TablesOK, ReferentialIntegrity, Resourced, Parents, ZoneKeys,
         LocationKeys, RecordKeys
<1> QED BY <1>1, TablesInvariance, PTL

(* Only a commit changes the tables; it brings the event of its request.   *)
LEMMA OnlyCommitsChange ==
    ASSUME TablesInv, [ApiNext]_apiVars, db' # db
    PROVE  \E c \in Clients : Commit(c)
<1>1. ApiNext
  BY DEF apiVars
<1> QED BY <1>1 DEF ApiNext, ReadZone, LookUp, LookUpFails, Exec, ExecFails, Rollback

(* The event of a commit was not in the log before.                        *)
LEMMA CommitBringsEvent ==
    ASSUME TablesInv, NEW c \in Clients, Commit(c)
    PROVE  EventOf(api[c]) \in events' \ events /\ EventOf(api[c]).req = api[c].req
<1>1. Doable(db, api[c]) /\ api[c].pc = "open"
  BY CommitStep DEF Commit
<1>2. EventOf(api[c]).rev = api[c].rev
  BY <1>1, EventOfType DEF Doable
<1>3. \A e \in events : e.rev # api[c].rev
  BY <1>1 DEF TablesInv, ApiInv, OpenRevisions
<1>4. EventOf(api[c]) \in events'
  BY DEF Commit
<1>5. EventOf(api[c]).req = api[c].req
  BY DEF EventOf, Event
<1> QED BY <1>2, <1>3, <1>4, <1>5

(* No deletion leaves a row of Resource without the zone, location or      *)
(* record set it stood for, however requests interleave: only a zone       *)
(* import does.                                                            *)
THEOREM DeletionsLeaveNoOrphans == ApiSpec => OnlyImportsOrphan
<1>1. ASSUME TablesInv, [ApiNext]_apiVars
      PROVE  Orphans(db') \subseteq Orphans(db)
                \/ \E e \in events' \ events : e.req.type = "import_zone"
  <2>1. CASE db' = db
    BY <2>1
  <2>2. CASE db' # db
    <3>1. PICK c \in Clients : Commit(c)
      BY <1>1, <2>2, OnlyCommitsChange
    <3>2. StepOK(db, api[c], db')
      BY <1>1, <3>1, CommitStep
    <3>3. EventOf(api[c]) \in events' \ events /\ EventOf(api[c]).req = api[c].req
      BY <1>1, <3>1, CommitBringsEvent
    <3> QED BY <3>2, <3>3 DEF StepOK
  <2> QED BY <2>1, <2>2
<1>2. TablesInv /\ [ApiNext]_apiVars
        => [Orphans(db') \subseteq Orphans(db)
              \/ \E e \in events' \ events : e.req.type = "import_zone"]_apiVars
  BY <1>1
<1> QED BY <1>2, TablesInvariance, PTL DEF ApiSpec, OnlyImportsOrphan

(* A commit changes nothing under a zone that the user did not own when it *)
(* began, although the owner was checked before the transaction: an id     *)
(* found under one's own zone never comes to mean a row of somebody else.  *)
THEOREM OthersZonesAreSafe == ApiSpec => OnlyOwnZonesChange
<1> DEFINE Own(c) ==
      api[c].pc = "open" /\ db' # db /\ api'[c] # api[c] =>
         \A z \in db.zones :
            z.owner # api[c].req.user =>
               z \in db'.zones /\ ZoneTree(db', z) = ZoneTree(db, z)
<1>1. ASSUME TablesInv, [ApiNext]_apiVars, NEW c \in Clients
      PROVE  Own(c)
  <2> SUFFICES ASSUME api[c].pc = "open", db' # db, api'[c] # api[c],
                      NEW z \in db.zones, z.owner # api[c].req.user
               PROVE  z \in db'.zones /\ ZoneTree(db', z) = ZoneTree(db, z)
    OBVIOUS
  <2>1. PICK o \in Clients : Commit(o)
    BY <1>1, OnlyCommitsChange
  <2>2. StepOK(db, api[o], db') /\ o = c
    BY <1>1, <2>1, CommitStep
  <2> QED BY <2>2 DEF StepOK, OthersKept
<1>2. TablesInv /\ [ApiNext]_apiVars => [\A c \in Clients : Own(c)]_apiVars
  BY <1>1
<1> QED BY <1>2, TablesInvariance, PTL DEF ApiSpec, OnlyOwnZonesChange

-----------------------------------------------------------------------------
(***************************************************************************)
(* Between the lookups of a request and its commit others may delete what  *)
(* it found.  An insert or an update of the zone then fails; any other     *)
(* update and every deletion finds nothing and goes on (Missed).           *)
(***************************************************************************)
StillThere(d, t) ==
    /\ t.req.type \in ZoneTypes =>
          \E z \in d.zones : z.id = t.ids.zone /\ z.name = t.req.zone
    /\ t.req.type \in LocationTypes =>
          \E l \in d.locations : l.id = t.ids.loc /\ l.zone = t.ids.zone /\ l.name = t.req.label
    /\ t.req.type \in RecordTypes =>
          \E x \in d.records : x.id = t.ids.rec /\ x.loc = t.ids.loc /\ x.type = t.req.rtype

(* Unless it has missed its row, a transaction finds everything it works   *)
(* on, under the names of its request, with any number of others around.   *)
LEMMA NotMissed ==
    ASSUME NEW d, NEW t, Doable(d, t), ~ Missed(d, t)
    PROVE  StillThere(d, t)
<1> DEFINE r == t.req
<1>1. d \in Tables /\ Parents(d) /\ r \in Request
  BY DEF Doable, TablesOK
<1>2. r.type \in ZoneTypes =>
         \A z \in d.zones : z.id = t.ids.zone => z.name = r.zone
  BY DEF Doable, IdsFit, ZoneFits
<1>3. r.type \in LocationTypes =>
         \A l \in d.locations : l.id = t.ids.loc => l.zone = t.ids.zone /\ l.name = r.label
  BY DEF Doable, IdsFit, LocationFits
<1>4. r.type \in RecordTypes =>
         \A x \in d.records : x.id = t.ids.rec => x.loc = t.ids.loc /\ x.type = r.rtype
  BY DEF Doable, IdsFit, RecordFits
<1>5. ~ StatementFails(d, r, t.ids)
  BY DEF Doable
<1>6. r.type \in RecordTypes => \E x \in d.records : x.id = t.ids.rec
  BY DEF Missed, RecordTypes, RecordRows
<1>7. r.type \in LocationTypes => \E l \in d.locations : l.id = t.ids.loc
  <2>1. CASE r.type \in {"update_location", "delete_location"}
    BY <2>1 DEF Missed, LocationRows
  <2>2. CASE r.type = "add_record"
    BY <2>2, <1>5 DEF StatementFails, LocationRows
  <2>3. CASE r.type \in RecordTypes
    <3>1. PICK x \in d.records : x.id = t.ids.rec
      BY <1>6, <2>3
    <3>2. x.loc = t.ids.loc
      BY <3>1, <1>4, <2>3
    <3> QED BY <3>2, <1>1 DEF Parents, Ids
  <2> QED BY <2>1, <2>2, <2>3 DEF LocationTypes, RecordTypes
<1>8. r.type \in ZoneTypes => \E z \in d.zones : z.id = t.ids.zone
  <2>1. CASE r.type = "delete_zone"
    BY <2>1 DEF Missed, ZoneRows
  <2>2. CASE r.type \in {"update_zone", "import_zone", "add_location"}
    BY <2>2, <1>5 DEF StatementFails, ZoneRows
  <2>3. CASE r.type \in LocationTypes
    <3>1. PICK l \in d.locations : l.id = t.ids.loc
      BY <1>7, <2>3
    <3>2. l.zone = t.ids.zone
      BY <3>1, <1>3, <2>3
    <3> QED BY <3>2, <1>1 DEF Parents, Ids
  <2> QED BY <2>1, <2>2, <2>3 DEF ZoneTypes, LocationTypes
<1> QED BY <1>2, <1>3, <1>4, <1>6, <1>7, <1>8 DEF StillThere

(* A transaction that has missed its row leaves the tables as they are.    *)
LEMMA MissedChangesNothing ==
    ASSUME NEW d, NEW t, Doable(d, t), Missed(d, t)
    PROVE  /\ Effect(d, t).zones = d.zones /\ Effect(d, t).locations = d.locations
           /\ Effect(d, t).records = d.records
<1> DEFINE r == t.req
<1>1. /\ d \in Tables /\ Parents(d) /\ Kinds(d) /\ r \in Request
  BY DEF Doable, TablesOK
<1>2. ASSUME NEW ids, \A z \in d.zones : z.id \notin ids,
             \A l \in d.locations : l.id \notin ids, \A x \in d.records : x.id \notin ids
      PROVE  /\ DeleteResources(d, ids).zones = d.zones
             /\ DeleteResources(d, ids).locations = d.locations
             /\ DeleteResources(d, ids).records = d.records
  <2> DEFINE e == DeleteResources(d, ids)
  <2>1. /\ e.zones = {z \in d.zones : z.id \notin ids}
        /\ e.locations = {l \in d.locations : l.id \notin ids /\ l.zone \in Ids(e.zones)}
        /\ e.records = {x \in d.records : x.id \notin ids /\ x.loc \in Ids(e.locations)}
    BY DEF DeleteResources
  <2> HIDE DEF e
  <2>2. e.zones = d.zones
    BY <2>1, <1>2
  <2>3. e.locations = d.locations
    BY <2>1, <2>2, <1>1, <1>2 DEF Parents
  <2>4. e.records = d.records
    BY <2>1, <2>3, <1>1, <1>2 DEF Parents
  <2> QED BY <2>2, <2>3, <2>4 DEF e
<1>3. CASE r.type = "delete_zone"
  <2>1. t.ids.zone \in ZoneIds /\ \A z \in d.zones : z.id # t.ids.zone
    BY <1>3 DEF Doable, IdsFit, ZoneFits, ZoneTypes, Missed, ZoneRows
  <2>2. LocationsOf(d, t.ids.zone) = {}
    BY <2>1, <1>1 DEF LocationsOf, Parents, Ids
  <2>3. {t.ids.zone} \cup Ids(LocationsOf(d, t.ids.zone))
          \cup Ids(RecordsOf(d, Ids(LocationsOf(d, t.ids.zone)))) = {t.ids.zone}
    BY <2>2 DEF Ids, RecordsOf
  <2>4. Effect(d, t) = DeleteResources(d, {t.ids.zone})
    BY <1>3, <2>3 DEF Effect, DeleteZone
  <2>5. /\ \A l \in d.locations : l.id # t.ids.zone
        /\ \A x \in d.records : x.id # t.ids.zone
    BY <2>1, <1>1, IdKinds DEF Kinds, Ids
  <2> QED BY <2>1, <2>4, <2>5, <1>2
<1>4. CASE r.type = "delete_location"
  <2>1. t.ids.loc \in LocationIds /\ \A l \in d.locations : l.id # t.ids.loc
    BY <1>4 DEF Doable, IdsFit, LocationFits, LocationTypes, Missed, LocationRows
  <2>2. RecordsOf(d, {t.ids.loc}) = {}
    BY <2>1, <1>1 DEF RecordsOf, Parents, Ids
  <2>3. {t.ids.loc} \cup Ids(RecordsOf(d, {t.ids.loc})) = {t.ids.loc}
    BY <2>2 DEF Ids
  <2>4. Effect(d, t) = DeleteResources(d, {t.ids.loc})
    BY <1>4, <2>3 DEF Effect, DeleteLocation
  <2>5. /\ \A z \in d.zones : z.id # t.ids.loc
        /\ \A x \in d.records : x.id # t.ids.loc
    BY <2>1, <1>1, IdKinds DEF Kinds, Ids
  <2> QED BY <2>1, <2>4, <2>5, <1>2
<1>5. CASE r.type = "delete_record"
  <2>1. t.ids.rec \in RecordIds /\ \A x \in d.records : x.id # t.ids.rec
    BY <1>5 DEF Doable, IdsFit, RecordFits, RecordTypes, Missed, RecordRows
  <2>4. Effect(d, t) = DeleteResources(d, {t.ids.rec})
    BY <1>5 DEF Effect, DeleteRecordSet
  <2>5. /\ \A z \in d.zones : z.id # t.ids.rec
        /\ \A l \in d.locations : l.id # t.ids.rec
    BY <2>1, <1>1, IdKinds DEF Kinds, Ids
  <2> QED BY <2>1, <2>4, <2>5, <1>2
<1>6. CASE r.type = "update_location"
  <2>1. \A l \in d.locations : l.id # t.ids.loc
    BY <1>6 DEF Missed, LocationRows
  <2>2. /\ Effect(d, t).zones = d.zones /\ Effect(d, t).records = d.records
        /\ Effect(d, t).locations =
              {IF l.id = t.ids.loc THEN [l EXCEPT !.enabled = r.enabled] ELSE l :
                 l \in d.locations}
    BY <1>1, <1>6 DEF Effect, UpdateLocation, Tables
  <2> QED BY <2>1, <2>2
<1>7. CASE r.type = "update_record"
  <2>1. \A x \in d.records : x.id # t.ids.rec
    BY <1>7 DEF Missed, RecordRows
  <2>2. /\ Effect(d, t).zones = d.zones /\ Effect(d, t).locations = d.locations
        /\ Effect(d, t).records =
              {IF x.id = t.ids.rec THEN [x EXCEPT !.value = r.value, !.enabled = r.enabled]
                                   ELSE x : x \in d.records}
    BY <1>1, <1>7 DEF Effect, UpdateRecordSet, Tables
  <2> QED BY <2>1, <2>2
<1> QED BY <1>3, <1>4, <1>5, <1>6, <1>7 DEF Missed

-----------------------------------------------------------------------------
(* What an operation did to the tables is what its event says, if the rows *)
(* it found are still there.                                               *)
LEMMA EffectDescribed ==
    ASSUME NEW d, NEW t, Doable(d, t), StillThere(d, t)
    PROVE  Describes(EventOf(t), Effect(d, t))
<1> DEFINE r  == t.req
           e  == Effect(d, t)
           ev == EventOf(t)
<1>1. /\ ev.req = r /\ ev.zid = IF r.type = "add_zone" THEN ZoneId(t.rev) ELSE t.ids.zone
  BY DEF EventOf, Event
<1>2. /\ d \in Tables /\ r \in Request
      /\ ZoneKeys(d) /\ LocationKeys(d) /\ RecordKeys(d) /\ PrimaryKeys(d)
  BY DEF Doable, TablesOK
<1>3. r.type \in ZoneTypes => \E z \in d.zones : z.id = t.ids.zone /\ z.name = r.zone
  BY DEF StillThere
<1>4. r.type \in LocationTypes =>
         \E l \in d.locations : l.id = t.ids.loc /\ l.zone = t.ids.zone /\ l.name = r.label
  BY DEF StillThere
<1>5. r.type \in RecordTypes =>
         \E x \in d.records : x.id = t.ids.rec /\ x.loc = t.ids.loc /\ x.type = r.rtype
  BY DEF StillThere
<1> DEFINE zs == {z \in e.zones : z.name = r.zone}
           ls == {l \in e.locations : l.zone \in Ids(zs) /\ l.name = r.label}
           rs == {x \in e.records : x.loc \in Ids(ls) /\ x.type = r.rtype}
<1>6. /\ r.type \in {"add_zone", "update_zone"}
            /\ (\E z \in zs : z.enabled = r.enabled /\ z.id = ev.zid) => Describes(ev, e)
      /\ r.type \in {"add_location", "update_location"}
            /\ (\E l \in ls : l.enabled = r.enabled) => Describes(ev, e)
      /\ r.type \in {"add_record", "update_record"}
            /\ (\E x \in rs : x.enabled = r.enabled /\ x.value = r.value) => Describes(ev, e)
      /\ r.type = "delete_zone" /\ zs = {} => Describes(ev, e)
      /\ r.type = "delete_location" /\ ls = {} => Describes(ev, e)
      /\ r.type = "delete_record" /\ rs = {} => Describes(ev, e)
      /\ r.type = "import_zone"
            /\ (\A x \in r.entries : \E l \in e.locations, y \in e.records :
                  l.zone = ev.zid /\ l.name = x[1] /\ y.loc = l.id
                    /\ y.type = x[2] /\ y.value = x[3]) => Describes(ev, e)
  BY <1>1 DEF Describes
<1> SUFFICES Describes(ev, e)
  OBVIOUS
<1> HIDE DEF ev, e
<1>7. CASE r.type = "add_zone"
  <2> DEFINE z == ZoneRow(ZoneId(t.rev), r.zone, r.user, r.enabled, InitialSerial)
  <2>1. z \in e.zones
    BY <1>7 DEF e, Effect, AddZone
  <2>2. z.name = r.zone /\ z.enabled = r.enabled /\ z.id = ev.zid
    BY <1>1, <1>7 DEF ZoneRow
  <2> QED BY <1>6, <1>7, <2>1, <2>2
<1>8. CASE r.type = "update_zone"
  <2>1. PICK y \in d.zones : y.id = t.ids.zone /\ y.name = r.zone
    BY <1>3, <1>8 DEF ZoneTypes
  <2> DEFINE z == [y EXCEPT !.enabled = r.enabled, !.serial = t.serial]
  <2>2. z \in e.zones
    BY <1>8, <1>2, <2>1 DEF e, Effect, UpdateZone, Tables
  <2>3. z.name = r.zone /\ z.enabled = r.enabled /\ z.id = ev.zid
    BY <1>1, <1>2, <1>8, <2>1, RowFields DEF ZoneRowType
  <2> QED BY <1>6, <1>8, <2>2, <2>3
<1>9. CASE r.type = "delete_zone"
  <2>1. PICK y \in d.zones : y.id = t.ids.zone /\ y.name = r.zone
    BY <1>3, <1>9 DEF ZoneTypes
  <2>2. e = DeleteZone(d, t)
    BY <1>9 DEF e, Effect
  <2>3. \A z \in e.zones : z \in d.zones /\ z.id # t.ids.zone
    BY <2>2 DEF DeleteZone, DeleteResources
  <2>4. zs = {}
    BY <2>1, <2>3, <1>2 DEF ZoneKeys
  <2> QED BY <1>6, <1>9, <2>4
<1>10. CASE r.type = "import_zone"
  <2> SUFFICES ASSUME NEW x \in r.entries
               PROVE  \E l \in e.locations, y \in e.records :
                         l.zone = ev.zid /\ l.name = x[1] /\ y.loc = l.id
                           /\ y.type = x[2] /\ y.value = x[3]
    BY <1>6, <1>10
  <2> DEFINE l == LocationRow(LocationId(t.rev, x[1]), t.ids.zone, x[1], TRUE)
             y == RecordRow(RecordId(t.rev, x[1], x[2]), LocationId(t.rev, x[1]), x[2], x[3], TRUE)
             c == DeleteResources(d, Ids(LocationsOf(d, t.ids.zone)))
             ls1 == {LocationRow(LocationId(t.rev, i[1]), t.ids.zone, i[1], TRUE) : i \in r.entries}
             rs1 == {RecordRow(RecordId(t.rev, i[1], i[2]), LocationId(t.rev, i[1]), i[2], i[3], TRUE)
                       : i \in r.entries}
  <2>1. e = [c EXCEPT !.resources = @ \cup Ids(ls1) \cup Ids(rs1),
                      !.locations = @ \cup ls1, !.records = @ \cup rs1]
    BY <1>10 DEF e, Effect, ImportZone
  <2>2. c = [resources |-> c.resources, zones |-> c.zones, locations |-> c.locations,
             records |-> c.records]
    BY DEF DeleteResources
  <2>3. l \in ls1 /\ y \in rs1
    OBVIOUS
  <2>4. /\ l.zone = ev.zid /\ l.name = x[1] /\ y.loc = l.id
        /\ y.type = x[2] /\ y.value = x[3]
    BY <1>1, <1>10 DEF LocationRow, RecordRow
  <2> HIDE DEF l, y, c, ls1, rs1
  <2>5. e.locations = c.locations \cup ls1 /\ e.records = c.records \cup rs1
    BY <2>1, <2>2
  <2> QED BY <2>3, <2>4, <2>5
<1>11. CASE r.type = "add_location"
  <2>1. PICK z \in d.zones : z.id = t.ids.zone /\ z.name = r.zone
    BY <1>3, <1>11 DEF ZoneTypes
  <2> DEFINE l == LocationRow(LocationId(t.rev, r.label), t.ids.zone, r.label, r.enabled)
  <2>2. e.zones = d.zones /\ l \in e.locations
    BY <1>11, <1>2 DEF e, Effect, AddLocation, Tables
  <2>3. l.name = r.label /\ l.enabled = r.enabled /\ l.zone = z.id
    BY <2>1 DEF LocationRow
  <2>4. l \in ls
    BY <2>1, <2>2, <2>3 DEF Ids
  <2> QED BY <1>6, <1>11, <2>3, <2>4
<1>12. CASE r.type = "update_location"
  <2>1. PICK z \in d.zones : z.id = t.ids.zone /\ z.name = r.zone
    BY <1>3, <1>12 DEF ZoneTypes
  <2>2. PICK k \in d.locations : k.id = t.ids.loc /\ k.zone = t.ids.zone /\ k.name = r.label
    BY <1>4, <1>12 DEF LocationTypes
  <2> DEFINE l == [k EXCEPT !.enabled = r.enabled]
  <2>3. e.zones = d.zones /\ l \in e.locations
    BY <1>12, <1>2, <2>2 DEF e, Effect, UpdateLocation, Tables
  <2>4. l.name = r.label /\ l.enabled = r.enabled /\ l.zone = z.id
    BY <2>1, <2>2, <1>2, RowFields DEF LocationRowType
  <2>5. l \in ls
    BY <2>1, <2>3, <2>4 DEF Ids
  <2> QED BY <1>6, <1>12, <2>4, <2>5
<1>13. CASE r.type = "delete_location"
  <2>1. PICK y \in d.zones : y.id = t.ids.zone /\ y.name = r.zone
    BY <1>3, <1>13 DEF ZoneTypes
  <2>2. PICK k \in d.locations : k.id = t.ids.loc /\ k.zone = t.ids.zone /\ k.name = r.label
    BY <1>4, <1>13 DEF LocationTypes
  <2>3. e = DeleteLocation(d, t)
    BY <1>13 DEF e, Effect
  <2>4. /\ \A z \in e.zones : z \in d.zones
        /\ \A l \in e.locations : l \in d.locations /\ l.id # t.ids.loc
    BY <2>3 DEF DeleteLocation, DeleteResources
  <2>5. ASSUME NEW l \in ls PROVE FALSE
    <3>1. PICK z \in zs : l.zone = z.id
      BY DEF Ids
    <3>2. z = y
      BY <2>1, <2>4, <1>2 DEF ZoneKeys
    <3>3. l = k
      BY <3>1, <3>2, <2>1, <2>2, <2>4, <1>2 DEF LocationKeys
    <3> QED BY <3>3, <2>2, <2>4
  <2>6. ls = {}
    BY <2>5
  <2> QED BY <1>6, <1>13, <2>6
<1>14. CASE r.type = "add_record"
  <2>1. PICK z \in d.zones : z.id = t.ids.zone /\ z.name = r.zone
    BY <1>3, <1>14 DEF ZoneTypes
  <2>2. PICK k \in d.locations : k.id = t.ids.loc /\ k.zone = t.ids.zone /\ k.name = r.label
    BY <1>4, <1>14 DEF LocationTypes
  <2> DEFINE x == RecordRow(RecordId(t.rev, r.label, r.rtype), t.ids.loc, r.rtype, r.value, r.enabled)
  <2>3. e.zones = d.zones /\ e.locations = d.locations /\ x \in e.records
    BY <1>14, <1>2 DEF e, Effect, AddRecordSet, Tables
  <2>4. x.loc = k.id /\ x.type = r.rtype /\ x.enabled = r.enabled /\ x.value = r.value
    BY <2>2 DEF RecordRow
  <2>5. k \in ls
    BY <2>1, <2>2, <2>3 DEF Ids
  <2>6. x \in rs
    BY <2>3, <2>4, <2>5 DEF Ids
  <2> QED BY <1>6, <1>14, <2>4, <2>6
<1>15. CASE r.type = "update_record"
  <2>1. PICK z \in d.zones : z.id = t.ids.zone /\ z.name = r.zone
    BY <1>3, <1>15 DEF ZoneTypes
  <2>2. PICK k \in d.locations : k.id = t.ids.loc /\ k.zone = t.ids.zone /\ k.name = r.label
    BY <1>4, <1>15 DEF LocationTypes
  <2>q. PICK q \in d.records : q.id = t.ids.rec /\ q.loc = t.ids.loc /\ q.type = r.rtype
    BY <1>5, <1>15 DEF RecordTypes
  <2> DEFINE x == [q EXCEPT !.value = r.value, !.enabled = r.enabled]
  <2>3. e.zones = d.zones /\ e.locations = d.locations /\ x \in e.records
    BY <1>15, <1>2, <2>q DEF e, Effect, UpdateRecordSet, Tables
  <2>4. x.loc = k.id /\ x.type = r.rtype /\ x.enabled = r.enabled /\ x.value = r.value
    BY <2>2, <2>q, <1>2, RowFields DEF RecordRowType
  <2>5. k \in ls
    BY <2>1, <2>2, <2>3 DEF Ids
  <2>6. x \in rs
    BY <2>3, <2>4, <2>5 DEF Ids
  <2> QED BY <1>6, <1>15, <2>4, <2>6
<1>16. CASE r.type = "delete_record"
  <2>1. PICK y \in d.zones : y.id = t.ids.zone /\ y.name = r.zone
    BY <1>3, <1>16 DEF ZoneTypes
  <2>2. PICK k \in d.locations : k.id = t.ids.loc /\ k.zone = t.ids.zone /\ k.name = r.label
    BY <1>4, <1>16 DEF LocationTypes
  <2>q. PICK q \in d.records : q.id = t.ids.rec /\ q.loc = t.ids.loc /\ q.type = r.rtype
    BY <1>5, <1>16 DEF RecordTypes
  <2>3. e = DeleteRecordSet(d, t)
    BY <1>16 DEF e, Effect
  <2>4. /\ \A z \in e.zones : z \in d.zones /\ \A l \in e.locations : l \in d.locations
        /\ \A x \in e.records : x \in d.records /\ x.id # t.ids.rec
    BY <2>3 DEF DeleteRecordSet, DeleteResources
  <2>l. \A l \in e.locations : l \in d.locations
    BY <2>3 DEF DeleteRecordSet, DeleteResources
  <2>5. ASSUME NEW x \in rs PROVE FALSE
    <3>1. PICK l \in ls : x.loc = l.id
      BY DEF Ids
    <3>2. PICK z \in zs : l.zone = z.id
      BY DEF Ids
    <3>3. z = y
      BY <2>1, <2>4, <1>2 DEF ZoneKeys
    <3>4. l = k
      BY <3>2, <3>3, <2>1, <2>2, <2>l, <1>2 DEF LocationKeys
    <3>5. x = q
      BY <3>1, <3>4, <2>2, <2>q, <2>4, <1>2 DEF RecordKeys
    <3> QED BY <3>5, <2>q, <2>4
  <2>6. rs = {}
    BY <2>5
  <2> QED BY <1>6, <1>16, <2>6
<1> QED BY <1>2, <1>7, <1>8, <1>9, <1>10, <1>11, <1>12, <1>13, <1>14, <1>15, <1>16,
           RequestFields

(* For any number of clients, every event in the log was true of the       *)
(* tables it was committed with, unless the row its request had looked up  *)
(* was deleted in between; then the transaction changed nothing.           *)
THEOREM EventsAreTrue == ApiSpec => EventsDescribeRows
<1> DEFINE Told(e) ==
       \/ Describes(e, db')
       \/ /\ \E c \in Clients : /\ api[c].pc = "open" /\ e = EventOf(api[c])
                               /\ Missed(db, api[c])
          /\ db'.zones = db.zones /\ db'.locations = db.locations
          /\ db'.records = db.records
<1>1. ASSUME TablesInv, [ApiNext]_apiVars, NEW e \in events' \ events
      PROVE  Told(e)
  <2>1. PICK c \in Clients : Commit(c)
    BY <1>1 DEF apiVars, ApiNext, ReadZone, LookUp, LookUpFails, Exec, ExecFails, Rollback
  <2>2. /\ e = EventOf(api[c]) /\ db' = Effect(db, api[c]) /\ api[c].pc = "open"
    BY <2>1 DEF Commit
  <2>3. Doable(db, api[c])
    BY <1>1, <2>1, CommitStep
  <2>4. CASE Missed(db, api[c])
    BY <2>2, <2>3, <2>4, MissedChangesNothing
  <2>5. CASE ~ Missed(db, api[c])
    <3>1. StillThere(db, api[c])
      BY <2>3, <2>5, NotMissed
    <3> QED BY <2>2, <2>3, <3>1, EffectDescribed
  <2> QED BY <2>4, <2>5
<1>2. TablesInv /\ [ApiNext]_apiVars => [\A e \in events' \ events : Told(e)]_apiVars
  BY <1>1
<1> QED BY <1>2, TablesInvariance, PTL DEF ApiSpec, EventsDescribeRows

-----------------------------------------------------------------------------
(***************************************************************************)
(* No transaction in progress has missed the row it had looked up.  This   *)
(* is so if requests are served one at a time: nobody changes what one has *)
(* found.                                                                  *)
(***************************************************************************)
NobodyMisses == \A c \in Clients : api[c].pc = "open" => ~ Missed(db, api[c])

OneAtATime == \A c, d \in Clients : c = d

Undisturbed ==
    \A c \in Clients : api[c].pc \in {"found", "open"} => StillThere(db, api[c])

(* The rows a lookup finds have the names of the request.                  *)
LEMMA LookupFinds ==
    ASSUME NEW d \in Tables, TablesOK(d), NEW t, t.req \in Request, t.ids \in Lookup(d, t.req)
    PROVE  StillThere(d, t)
<1> DEFINE r == t.req
<1>1. ASSUME NEW i \in LocationLookup(d, r)
      PROVE  /\ \E z \in d.zones : z.id = i.zone /\ z.name = r.zone
             /\ \E l \in d.locations : l.id = i.loc /\ l.zone = i.zone /\ l.name = r.label
  <2>1. PICK l \in d.locations : /\ i.zone = l.zone /\ i.loc = l.id /\ l.name = r.label
                                 /\ l.zone \in Ids(OwnZones(d, r))
    BY DEF LocationLookup, NoIds
  <2> QED BY <2>1 DEF Ids, OwnZones
<1>2. CASE r.type \in {"update_zone", "delete_zone", "import_zone", "add_location"}
  <2>1. t.ids \in ZoneLookup(d, r)
    BY <1>2 DEF Lookup
  <2>2. \E z \in d.zones : z.id = t.ids.zone /\ z.name = r.zone
    BY <2>1 DEF ZoneLookup, NoIds, OwnZones
  <2> QED BY <1>2, <2>2 DEF StillThere, LocationTypes, RecordTypes
<1>3. CASE r.type \in {"update_location", "delete_location", "add_record"}
  <2>1. t.ids \in LocationLookup(d, r)
    BY <1>3 DEF Lookup
  <2> QED BY <1>1, <1>3, <2>1 DEF StillThere, RecordTypes
<1>4. CASE r.type \in {"update_record", "delete_record"}
  <2>1. t.ids \in RecordLookup(d, r)
    BY <1>4 DEF Lookup
  <2>2. PICK j \in LocationLookup(d, r), x \in d.records :
           x.loc = j.loc /\ x.type = r.rtype /\ t.ids = [j EXCEPT !.rec = x.id]
    BY <2>1 DEF RecordLookup
  <2>3. PICK l \in d.locations : j = [NoIds EXCEPT !.zone = l.zone, !.loc = l.id]
    BY DEF LocationLookup
  <2>4. t.ids.zone = j.zone /\ t.ids.loc = j.loc /\ t.ids.rec = x.id
    BY <2>2, <2>3 DEF NoIds
  <2> QED BY <1>1, <2>2, <2>4 DEF StillThere
<1>5. CASE r.type = "add_zone"
  BY <1>5 DEF StillThere, ZoneTypes, LocationTypes, RecordTypes
<1> QED BY <1>2, <1>3, <1>4, <1>5, RequestFields

(* A step that leaves the tables alone disturbs nobody but the one it is   *)
(* a step of.                                                              *)
LEMMA UndisturbedNext ==
    ASSUME OneAtATime, TablesInv, Undisturbed, [ApiNext]_apiVars
    PROVE  Undisturbed'
<1>t. api \in [Clients -> ApiState] /\ db \in Tables /\ TablesOK(db)
  BY DEF TablesInv, ApiInv, ApiTypeOK
<1> SUFFICES ASSUME NEW c \in Clients
             PROVE  api'[c].pc \in {"found", "open"} => StillThere(db', api'[c])
  BY DEF Undisturbed
<1>o. \A o \in Clients : o = c
  BY DEF OneAtATime
<1>u. api[c].pc \in {"found", "open"} => StillThere(db, api[c])
  BY DEF Undisturbed
<1>1. CASE UNCHANGED apiVars
  <2>1. db' = db /\ api' = api
    BY <1>1 DEF apiVars
  <2> QED BY <2>1, <1>u
<1>2. ASSUME NEW r \in Requests, ReadZone(c, r) PROVE api'[c].pc = "read"
  BY <1>2, <1>t DEF ReadZone, ApiState
<1>3. ASSUME NEW r \in Requests, LookUp(c, r) PROVE StillThere(db', api'[c])
  <2>1. PICK ids \in Lookup(db, r) :
           api' = [api EXCEPT ![c].pc = "found", ![c].req = r, ![c].ids = ids]
    BY <1>3 DEF LookUp
  <2>2. db' = db /\ api'[c].req = r /\ api'[c].ids = ids
    BY <1>3, <2>1, <1>t DEF LookUp, ApiState
  <2>3. r \in Request
    BY VocabularyAssumption
  <2>4. StillThere(db, api'[c])
    BY <1>t, <2>2, <2>3, LookupFinds
  <2> QED BY <2>2, <2>4
<1>4. ASSUME Exec(c) PROVE StillThere(db', api'[c])
  <2>1. /\ db' = db /\ api[c].pc = "found" /\ api'[c].req = api[c].req
        /\ api'[c].ids = api[c].ids
    BY <1>4, <1>t DEF Exec, ApiState
  <2> QED BY <2>1, <1>u DEF StillThere
<1>5. ASSUME LookUpFails(c) \/ ExecFails(c) \/ Commit(c) \/ Rollback(c)
      PROVE  api'[c].pc = "idle"
  BY <1>5, <1>t DEF LookUpFails, ExecFails, Commit, Rollback, Idle
<1> QED BY <1>1, <1>2, <1>3, <1>4, <1>5, <1>o DEF ApiNext

(* Served one at a time, no request misses its row.                        *)
LEMMA SerialMisses ==
    ASSUME OneAtATime
    PROVE  ApiSpec => []NobodyMisses
<1>1. ApiInit => Undisturbed
  BY DEF ApiInit, Idle, Undisturbed
<1>2. TablesInv /\ Undisturbed /\ [ApiNext]_apiVars => Undisturbed'
  BY UndisturbedNext
<1>3. TablesInv /\ Undisturbed => NobodyMisses
  <2> SUFFICES ASSUME TablesInv, Undisturbed, NEW c \in Clients, api[c].pc = "open"
               PROVE  ~ Missed(db, api[c])
    BY DEF NobodyMisses
  <2>1. StillThere(db, api[c])
    BY DEF Undisturbed
  <2> QED BY <2>1 DEF StillThere, Missed, ZoneTypes, LocationTypes, RecordTypes,
               ZoneRows, LocationRows, RecordRows
<1> QED BY <1>1, <1>2, <1>3, TablesInvariance, PTL DEF ApiSpec

-----------------------------------------------------------------------------
(* A transaction serves one of the requests sent, and only an update of a  *)
(* zone carries a serial of its own.                                       *)
RequestKept ==
    \A c \in Clients :
       /\ api[c].pc = "idle" => api[c].serial = InitialSerial
       /\ api[c].pc # "idle" =>
             /\ api[c].req \in Requests
             /\ api[c].req.type # "update_zone" => api[c].serial = InitialSerial

(* Every step of a request keeps it.                                       *)
LEMMA RequestKeptNext ==
    ASSUME ApiInv, RequestKept, [ApiNext]_apiVars
    PROVE  RequestKept'
<1> DEFINE Kept(t) ==
       /\ t.pc = "idle" => t.serial = InitialSerial
       /\ t.pc # "idle" =>
             t.req \in Requests /\ (t.req.type # "update_zone" => t.serial = InitialSerial)
<1>t. api \in [Clients -> ApiState]
  BY DEF ApiInv, ApiTypeOK
<1>k. \A c \in Clients : Kept(api[c])
  BY DEF RequestKept
<1> SUFFICES ASSUME NEW o \in Clients PROVE Kept(api'[o])
  BY DEF RequestKept
<1>1. CASE api'[o] = api[o]
  BY <1>1, <1>k
<1>2. ASSUME NEW r \in Requests, ReadZone(o, r) PROVE Kept(api'[o])
  <2>1. /\ api'[o].pc = "read" /\ api'[o].req = r /\ r.type = "update_zone"
    BY <1>2, <1>t DEF ReadZone, ApiState
  <2> QED BY <2>1
<1>3. ASSUME NEW r \in Requests, LookUp(o, r) PROVE Kept(api'[o])
  <2>1. /\ api'[o].pc = "found" /\ api'[o].req = r /\ api'[o].serial = api[o].serial
        /\ r.type # "update_zone" => api[o].pc = "idle"
    BY <1>3, <1>t DEF LookUp, ApiState
  <2> QED BY <2>1, <1>k
<1>4. ASSUME Exec(o) PROVE Kept(api'[o])
  <2>1. /\ api[o].pc = "found" /\ api'[o].pc = "open" /\ api'[o].req = api[o].req
        /\ api'[o].serial = api[o].serial
    BY <1>4, <1>t DEF Exec, ApiState
  <2> QED BY <2>1, <1>k
<1>5. ASSUME LookUpFails(o) \/ ExecFails(o) \/ Commit(o) \/ Rollback(o) PROVE Kept(api'[o])
  <2>1. api'[o] = Idle
    BY <1>5, <1>t DEF LookUpFails, ExecFails, Commit, Rollback
  <2> QED BY <2>1 DEF Idle
<1>6. ASSUME NEW c \in Clients, c # o,
             \/ \E r \in Requests : ReadZone(c, r) \/ LookUp(c, r)
             \/ LookUpFails(c) \/ Exec(c) \/ ExecFails(c) \/ Commit(c) \/ Rollback(c)
      PROVE  api'[o] = api[o]
  BY <1>6, <1>t DEF ReadZone, LookUp, LookUpFails, Exec, ExecFails, Commit, Rollback
<1>7. CASE UNCHANGED apiVars
  BY <1>7, <1>1 DEF apiVars
<1> QED BY <1>1, <1>2, <1>3, <1>4, <1>5, <1>6, <1>7 DEF ApiNext

(* Nobody has begun.                                                       *)
LEMMA RequestKeptInit == ApiInit => RequestKept
BY DEF ApiInit, Idle, RequestKept

-----------------------------------------------------------------------------
(* The updater and Redis. *)

(***************************************************************************)
(* The inductive invariant: beside the API's part of it, what the updater  *)
(* has read agrees with Redis, which nobody else writes, and the events it *)
(* holds are later than the revision stored there.                         *)
(***************************************************************************)
UpdaterInStep ==
    /\ updater.pc = "query" => updater.revision = redis.rev
    /\ updater.pc = "apply" => \A e \in updater.batch : e.rev > redis.rev

Inv == ApiInv /\ UpdaterTypeOK /\ UpdaterInStep /\ RevisionIsApplied

-----------------------------------------------------------------------------
(* The commands of a Redis transaction keep the zone list and the label    *)
(* sets well-typed.                                                        *)
Store(st) ==
    st \in [zones : SUBSET Zones, labels : [Zones -> SUBSET Labels],
           kv : {st.kv}, rev : {st.rev}]

(* A command keeps the type of the store and does not set the revision.    *)
LEMMA CommandTypes ==
    ASSUME NEW st, Store(st), NEW z \in Zones, NEW l \in Labels, NEW key, NEW v
    PROVE  /\ Store(SAddZone(st, z)) /\ Store(SRemZone(st, z))
           /\ Store(SAddLabel(st, z, l)) /\ Store(SRemLabel(st, z, l))
           /\ Store(Set(st, key, v)) /\ Store(Del(st, key))
<1>1. Store(SAddZone(st, z)) /\ Store(SRemZone(st, z))
  BY DEF Store, SAddZone, SRemZone
<1>2. Store(SAddLabel(st, z, l))
  BY DEF Store, SAddLabel
<1>3. Store(SRemLabel(st, z, l))
  BY DEF Store, SRemLabel
<1>4. \A kv : Store([st EXCEPT !.kv = kv])
  BY DEF Store
<1> QED BY <1>1, <1>2, <1>3, <1>4 DEF Set, Del

(* Applying an event keeps the type and sets the event's revision.         *)
LEMMA ApplyEventType ==
    ASSUME NEW st, Store(st), NEW e \in EventRow
    PROVE  Store(ApplyEvent(st, e)) /\ ApplyEvent(st, e).rev = e.rev
<1> DEFINE r == e.req
<1>r. r \in Request
  BY DEF EventRow
<1>z. r.zone \in Zones /\ Apex \in Labels
  BY <1>r, RequestFields, VocabularyAssumption
<1>1. CASE r.type = "add_zone"
  <2>1. Store(IF r.enabled THEN SAddZone(st, r.zone) ELSE st)
    BY <1>z, CommandTypes
  <2>2. Store(ApplyAddZone(st, e))
    BY <2>1, <1>z, CommandTypes DEF ApplyAddZone
  <2> QED BY <2>2, <1>1 DEF ApplyEvent, Store
<1>2. CASE r.type = "import_zone"
  <2>1. Store(Del(st, zoneLocationsWildcard(r.zone)))
    BY <1>z, CommandTypes
  <2>2. {x[1] : x \in r.entries} \in SUBSET Labels
    BY <1>2, <1>r, RequestFields, VocabularyAssumption
  <2> DEFINE s1 == Del(st, zoneLocationsWildcard(r.zone))
             ls == {x[1] : x \in r.entries}
  <2>3. \A kv : Store([s1 EXCEPT !.labels[r.zone] = @ \cup ls, !.kv = kv])
    BY <2>1, <2>2, <1>z DEF Store
  <2>4. Store(ApplyImportZone(st, e))
    BY <2>3 DEF ApplyImportZone
  <2> QED BY <2>4, <1>2 DEF ApplyEvent, Store
<1>3. CASE r.type = "update_zone"
  <2>1. Store(IF r.enabled THEN SAddZone(st, r.zone) ELSE SRemZone(st, r.zone))
    BY <1>z, CommandTypes
  <2>2. Store(ApplyUpdateZone(st, e))
    BY <2>1, <1>z, CommandTypes DEF ApplyUpdateZone
  <2> QED BY <2>2, <1>3 DEF ApplyEvent, Store
<1>4. CASE r.type = "delete_zone"
  <2>1. Store(ApplyDeleteZone(st, e))
    BY <1>z, CommandTypes DEF ApplyDeleteZone
  <2> QED BY <2>1, <1>4 DEF ApplyEvent, Store
<1>5. CASE r.type = "add_location"
  <2>1. r.label \in Labels
    BY <1>5, <1>r, RequestFields
  <2>2. Store(ApplyAddLocation(st, e))
    BY <2>1, <1>z, CommandTypes DEF ApplyAddLocation
  <2> QED BY <2>2, <1>5 DEF ApplyEvent, Store
<1>6. CASE r.type = "update_location"
  <2>1. r.label \in Labels
    BY <1>6, <1>r, RequestFields
  <2>2. Store(ApplyUpdateLocation(st, e))
    BY <2>1, <1>z, CommandTypes DEF ApplyUpdateLocation
  <2> QED BY <2>2, <1>6 DEF ApplyEvent, Store
<1>7. CASE r.type = "delete_location"
  <2>1. r.label \in Labels
    BY <1>7, <1>r, RequestFields
  <2>2. Store(ApplyDeleteLocation(st, e))
    BY <2>1, <1>z, CommandTypes DEF ApplyDeleteLocation
  <2> QED BY <2>2, <1>7 DEF ApplyEvent, Store
<1>8. CASE r.type = "add_record"
  <2>1. Store(ApplyAddRecord(st, e))
    BY <1>z, CommandTypes DEF ApplyAddRecord
  <2> QED BY <2>1, <1>8 DEF ApplyEvent, Store
<1>9. CASE r.type = "update_record"
  <2>1. Store(ApplyUpdateRecord(st, e))
    BY <1>z, CommandTypes DEF ApplyUpdateRecord
  <2> QED BY <2>1, <1>9 DEF ApplyEvent, Store
<1>10. CASE r.type = "delete_record"
  <2>1. Store(ApplyDeleteRecord(st, e))
    BY <1>z, CommandTypes DEF ApplyDeleteRecord
  <2> QED BY <2>1, <1>10 DEF ApplyEvent, Store
<1> QED
  BY <1>1, <1>2, <1>3, <1>4, <1>5, <1>6, <1>7, <1>8, <1>9, <1>10, <1>r, RequestFields

-----------------------------------------------------------------------------
(* The updater's part: its own steps, and the API's, which only add events.*)
LEMMA UpdaterFields ==
    ASSUME UpdaterTypeOK
    PROVE  /\ Store(redis) /\ redis.rev \in 0..MaxRevision
           /\ updater.batch \subseteq events /\ updater.revision \in 0..MaxRevision
BY DEF UpdaterTypeOK, Store

(* The invariant holds at the start.                                       *)
LEMMA UpdaterInitInv == Init => Inv
<1> SUFFICES ASSUME Init PROVE Inv
  OBVIOUS
<1>1. ApiInv
  BY ApiInitInv DEF Init
<1>2. UpdaterTypeOK
  BY ApiAssumption DEF Init, UpdaterInit, UpdaterTypeOK, EmptyStore, Started
<1>3. UpdaterInStep /\ RevisionIsApplied
  BY DEF Init, UpdaterInit, UpdaterInStep, RevisionIsApplied, EmptyStore, Started
<1> QED BY <1>1, <1>2, <1>3 DEF Inv

(* The API never takes an event back.                                      *)
LEMMA EventsGrow == ApiNext => events \subseteq events'
BY DEF ApiNext, ReadZone, LookUp, LookUpFails, Exec, ExecFails, Commit, Rollback

(* A step of the API leaves what the updater knows true.                   *)
LEMMA ApiKeepsUpdater ==
    ASSUME Inv, ApiNext, UNCHANGED updaterVars
    PROVE  Inv'
<1>1. redis' = redis /\ updater' = updater /\ applied' = applied
  BY DEF updaterVars
<1>2. events \subseteq events'
  BY EventsGrow
<1>3. ApiInv'
  BY ApiNextInv DEF Inv
<1>4. UpdaterTypeOK'
  BY <1>1, <1>2 DEF Inv, UpdaterTypeOK
<1>5. UpdaterInStep'
  BY <1>1 DEF Inv, UpdaterInStep
<1>6. RevisionIsApplied'
  BY <1>1, <1>2 DEF Inv, RevisionIsApplied, Revisions
<1> QED BY <1>3, <1>4, <1>5, <1>6 DEF Inv

(* What one ApplyEvent does to the revisions: the event is a committed one *)
(* not applied before, its revision becomes Redis's, and whatever is left  *)
(* of the batch is later.                                                  *)
LEMMA ApplyStep ==
    ASSUME Inv, Apply, UNCHANGED apiVars
    PROVE  \E e \in updater.batch :
              /\ e \in events /\ e \in EventRow /\ IsNext(e)
              /\ redis' = ApplyEvent(redis, e)
              /\ redis'.rev = e.rev /\ e.rev > redis.rev
              /\ e.rev \in 1..MaxRevision /\ e.rev \notin applied
              /\ applied' = applied \cup {e.rev}
              /\ updater' = [updater EXCEPT !.batch = @ \ {e}]
              /\ updater.pc = "apply"
              /\ \A f \in updater.batch \ {e} : f.rev > e.rev
<1>1. PICK e \in updater.batch :
         /\ IsNext(e)
         /\ redis' = ApplyEvent(redis, e)
         /\ applied' = applied \cup {e.rev}
         /\ updater' = [updater EXCEPT !.batch = @ \ {e}]
  BY DEF Apply
<1>2. updater.pc = "apply"
  BY DEF Apply
<1>3. Store(redis) /\ redis.rev \in 0..MaxRevision /\ updater.batch \subseteq events
  BY UpdaterFields DEF Inv
<1>4. e \in EventRow /\ e \in events
  BY <1>3 DEF Inv, ApiInv, ApiTypeOK
<1>5. redis'.rev = e.rev
  BY <1>1, <1>3, <1>4, ApplyEventType
<1>6. e.rev > redis.rev /\ e.rev \in 1..MaxRevision
  BY <1>2, <1>4 DEF Inv, UpdaterInStep, EventRow
<1>7. e.rev \notin applied
  <2>1. \A r \in applied : r <= redis.rev /\ r \in 1..MaxRevision
    BY DEF Inv, RevisionIsApplied, UpdaterTypeOK
  <2> QED BY <2>1, <1>3, <1>6, ApiAssumption
<1>8. \A f \in updater.batch \ {e} : f.rev > e.rev
  <2> SUFFICES ASSUME NEW f \in updater.batch, f # e PROVE f.rev > e.rev
    OBVIOUS
  <2>1. f \in events /\ f.rev \in 1..MaxRevision
    BY <1>3 DEF Inv, ApiInv, ApiTypeOK, EventRow
  <2>2. f.rev # e.rev
    BY <2>1, <1>4 DEF Inv, ApiInv, EventRevisions
  <2>3. e.rev <= f.rev
    BY <1>1 DEF IsNext
  <2> QED BY <2>1, <2>2, <2>3, <1>6, ApiAssumption
<1> QED BY <1>1, <1>2, <1>4, <1>5, <1>6, <1>7, <1>8

(* Every step of the updater, crashes included, keeps the invariant.       *)
LEMMA UpdaterNextInv ==
    ASSUME Inv, UpdaterNext, UNCHANGED apiVars
    PROVE  Inv'
<1>a. events' = events /\ db' = db /\ nextRevision' = nextRevision /\ api' = api
  BY DEF apiVars
<1>b. ApiInv'
  BY <1>a DEF Inv, ApiInv, ApiTypeOK, TxRequests, EventRevisions, OpenRevisions
<1>c. redis.rev \in 0..MaxRevision /\ updater.batch \subseteq events /\ Store(redis)
  BY UpdaterFields DEF Inv
<1>1. CASE GetRevision
  <2>1. UpdaterTypeOK' /\ UpdaterInStep'
    BY <1>1, <1>a, <1>c DEF GetRevision, Inv, UpdaterTypeOK, UpdaterInStep
  <2>2. RevisionIsApplied'
    BY <1>1, <1>a DEF GetRevision, Inv, RevisionIsApplied, Revisions
  <2> QED BY <1>b, <2>1, <2>2 DEF Inv
<1>2. CASE GetEvents
  <2>1. PICK batch \in SUBSET Newer(updater.revision) :
           updater' = [updater EXCEPT !.pc = "apply", !.batch = batch]
    BY <1>2 DEF GetEvents
  <2>2. batch \subseteq events /\ \A e \in batch : e.rev > redis.rev
    BY <1>2, <2>1 DEF Newer, GetEvents, Inv, UpdaterInStep
  <2>3. UpdaterTypeOK' /\ UpdaterInStep'
    BY <1>2, <1>a, <2>1, <2>2 DEF GetEvents, Inv, UpdaterTypeOK, UpdaterInStep
  <2>4. RevisionIsApplied'
    BY <1>2, <1>a DEF GetEvents, Inv, RevisionIsApplied, Revisions
  <2> QED BY <1>b, <2>3, <2>4 DEF Inv
<1>3. CASE Apply
  <2>1. PICK e \in updater.batch :
              /\ e \in events /\ e \in EventRow
              /\ redis' = ApplyEvent(redis, e)
              /\ redis'.rev = e.rev /\ e.rev > redis.rev
              /\ e.rev \in 1..MaxRevision /\ e.rev \notin applied
              /\ applied' = applied \cup {e.rev}
              /\ updater' = [updater EXCEPT !.batch = @ \ {e}]
              /\ updater.pc = "apply"
              /\ \A f \in updater.batch \ {e} : f.rev > e.rev
    BY <1>3, ApplyStep
  <2>2. redis' \in [zones : SUBSET Zones, labels : [Zones -> SUBSET Labels],
                   kv : {redis'.kv}, rev : 0..MaxRevision]
    <3>1. Store(redis') /\ redis'.rev \in 0..MaxRevision
      BY <2>1, <1>c, ApplyEventType
    <3> QED BY <3>1 DEF Store
  <2>3. UpdaterTypeOK'
    BY <2>1, <2>2, <1>a DEF Inv, UpdaterTypeOK
  <2>4. UpdaterInStep'
    BY <2>1 DEF Inv, UpdaterTypeOK, UpdaterInStep
  <2>5. RevisionIsApplied'
    <3>1. \A r \in applied' : r \in Revisions' /\ r <= redis'.rev
      BY <2>1, <1>a, <1>c, ApiAssumption
         DEF Inv, RevisionIsApplied, Revisions, UpdaterTypeOK
    <3> QED BY <3>1, <2>1 DEF RevisionIsApplied
  <2> QED BY <1>b, <2>3, <2>4, <2>5 DEF Inv
<1>4. CASE ApplyFatal \/ Sleep \/ Crash \/ Restart
  <2>1. UpdaterTypeOK' /\ UpdaterInStep'
    BY <1>4, <1>a, <1>c, ApiAssumption
       DEF ApplyFatal, Sleep, Crash, Restart, Started, Inv, UpdaterTypeOK, UpdaterInStep
  <2>2. RevisionIsApplied'
    BY <1>4, <1>a DEF ApplyFatal, Sleep, Crash, Restart, Inv, RevisionIsApplied, Revisions
  <2> QED BY <1>b, <2>1, <2>2 DEF Inv
<1> QED BY <1>1, <1>2, <1>3, <1>4 DEF UpdaterNext

(* A step of something else keeps the invariant.                           *)
LEMMA StutterInv == Inv /\ UNCHANGED vars => Inv'
BY DEF vars, Inv, ApiInv, ApiTypeOK, TxRequests, EventRevisions, OpenRevisions,
       UpdaterTypeOK, UpdaterInStep, RevisionIsApplied, Revisions

(* The invariant holds in every reachable state.                           *)
THEOREM Invariance == Spec => []Inv
<1>1. Init => Inv
  BY UpdaterInitInv
<1>2. Inv /\ [Next]_vars => Inv'
  BY ApiKeepsUpdater, UpdaterNextInv, StutterInv DEF Next
<1> QED BY <1>1, <1>2, PTL DEF Spec

-----------------------------------------------------------------------------
(* Every variable keeps its type, for any number of concurrent requests.   *)
THEOREM TypeCorrect == Spec => []TypeOK
<1>1. Inv => TypeOK
  BY DEF Inv, ApiInv, TypeOK
<1> QED BY <1>1, Invariance, PTL

(* Redis never stores a revision that was not applied, and never holds the *)
(* data of an event that is not committed.                                 *)
THEOREM RevisionSound == Spec => []RevisionIsApplied
<1>1. Inv => RevisionIsApplied
  BY DEF Inv
<1> QED BY <1>1, Invariance, PTL

(* No crash, restart or refetch of the updater applies an event twice or   *)
(* out of order, however many requests the API serves at once.             *)
THEOREM AppliedOnce == Spec => AppliedOnceInOrder
<1> DEFINE Once == redis' # redis =>
         /\ redis'.rev > redis.rev
         /\ \E e \in events : /\ e.rev \notin applied
                              /\ redis' = ApplyEvent(redis, e)
<1>1. Inv /\ [Next]_vars => [Once]_vars
  <2> SUFFICES ASSUME Inv, [Next]_vars, redis' # redis
               PROVE  Once
    OBVIOUS
  <2>1. UNCHANGED apiVars /\ Apply
    BY DEF Next, vars, updaterVars, UpdaterNext, GetRevision, GetEvents, ApplyFatal,
           Sleep, Crash, Restart
  <2> QED BY <2>1, ApplyStep
<1> QED BY <1>1, Invariance, PTL DEF Spec, AppliedOnceInOrder

-----------------------------------------------------------------------------
(***************************************************************************)
(* Nothing is skipped as long as transactions commit in the order of their *)
(* revisions: an open transaction's revision is later than every event     *)
(* already committed.  MySQL does not promise that to two transactions at  *)
(* once; it holds when the API serves one request at a time.               *)
(***************************************************************************)
CommitsInOrder ==
    \A c \in Clients : api[c].pc = "open" => \A e \in events : e.rev < api[c].rev

(* The batch is a prefix of what is left to apply.                         *)
BatchIsPrefix ==
    updater.pc = "apply" =>
       \A e \in events : e.rev > redis.rev =>
          e \in updater.batch \/ \A f \in updater.batch : f.rev < e.rev

Gapless == BatchIsPrefix /\ NothingSkipped

(* Nothing can be missing before anything is committed.                    *)
LEMMA GaplessInit == Init => Gapless
BY DEF Init, ApiInit, UpdaterInit, Started, Gapless, BatchIsPrefix, NothingSkipped

(* An API step adds no event, or the one of a commit: the latest of all.   *)
LEMMA ApiStep ==
    ASSUME Inv, CommitsInOrder, ApiNext
    PROVE  \/ events' = events
           \/ \E n \in EventRow : /\ events' = events \cup {n}
                                  /\ \A e \in events : e.rev < n.rev
<1>1. CASE \E c \in Clients : Commit(c)
  <2>1. PICK c \in Clients : Commit(c)
    BY <1>1
  <2>2. api[c] \in ApiState /\ api[c].req \in Request /\ api[c].rev \in 1..MaxRevision
    BY <2>1 DEF Commit, Inv, ApiInv, ApiTypeOK, TxRequests, OpenRevisions
  <2>3. EventOf(api[c]) \in EventRow /\ EventOf(api[c]).rev = api[c].rev
    BY <2>2, EventOfType
  <2>4. \A e \in events : e.rev < EventOf(api[c]).rev
    BY <2>1, <2>3 DEF Commit, CommitsInOrder
  <2> QED BY <2>1, <2>3, <2>4 DEF Commit
<1>2. CASE ~ \E c \in Clients : Commit(c)
  BY <1>2 DEF ApiNext, ReadZone, LookUp, LookUpFails, Exec, ExecFails, Rollback
<1> QED BY <1>1, <1>2

(* Numbers and membership the argument below needs.                        *)
LEMMA RevisionFacts ==
    ASSUME Inv
    PROVE  /\ \A e \in events : e.rev \in 1..MaxRevision
           /\ redis.rev \in 0..MaxRevision /\ MaxRevision \in Nat
           /\ updater.batch \subseteq events
           /\ redis.rev # 0 => \E e \in events : e.rev = redis.rev
<1>1. /\ redis.rev \in 0..MaxRevision /\ updater.batch \subseteq events
  BY UpdaterFields DEF Inv
<1>2. \A e \in events : e.rev \in 1..MaxRevision
  BY DEF Inv, ApiInv, ApiTypeOK, EventRow
<1>3. redis.rev # 0 => \E e \in events : e.rev = redis.rev
  BY DEF Inv, RevisionIsApplied, Revisions
<1> QED BY <1>1, <1>2, <1>3, ApiAssumption

(* Commits in the order of revisions put nothing behind the updater.       *)
LEMMA ApiKeepsGapless ==
    ASSUME Inv, CommitsInOrder, Gapless, ApiNext, UNCHANGED updaterVars
    PROVE  Gapless'
<1>u. redis' = redis /\ updater' = updater /\ applied' = applied
  BY DEF updaterVars
<1>1. CASE events' = events
  BY <1>1, <1>u DEF Gapless, BatchIsPrefix, NothingSkipped
<1>2. ASSUME NEW n \in EventRow, events' = events \cup {n},
             \A e \in events : e.rev < n.rev
      PROVE  Gapless'
  <2>1. n.rev \in 1..MaxRevision
    BY DEF EventRow
  <2>2. n.rev > redis.rev
    BY <1>2, <2>1, RevisionFacts
  <2>3. NothingSkipped'
    BY <1>2, <1>u, <2>1, <2>2, RevisionFacts DEF Gapless, NothingSkipped
  <2>4. BatchIsPrefix'
    BY <1>2, <1>u, RevisionFacts DEF Gapless, BatchIsPrefix
  <2> QED BY <2>3, <2>4 DEF Gapless
<1> QED BY <1>1, <1>2, ApiStep

(* The event Apply takes is the next one of the whole stream.              *)
LEMMA ApplyIsNext ==
    ASSUME Inv, Gapless, NEW e \in events, IsNext(e), updater.pc = "apply",
           e.rev > redis.rev
    PROVE  \A g \in events : g.rev < e.rev => g.rev \in applied
<1> SUFFICES ASSUME NEW g \in events, g.rev < e.rev PROVE g.rev \in applied
  OBVIOUS
<1>1. /\ g.rev \in 1..MaxRevision /\ e.rev \in 1..MaxRevision
      /\ redis.rev \in 0..MaxRevision /\ MaxRevision \in Nat
  BY RevisionFacts
<1>2. CASE g.rev <= redis.rev
  BY <1>2 DEF Gapless, NothingSkipped
<1>3. CASE g.rev > redis.rev
  <2>1. g \notin updater.batch
    BY <1>1 DEF IsNext
  <2>2. e.rev < g.rev
    BY <2>1, <1>3 DEF Gapless, BatchIsPrefix, IsNext
  <2> QED BY <2>2, <1>1
<1> QED BY <1>1, <1>2, <1>3

(* The updater applies the smallest event it has not applied.              *)
LEMMA UpdaterKeepsGapless ==
    ASSUME Inv, Gapless, UpdaterNext, UNCHANGED apiVars
    PROVE  Gapless'
<1>a. events' = events
  BY DEF apiVars
<1>1. CASE Apply
  <2>1. PICK e \in updater.batch :
              /\ e \in events /\ IsNext(e)
              /\ redis'.rev = e.rev /\ e.rev > redis.rev
              /\ applied' = applied \cup {e.rev}
              /\ updater' = [updater EXCEPT !.batch = @ \ {e}]
              /\ updater.pc = "apply"
    BY <1>1, ApplyStep
  <2>2. \A g \in events : g.rev < e.rev => g.rev \in applied
    BY <2>1, ApplyIsNext
  <2>3. NothingSkipped'
    BY <2>1, <2>2, <1>a, RevisionFacts DEF NothingSkipped
  <2>4. updater'.batch = updater.batch \ {e}
    BY <2>1 DEF Inv, UpdaterTypeOK
  <2>5. BatchIsPrefix'
    <3> SUFFICES ASSUME NEW g \in events, g.rev > e.rev, g \notin updater.batch \ {e}
                 PROVE  \A f \in updater.batch \ {e} : f.rev < g.rev
      BY <2>1, <2>4, <1>a DEF BatchIsPrefix
    <3>1. g \notin updater.batch /\ g.rev > redis.rev
      BY <2>1, RevisionFacts
    <3> QED BY <3>1, <2>1 DEF Gapless, BatchIsPrefix
  <2> QED BY <2>3, <2>5 DEF Gapless
<1>2. CASE GetEvents
  <2>1. PICK batch \in SUBSET Newer(updater.revision) :
           /\ IsBatch(batch, Newer(updater.revision))
           /\ updater' = [updater EXCEPT !.pc = "apply", !.batch = batch]
    BY <1>2 DEF GetEvents
  <2>2. updater.revision = redis.rev /\ updater'.batch = batch
    BY <1>2, <2>1 DEF GetEvents, Inv, UpdaterInStep, UpdaterTypeOK
  <2>3. \A e \in events : e.rev > redis.rev =>
           e \in batch \/ \A f \in batch : f.rev < e.rev
    <3>1. \A f \in batch : \A e \in Newer(redis.rev) \ batch : f.rev < e.rev
      BY <2>1, <2>2 DEF IsBatch
    <3> QED BY <3>1 DEF Newer
  <2>4. BatchIsPrefix'
    BY <2>2, <2>3, <1>2, <1>a DEF BatchIsPrefix, GetEvents
  <2> QED BY <2>4, <1>2, <1>a DEF GetEvents, Gapless, NothingSkipped
<1>3. CASE GetRevision \/ ApplyFatal \/ Sleep \/ Crash \/ Restart
  <2>1. updater \in [pc : {"poll", "query", "apply", "down"},
                     revision : 0..MaxRevision, batch : SUBSET events]
    BY DEF Inv, UpdaterTypeOK
  <2>2. redis' = redis /\ applied' = applied
    BY <1>3 DEF GetRevision, ApplyFatal, Sleep, Crash, Restart
  <2>3. updater'.pc # "apply"
    <3>1. CASE GetRevision BY <3>1, <2>1 DEF GetRevision
    <3>2. CASE ApplyFatal BY <3>2, <2>1 DEF ApplyFatal
    <3>3. CASE Sleep BY <3>3, <2>1 DEF Sleep
    <3>4. CASE Crash BY <3>4, <2>1 DEF Crash
    <3>5. CASE Restart BY <3>5 DEF Restart, Started
    <3> QED BY <1>3, <3>1, <3>2, <3>3, <3>4, <3>5
  <2> QED BY <2>2, <2>3, <1>a DEF Gapless, BatchIsPrefix, NothingSkipped
<1> QED BY <1>1, <1>2, <1>3 DEF UpdaterNext

(* Whatever the batch size and wherever the updater crashes, no committed  *)
(* event below Redis's revision is missing, if commits keep the order of   *)
(* the revisions.                                                          *)
THEOREM InOrderNothingSkipped == Spec /\ []CommitsInOrder => []NothingSkipped
<1>1. Init => Gapless
  BY GaplessInit
<1>2. Inv /\ CommitsInOrder /\ Gapless /\ [Next]_vars => Gapless'
  <2>1. ASSUME Gapless, UNCHANGED vars PROVE Gapless'
    BY <2>1 DEF vars, Gapless, BatchIsPrefix, NothingSkipped
  <2> QED BY <2>1, ApiKeepsGapless, UpdaterKeepsGapless DEF Next
<1>3. Gapless => NothingSkipped
  BY DEF Gapless
<1> QED BY <1>1, <1>2, <1>3, Invariance, PTL DEF Spec

(* Requests that run one at a time commit in the order of revisions.       *)
LEMMA SerialCommits ==
    ASSUME OneAtATime
    PROVE  Spec => []CommitsInOrder
<1>1. Init => CommitsInOrder
  BY DEF Init, ApiInit, CommitsInOrder
<1>2. Inv /\ CommitsInOrder /\ [Next]_vars => CommitsInOrder'
  <2> SUFFICES ASSUME Inv, CommitsInOrder, [Next]_vars, NEW k \in Clients,
                      api'[k].pc = "open", NEW n \in events'
               PROVE  n.rev < api'[k].rev
    BY DEF CommitsInOrder
  <2>t. api \in [Clients -> ApiState]
    BY DEF Inv, ApiInv, ApiTypeOK
  <2>1. CASE UNCHANGED apiVars \/ UNCHANGED vars
    BY <2>1 DEF apiVars, vars, CommitsInOrder
  <2>2. ASSUME Exec(k) PROVE n.rev < api'[k].rev
    <3>1. api'[k].rev = nextRevision /\ events' = events
      BY <2>2, <2>t DEF Exec, ApiState
    <3> QED BY <3>1 DEF Inv, ApiInv, EventRevisions
  <2>3. ASSUME NEW r \in Requests, ReadZone(k, r) \/ LookUp(k, r) PROVE FALSE
    BY <2>3, <2>t DEF ReadZone, LookUp, ApiState
  <2>4. ASSUME LookUpFails(k) \/ ExecFails(k) \/ Commit(k) \/ Rollback(k) PROVE FALSE
    BY <2>4, <2>t DEF LookUpFails, ExecFails, Commit, Rollback, Idle
  <2> QED BY <2>1, <2>2, <2>3, <2>4, OneAtATime DEF Next, ApiNext, OneAtATime
<1> QED BY <1>1, <1>2, Invariance, PTL DEF Spec

(* ... and so nothing is skipped.                                          *)
THEOREM SerialNothingSkipped ==
    ASSUME OneAtATime
    PROVE  Spec => []NothingSkipped
BY SerialCommits, InOrderNothingSkipped, PTL

(* Refinement: under the same condition the pipeline implements the event  *)
(* stream.  A commit appends, ApplyEvent delivers, all other steps stutter.*)
LEMMA StreamStep ==
    ASSUME Inv, Gapless, CommitsInOrder, [Next]_vars
    PROVE  [Stream!StreamNext]_(Stream!streamVars)
<1>1. CASE UNCHANGED vars
  BY <1>1 DEF vars, Stream!streamVars, Revisions
<1>2. CASE ApiNext /\ UNCHANGED updaterVars
  <2>1. applied' = applied
    BY <1>2 DEF updaterVars
  <2>2. CASE events' = events
    BY <2>1, <2>2 DEF Stream!streamVars, Revisions
  <2>3. ASSUME NEW n \in EventRow, events' = events \cup {n},
               \A e \in events : e.rev < n.rev
        PROVE  Stream!StreamNext
    <3>1. n.rev \in 1..MaxRevision
      BY DEF EventRow
    <3>2. Revisions' = Revisions \cup {n.rev} /\ \A q \in Revisions : q < n.rev
      BY <2>3 DEF Revisions
    <3>3. Stream!Append(n.rev)
      BY <3>2, <2>1 DEF Stream!Append
    <3> QED BY <3>1, <3>3 DEF Stream!StreamNext
  <2> QED BY <1>2, <2>2, <2>3, ApiStep
<1>3. CASE UpdaterNext /\ UNCHANGED apiVars
  <2>1. Revisions' = Revisions
    BY <1>3 DEF apiVars, Revisions
  <2>2. CASE Apply
    <3>1. PICK e \in updater.batch :
              /\ e \in events /\ IsNext(e)
              /\ e.rev > redis.rev
              /\ e.rev \in 1..MaxRevision /\ e.rev \notin applied
              /\ applied' = applied \cup {e.rev}
              /\ updater.pc = "apply"
      BY <1>3, <2>2, ApplyStep
    <3>2. \A g \in events : g.rev < e.rev => g.rev \in applied
      BY <3>1, ApplyIsNext
    <3>3. Stream!Deliver(e.rev)
      BY <3>1, <3>2, <2>1 DEF Stream!Deliver, Revisions
    <3> QED BY <3>1, <3>3 DEF Stream!StreamNext
  <2>3. CASE applied' = applied
    BY <2>1, <2>3 DEF Stream!streamVars
  <2> QED BY <1>3, <2>2, <2>3
          DEF UpdaterNext, GetRevision, GetEvents, ApplyFatal, Sleep, Crash, Restart
<1> QED BY <1>1, <1>2, <1>3 DEF Next

(* One request at a time: the pipeline implements the event stream.        *)
THEOREM SerialImplementsStream ==
    ASSUME OneAtATime
    PROVE  Spec => ImplementsStream
<1>1. Init => Stream!StreamInit
  BY DEF Init, ApiInit, UpdaterInit, Stream!StreamInit, Revisions
<1>2. Init => Gapless
  BY GaplessInit
<1>3. Inv /\ CommitsInOrder /\ Gapless /\ [Next]_vars => Gapless'
  <2>1. ASSUME Gapless, UNCHANGED vars PROVE Gapless'
    BY <2>1 DEF vars, Gapless, BatchIsPrefix, NothingSkipped
  <2> QED BY <2>1, ApiKeepsGapless, UpdaterKeepsGapless DEF Next
<1>4. Inv /\ CommitsInOrder /\ Gapless /\ [Next]_vars
        => [Stream!StreamNext]_(Stream!streamVars)
  BY StreamStep
<1> QED BY <1>1, <1>2, <1>3, <1>4, Invariance, SerialCommits, PTL
        DEF Spec, ImplementsStream, Stream!StreamSpec

-----------------------------------------------------------------------------
(* The updater changes nothing of the API's: whatever is proved of the API *)
(* over MySQL holds in the whole pipeline.                                 *)
THEOREM PipelineKeepsApi == Spec => ApiSpec
<1>1. Init => ApiInit
  BY DEF Init
<1>2. [Next]_vars => [ApiNext]_apiVars
  BY DEF Next, vars, apiVars
<1> QED BY <1>1, <1>2, PTL DEF Spec, ApiSpec

-----------------------------------------------------------------------------
(***************************************************************************)
(* What Redis holds.  A store mirrors the tables when every row can be     *)
(* found under its names: this is the part of NothingMissing that survives *)
(* every operation, rows that are disabled included.                       *)
(***************************************************************************)
Holds(st, key, v) == key \in DOMAIN st.kv /\ st.kv[key] = v

ZonesCovered(d, st) ==
    \A z \in d.zones :
       /\ z.enabled => z.name \in st.zones
       /\ Holds(st, zoneConfigKey(z.name), [id |-> z.id, serial |-> z.serial])
LabelsCovered(d, st) ==
    \A z \in d.zones, l \in d.locations :
       l.zone = z.id /\ l.enabled => l.name \in st.labels[z.name]
RecordsCovered(d, st) ==
    \A z \in d.zones, l \in d.locations, r \in d.records :
       l.zone = z.id /\ r.loc = l.id /\ r.enabled =>
          Holds(st, zoneLocationRRSetKey(z.name, l.name, r.type), r.value)

Covers(d, st) == ZonesCovered(d, st) /\ LabelsCovered(d, st) /\ RecordsCovered(d, st)

(* Conversely, every key has an enabled row, unless it is of a location in *)
(* G, the set of those (with their zones) that keys were left of.          *)
(* ApplyUpdateZone puts the label of the apex back, so that the apex has   *)
(* to be enabled.                                                          *)
ZonesExact(d, st) == \A n \in st.zones : \E z \in d.zones : z.name = n /\ z.enabled
LabelsExact(d, st, G) ==
    \A n \in Zones : \A k \in st.labels[n] :
       <<n, k>> \in G \/ \E z \in d.zones, l \in d.locations :
          z.name = n /\ l.zone = z.id /\ l.name = k /\ l.enabled
RecordsExact(d, st, G) ==
    \A n \in Zones, k \in Labels, ty \in RTypes :
       zoneLocationRRSetKey(n, k, ty) \in DOMAIN st.kv =>
          <<n, k>> \in G \/ \E z \in d.zones, l \in d.locations, r \in d.records :
             /\ z.name = n /\ l.zone = z.id /\ l.name = k
             /\ r.loc = l.id /\ r.type = ty /\ r.enabled
ApexStays(d, G) ==
    \A z \in d.zones :
       <<z.name, Apex>> \in G \/ \E l \in d.locations : l.zone = z.id /\ l.name = Apex /\ l.enabled

Exact(d, st, G) ==
    ZonesExact(d, st) /\ LabelsExact(d, st, G) /\ RecordsExact(d, st, G) /\ ApexStays(d, G)

(* The locations that events have left keys of.                            *)
LeftBy(E) == {x \in Zones \X Labels : \E e \in E : LeavesKeys(e, x[1], x[2])}

Mirrors(d, st, E) == Store(st) /\ Covers(d, st) /\ Exact(d, st, LeftBy(E))

-----------------------------------------------------------------------------
(* Keys of different kinds or names are different keys.                    *)
LEMMA KeysDiffer ==
    /\ \A y, z : zoneConfigKey(y) = zoneConfigKey(z) => y = z
    /\ \A y, k, s, z, l, t :
          zoneLocationRRSetKey(y, k, s) = zoneLocationRRSetKey(z, l, t) => y = z /\ k = l /\ s = t
    /\ \A y, z, l, t : zoneConfigKey(y) # zoneLocationRRSetKey(z, l, t)
    /\ \A y, z : zoneConfigKey(y) # zoneWildcard(z) /\ zoneConfigKey(y) # zoneLocationsWildcard(z)
    /\ \A y, z, l : zoneConfigKey(y) # locationWildcard(z, l)
    /\ \A y, k, s, z : /\ zoneLocationRRSetKey(y, k, s) # zoneWildcard(z)
                       /\ zoneLocationRRSetKey(y, k, s) # zoneLocationsWildcard(z)
    /\ \A y, k, s, z, l : zoneLocationRRSetKey(y, k, s) # locationWildcard(z, l)
<1>1. \A y, z : zoneConfigKey(y) = zoneConfigKey(z) => y = z
  BY DEF zoneConfigKey
<1>2. \A y, k, s, z, l, t :
          zoneLocationRRSetKey(y, k, s) = zoneLocationRRSetKey(z, l, t) => y = z /\ k = l /\ s = t
  BY DEF zoneLocationRRSetKey
<1>3. \A y, z, l, t : zoneConfigKey(y) # zoneLocationRRSetKey(z, l, t)
  BY DEF zoneConfigKey, zoneLocationRRSetKey
<1>4. \A y, z : zoneConfigKey(y) # zoneWildcard(z) /\ zoneConfigKey(y) # zoneLocationsWildcard(z)
  BY DEF zoneConfigKey, zoneWildcard, zoneLocationsWildcard
<1>5. \A y, z, l : zoneConfigKey(y) # locationWildcard(z, l)
  BY DEF zoneConfigKey, locationWildcard
<1>6. \A y, k, s, z : /\ zoneLocationRRSetKey(y, k, s) # zoneWildcard(z)
                      /\ zoneLocationRRSetKey(y, k, s) # zoneLocationsWildcard(z)
  BY DEF zoneLocationRRSetKey, zoneWildcard, zoneLocationsWildcard
<1>7. \A y, k, s, z, l : zoneLocationRRSetKey(y, k, s) # locationWildcard(z, l)
  BY DEF zoneLocationRRSetKey, locationWildcard
<1> QED BY <1>1, <1>2, <1>3, <1>4, <1>5, <1>6, <1>7

(* From st to su no string key outside K is set, changed or deleted.       *)
Touches(st, su, K) ==
    /\ \A key, v : key \notin K /\ Holds(st, key, v) => Holds(su, key, v)
    /\ \A key \in DOMAIN su.kv : key \in K \/ key \in DOMAIN st.kv

(* SET changes the one key it is given.                                    *)
LEMMA SetEffect ==
    ASSUME NEW st, Store(st), NEW key, NEW v
    PROVE  /\ Store(Set(st, key, v))
           /\ Touches(st, Set(st, key, v), {key}) /\ Holds(Set(st, key, v), key, v)
           /\ Set(st, key, v).zones = st.zones /\ Set(st, key, v).labels = st.labels
<1>1. /\ Set(st, key, v).zones = st.zones /\ Set(st, key, v).labels = st.labels
      /\ Set(st, key, v).kv = [k \in DOMAIN st.kv \cup {key} |-> IF k = key THEN v ELSE st.kv[k]]
  BY DEF Set, Store
<1>2. Touches(st, Set(st, key, v), {key}) /\ Holds(Set(st, key, v), key, v)
  BY <1>1 DEF Touches, Holds
<1>3. \A kv : Store([st EXCEPT !.kv = kv])
  BY DEF Store
<1> QED BY <1>1, <1>2, <1>3 DEF Set

(* DEL removes the one key it is given.                                    *)
LEMMA DelEffect ==
    ASSUME NEW st, Store(st), NEW key
    PROVE  /\ Store(Del(st, key))
           /\ Touches(st, Del(st, key), {key}) /\ key \notin DOMAIN Del(st, key).kv
           /\ Del(st, key).zones = st.zones /\ Del(st, key).labels = st.labels
<1>1. /\ Del(st, key).zones = st.zones /\ Del(st, key).labels = st.labels
      /\ Del(st, key).kv = [k \in DOMAIN st.kv \ {key} |-> st.kv[k]]
  BY DEF Del, Store
<1>2. Touches(st, Del(st, key), {key}) /\ key \notin DOMAIN Del(st, key).kv
  BY <1>1 DEF Touches, Holds
<1>3. \A kv : Store([st EXCEPT !.kv = kv])
  BY DEF Store
<1> QED BY <1>1, <1>2, <1>3 DEF Del

(* SADD and SREM on the list of zones change one member.                   *)
LEMMA ZoneListEffect ==
    ASSUME NEW st, Store(st), NEW z \in Zones
    PROVE  /\ Store(SAddZone(st, z)) /\ Store(SRemZone(st, z))
           /\ SAddZone(st, z).zones = st.zones \cup {z} /\ SRemZone(st, z).zones = st.zones \ {z}
           /\ SAddZone(st, z).labels = st.labels /\ SRemZone(st, z).labels = st.labels
           /\ SAddZone(st, z).kv = st.kv /\ SRemZone(st, z).kv = st.kv
<1>1. /\ SAddZone(st, z).zones = st.zones \cup {z} /\ SRemZone(st, z).zones = st.zones \ {z}
      /\ SAddZone(st, z).labels = st.labels /\ SRemZone(st, z).labels = st.labels
      /\ SAddZone(st, z).kv = st.kv /\ SRemZone(st, z).kv = st.kv
  BY DEF SAddZone, SRemZone, Store
<1>2. Store(SAddZone(st, z)) /\ Store(SRemZone(st, z))
  BY DEF Store, SAddZone, SRemZone
<1> QED BY <1>1, <1>2

(* The labels of the zones with a label of z added or removed.             *)
WithLabel(labels, z, l)    == [labels EXCEPT ![z] = @ \cup {l}]
WithoutLabel(labels, z, l) == [labels EXCEPT ![z] = @ \ {l}]

(* Other labels, and the labels of other zones, stay.                      *)
LEMMA OneLabel ==
    ASSUME NEW labels \in [Zones -> SUBSET Labels], NEW z \in Zones, NEW l,
           NEW n \in Zones, NEW k
    PROVE  /\ k \in WithLabel(labels, z, l)[n] <=> k \in labels[n] \/ (n = z /\ k = l)
           /\ k \in WithoutLabel(labels, z, l)[n] <=> k \in labels[n] /\ ~ (n = z /\ k = l)
BY DEF WithLabel, WithoutLabel

(* SADD and SREM on a zone's labels change one member.                     *)
LEMMA LabelEffect ==
    ASSUME NEW st, Store(st), NEW z \in Zones, NEW l \in Labels
    PROVE  /\ Store(SAddLabel(st, z, l)) /\ Store(SRemLabel(st, z, l))
           /\ SAddLabel(st, z, l).zones = st.zones /\ SRemLabel(st, z, l).zones = st.zones
           /\ SAddLabel(st, z, l).labels = WithLabel(st.labels, z, l)
           /\ SRemLabel(st, z, l).labels = WithoutLabel(st.labels, z, l)
           /\ SAddLabel(st, z, l).kv = st.kv /\ SRemLabel(st, z, l).kv = st.kv
<1>1. /\ SAddLabel(st, z, l).zones = st.zones
      /\ SAddLabel(st, z, l).labels = WithLabel(st.labels, z, l)
      /\ SAddLabel(st, z, l).kv = st.kv
  BY DEF SAddLabel, Store, WithLabel
<1>2. /\ SRemLabel(st, z, l).zones = st.zones
      /\ SRemLabel(st, z, l).labels = WithoutLabel(st.labels, z, l)
      /\ SRemLabel(st, z, l).kv = st.kv
  BY DEF SRemLabel, Store, WithoutLabel
<1>3. Store(SAddLabel(st, z, l))
  BY DEF Store, SAddLabel
<1>4. Store(SRemLabel(st, z, l))
  BY DEF Store, SRemLabel
<1> QED BY <1>1, <1>2, <1>3, <1>4

(* Commands one after the other.                                           *)
LEMMA TouchesTwice ==
    ASSUME NEW st, NEW su, NEW sv, NEW K, NEW L, Touches(st, su, K), Touches(su, sv, L)
    PROVE  Touches(st, sv, K \cup L)
BY DEF Touches

(* The set commands touch no string key.                                   *)
LEMMA SameKeys ==
    ASSUME NEW st, NEW su, NEW sv, su.kv = st.kv
    PROVE  /\ \A K : Touches(st, sv, K) <=> Touches(su, sv, K)
           /\ \A K : Touches(sv, st, K) <=> Touches(sv, su, K)
           /\ \A key, v : Holds(st, key, v) <=> Holds(su, key, v)
           /\ Touches(st, su, {})
BY DEF Touches, Holds

-----------------------------------------------------------------------------
(* What ApplyEvent does to the store, operation by operation.              *)
LEMMA StoreAddZone ==
    ASSUME NEW st, Store(st), NEW e \in EventRow, e.req.type = "add_zone"
    PROVE  LET z  == e.req.zone
               su == ApplyEvent(st, e)
           IN  /\ su.zones = IF e.req.enabled THEN st.zones \cup {z} ELSE st.zones
               /\ su.labels = WithLabel(st.labels, z, Apex)
               /\ Touches(st, su, {zoneWildcard(z), zoneConfigKey(z), zoneLocationRRSetKey(z, Apex, NS)})
               /\ Holds(su, zoneConfigKey(z), ZoneConfig(e))
               /\ Holds(su, zoneLocationRRSetKey(z, Apex, NS), NSValue)
<1> DEFINE z  == e.req.zone
           w  == zoneWildcard(z)
           ck == zoneConfigKey(z)
           rk == zoneLocationRRSetKey(z, Apex, NS)
           s1 == IF e.req.enabled THEN SAddZone(st, z) ELSE st
           s2 == Del(s1, w)
           s3 == SAddLabel(s2, z, Apex)
           s4 == Set(s3, ck, ZoneConfig(e))
           s5 == Set(s4, rk, NSValue)
           su == ApplyEvent(st, e)
<1>z. z \in Zones /\ Apex \in Labels
  BY RequestFields, VocabularyAssumption DEF EventRow
<1>5. su.zones = s5.zones /\ su.labels = s5.labels /\ su.kv = s5.kv
  BY DEF ApplyEvent, ApplyAddZone
<1>d. ck # rk
  BY KeysDiffer
<1> HIDE DEF su, w, ck, rk
<1>1. /\ Store(s1) /\ s1.kv = st.kv /\ s1.labels = st.labels
      /\ s1.zones = IF e.req.enabled THEN st.zones \cup {z} ELSE st.zones
  BY <1>z, ZoneListEffect
<1> HIDE DEF s1
<1>2. Store(s2) /\ s2.zones = s1.zones /\ s2.labels = s1.labels /\ Touches(s1, s2, {w})
  BY <1>1, DelEffect
<1> HIDE DEF s2
<1>3. /\ Store(s3) /\ s3.zones = s2.zones /\ s3.kv = s2.kv
      /\ s3.labels = WithLabel(s2.labels, z, Apex)
  BY <1>2, <1>z, LabelEffect
<1> HIDE DEF s3
<1>4. /\ Store(s4) /\ s4.zones = s3.zones /\ s4.labels = s3.labels
      /\ Touches(s3, s4, {ck}) /\ Holds(s4, ck, ZoneConfig(e))
  BY <1>3, SetEffect
<1> HIDE DEF s4
<1>6. /\ s5.zones = s4.zones /\ s5.labels = s4.labels
      /\ Touches(s4, s5, {rk}) /\ Holds(s5, rk, NSValue)
  BY <1>4, SetEffect
<1> HIDE DEF s5
<1>7. Touches(st, s2, {w}) /\ Touches(s2, s4, {ck})
  BY <1>1, <1>2, <1>3, <1>4, SameKeys
<1>8. Touches(st, s5, {w} \cup {ck} \cup {rk})
  BY <1>6, <1>7, TouchesTwice
<1>9. {w} \cup {ck} \cup {rk} = {w, ck, rk}
  OBVIOUS
<1>10. Touches(st, su, {w, ck, rk}) /\ Holds(su, rk, NSValue)
  BY <1>5, <1>6, <1>8, <1>9, SameKeys
<1>11. Holds(su, ck, ZoneConfig(e))
  BY <1>4, <1>5, <1>6, <1>d DEF Touches, Holds
<1>12. /\ su.zones = IF e.req.enabled THEN st.zones \cup {z} ELSE st.zones
       /\ su.labels = WithLabel(st.labels, z, Apex)
  BY <1>1, <1>2, <1>3, <1>4, <1>5, <1>6
<1> QED BY <1>10, <1>11, <1>12 DEF su, w, ck, rk

(* An update of a zone lists or unlists it, and sets its configuration.    *)
LEMMA StoreUpdateZone ==
    ASSUME NEW st, Store(st), NEW e \in EventRow, e.req.type = "update_zone"
    PROVE  LET z  == e.req.zone
               su == ApplyEvent(st, e)
           IN  /\ su.zones = IF e.req.enabled THEN st.zones \cup {z} ELSE st.zones \ {z}
               /\ su.labels = WithLabel(st.labels, z, Apex)
               /\ Touches(st, su, {zoneConfigKey(z)}) /\ Holds(su, zoneConfigKey(z), ZoneConfig(e))
<1> DEFINE z  == e.req.zone
           ck == zoneConfigKey(z)
           s1 == IF e.req.enabled THEN SAddZone(st, z) ELSE SRemZone(st, z)
           s2 == SAddLabel(s1, z, Apex)
           s3 == Set(s2, ck, ZoneConfig(e))
           su == ApplyEvent(st, e)
<1>z. z \in Zones /\ Apex \in Labels
  BY RequestFields, VocabularyAssumption DEF EventRow
<1>5. su.zones = s3.zones /\ su.labels = s3.labels /\ su.kv = s3.kv
  BY DEF ApplyEvent, ApplyUpdateZone
<1> HIDE DEF su, ck
<1>1. /\ Store(s1) /\ s1.kv = st.kv /\ s1.labels = st.labels
      /\ s1.zones = IF e.req.enabled THEN st.zones \cup {z} ELSE st.zones \ {z}
  BY <1>z, ZoneListEffect
<1> HIDE DEF s1
<1>2. /\ Store(s2) /\ s2.zones = s1.zones /\ s2.kv = s1.kv
      /\ s2.labels = WithLabel(s1.labels, z, Apex)
  BY <1>1, <1>z, LabelEffect
<1> HIDE DEF s2
<1>3. /\ s3.zones = s2.zones /\ s3.labels = s2.labels
      /\ Touches(s2, s3, {ck}) /\ Holds(s3, ck, ZoneConfig(e))
  BY <1>2, SetEffect
<1> HIDE DEF s3
<1>4. Touches(st, su, {ck}) /\ Holds(su, ck, ZoneConfig(e))
  BY <1>1, <1>2, <1>3, <1>5 DEF Touches, Holds
<1> QED BY <1>1, <1>2, <1>3, <1>4, <1>5 DEF su, ck

(* A deleted zone leaves the list; DEL of a pattern deletes nothing.       *)
LEMMA StoreDeleteZone ==
    ASSUME NEW st, Store(st), NEW e \in EventRow, e.req.type = "delete_zone"
    PROVE  LET z  == e.req.zone
               su == ApplyEvent(st, e)
           IN  /\ su.zones = st.zones \ {z} /\ su.labels = st.labels
               /\ Touches(st, su, {zoneWildcard(z)})
<1> DEFINE z  == e.req.zone
           s1 == SRemZone(st, z)
           s2 == Del(s1, zoneWildcard(z))
           su == ApplyEvent(st, e)
<1>z. z \in Zones /\ Apex \in Labels
  BY RequestFields, VocabularyAssumption DEF EventRow
<1>5. su.zones = s2.zones /\ su.labels = s2.labels /\ su.kv = s2.kv
  BY DEF ApplyEvent, ApplyDeleteZone
<1> HIDE DEF su
<1>1. /\ Store(s1) /\ s1.kv = st.kv /\ s1.labels = st.labels /\ s1.zones = st.zones \ {z}
  BY <1>z, ZoneListEffect
<1> HIDE DEF s1
<1>2. s2.zones = s1.zones /\ s2.labels = s1.labels /\ Touches(s1, s2, {zoneWildcard(z)})
  BY <1>1, DelEffect
<1> HIDE DEF s2
<1>3. Touches(st, su, {zoneWildcard(z)})
  BY <1>1, <1>2, <1>5 DEF Touches, Holds
<1> QED BY <1>1, <1>2, <1>3, <1>5 DEF su

(* Operations on a location change one member of the label set.            *)
LEMMA StoreLocation ==
    ASSUME NEW st, Store(st), NEW e \in EventRow,
           e.req.type \in {"add_location", "update_location", "delete_location"}
    PROVE  LET z  == e.req.zone
               l  == e.req.label
               su == ApplyEvent(st, e)
           IN  /\ su.zones = st.zones
               /\ e.req.type = "delete_location" =>
                     su.labels = WithoutLabel(st.labels, z, l)
               /\ e.req.type = "update_location" =>
                     su.labels = IF e.req.enabled THEN WithLabel(st.labels, z, l)
                                                  ELSE WithoutLabel(st.labels, z, l)
               /\ e.req.type = "add_location" =>
                     su.labels = IF e.req.enabled THEN WithLabel(st.labels, z, l)
                                                  ELSE st.labels
               /\ Touches(st, su, {locationWildcard(z, l)})
<1> DEFINE z  == e.req.zone
           l  == e.req.label
           wk == locationWildcard(z, l)
           su == ApplyEvent(st, e)
<1>z. z \in Zones /\ l \in Labels
  BY RequestFields DEF EventRow
<1>t. \A sv : sv.kv = st.kv => Touches(st, sv, {wk})
  BY DEF Touches, Holds
<1>1. CASE e.req.type = "add_location"
  <2>1. LET s == ApplyAddLocation(st, e) IN su.zones = s.zones /\ su.labels = s.labels /\ su.kv = s.kv
    BY <1>1 DEF ApplyEvent
  <2>2. /\ su.zones = st.zones /\ su.kv = st.kv
        /\ su.labels = IF e.req.enabled THEN WithLabel(st.labels, z, l) ELSE st.labels
    BY <2>1, <1>z, LabelEffect DEF ApplyAddLocation
  <2> QED BY <1>1, <1>t, <2>2
<1>2. CASE e.req.type = "update_location"
  <2>1. LET s == ApplyUpdateLocation(st, e) IN su.zones = s.zones /\ su.labels = s.labels /\ su.kv = s.kv
    BY <1>2 DEF ApplyEvent
  <2>2. /\ su.zones = st.zones /\ su.kv = st.kv
        /\ su.labels = IF e.req.enabled THEN WithLabel(st.labels, z, l)
                                        ELSE WithoutLabel(st.labels, z, l)
    BY <2>1, <1>z, LabelEffect DEF ApplyUpdateLocation
  <2> QED BY <1>2, <1>t, <2>2
<1>3. CASE e.req.type = "delete_location"
  <2> DEFINE s1 == SRemLabel(st, z, l)
             s2 == Del(s1, wk)
  <2>1. su.zones = s2.zones /\ su.labels = s2.labels /\ su.kv = s2.kv
    BY <1>3 DEF ApplyEvent, ApplyDeleteLocation
  <2> HIDE DEF su, wk
  <2>2. /\ Store(s1) /\ s1.kv = st.kv /\ s1.zones = st.zones
        /\ s1.labels = WithoutLabel(st.labels, z, l)
    BY <1>z, LabelEffect
  <2> HIDE DEF s1
  <2>3. s2.zones = s1.zones /\ s2.labels = s1.labels /\ Touches(s1, s2, {wk})
    BY <2>2, DelEffect
  <2> HIDE DEF s2
  <2>4. Touches(st, su, {wk})
    BY <2>1, <2>2, <2>3 DEF Touches, Holds
  <2> QED BY <1>3, <2>1, <2>2, <2>3, <2>4 DEF su, wk
<1> QED BY <1>1, <1>2, <1>3

(* Operations on a record set change its one key.                          *)
LEMMA StoreRecord ==
    ASSUME NEW st, Store(st), NEW e \in EventRow,
           e.req.type \in {"add_record", "update_record", "delete_record"}
    PROVE  LET su == ApplyEvent(st, e)
           IN  /\ su.zones = st.zones /\ su.labels = st.labels
               /\ Touches(st, su, {RecordKey(e)})
               /\ e.req.type # "delete_record" /\ e.req.enabled => Holds(su, RecordKey(e), e.req.value)
               /\ e.req.type = "delete_record" => RecordKey(e) \notin DOMAIN su.kv
               /\ e.req.type = "update_record" /\ ~ e.req.enabled => RecordKey(e) \notin DOMAIN su.kv
               /\ e.req.type = "add_record" /\ ~ e.req.enabled => su.kv = st.kv
<1> DEFINE k  == RecordKey(e)
           v  == e.req.value
           su == ApplyEvent(st, e)
<1>z. e.req.zone \in Zones /\ Apex \in Labels
  BY RequestFields, VocabularyAssumption DEF EventRow
<1> HIDE DEF k, v
<1>s. /\ Touches(st, Set(st, k, v), {k}) /\ Holds(Set(st, k, v), k, v)
      /\ Set(st, k, v).zones = st.zones /\ Set(st, k, v).labels = st.labels
  BY SetEffect
<1>d. /\ Touches(st, Del(st, k), {k}) /\ k \notin DOMAIN Del(st, k).kv
      /\ Del(st, k).zones = st.zones /\ Del(st, k).labels = st.labels
  BY DelEffect
<1>t. Touches(st, st, {k})
  BY DEF Touches
<1>1. CASE e.req.type = "add_record"
  <2>1. LET s == IF e.req.enabled THEN Set(st, k, v) ELSE st
        IN  su.zones = s.zones /\ su.labels = s.labels /\ su.kv = s.kv
    BY <1>1 DEF ApplyEvent, ApplyAddRecord, k, v
  <2> HIDE DEF su
  <2> QED BY <1>1, <1>s, <1>d, <1>t, <2>1 DEF Touches, Holds, k, v, su
<1>2. CASE e.req.type = "update_record"
  <2>1. LET s == IF e.req.enabled THEN Set(st, k, v) ELSE Del(st, k)
        IN  su.zones = s.zones /\ su.labels = s.labels /\ su.kv = s.kv
    BY <1>2 DEF ApplyEvent, ApplyUpdateRecord, k, v
  <2> HIDE DEF su
  <2> QED BY <1>2, <1>s, <1>d, <2>1 DEF Touches, Holds, k, v, su
<1>3. CASE e.req.type = "delete_record"
  <2>1. LET s == Del(st, k)
        IN  su.zones = s.zones /\ su.labels = s.labels /\ su.kv = s.kv
    BY <1>3 DEF ApplyEvent, ApplyDeleteRecord, k
  <2> HIDE DEF su
  <2> QED BY <1>3, <1>d, <2>1 DEF Touches, Holds, k, su
<1> QED BY <1>1, <1>2, <1>3

(* An import adds labels and sets the key of every entry.                  *)
LEMMA StoreImport ==
    ASSUME NEW st, Store(st), NEW e \in EventRow, e.req.type = "import_zone"
    PROVE  LET z  == e.req.zone
               su == ApplyEvent(st, e)
           IN  /\ su.zones = st.zones
               /\ \A n \in Zones : \A k \in st.labels[n] : k \in su.labels[n]
               /\ \A n \in Zones : n # z => su.labels[n] = st.labels[n]
               /\ \A x \in e.req.entries :
                     /\ x[1] \in su.labels[z]
                     /\ Holds(su, zoneLocationRRSetKey(z, x[1], x[2]), x[3])
               /\ Touches(st, su, {zoneLocationsWildcard(z)} \cup
                     {zoneLocationRRSetKey(z, x[1], x[2]) : x \in e.req.entries})
<1> DEFINE z    == e.req.zone
           en   == e.req.entries
           w    == zoneLocationsWildcard(z)
           s1   == Del(st, w)
           keys == {zoneLocationRRSetKey(z, x[1], x[2]) : x \in en}
           val(k) == (CHOOSE x \in en : k = zoneLocationRRSetKey(z, x[1], x[2]))[3]
           ls   == {x[1] : x \in en}
           kv   == [k \in DOMAIN s1.kv \cup keys |-> IF k \in keys THEN val(k) ELSE s1.kv[k]]
           su   == ApplyEvent(st, e)
<1>z. z \in Zones /\ en \in Imports
  BY RequestFields DEF EventRow
<1>i. /\ en \subseteq Labels \X RTypes \X Values
      /\ \A x, y \in en : x[1] = y[1] /\ x[2] = y[2] => x = y
  BY <1>z, VocabularyAssumption
<1>v. \A x \in en : val(zoneLocationRRSetKey(z, x[1], x[2])) = x[3]
  <2> SUFFICES ASSUME NEW x \in en PROVE val(zoneLocationRRSetKey(z, x[1], x[2])) = x[3]
    OBVIOUS
  <2>1. \A y \in en : zoneLocationRRSetKey(z, x[1], x[2]) = zoneLocationRRSetKey(z, y[1], y[2]) => y = x
    BY <1>i, KeysDiffer
  <2> QED BY <2>1
<1>1. LET s == [s1 EXCEPT !.labels[z] = @ \cup ls, !.kv = kv]
      IN  su.zones = s.zones /\ su.labels = s.labels /\ su.kv = s.kv
  BY DEF ApplyEvent, ApplyImportZone
<1> HIDE DEF su, kv, w
<1>2. Store(s1) /\ s1.zones = st.zones /\ s1.labels = st.labels /\ Touches(st, s1, {w})
  BY DelEffect
<1> HIDE DEF s1
<1>3. su.zones = s1.zones /\ su.kv = kv
  BY <1>1, <1>2 DEF Store
<1>4. su.labels = [s1.labels EXCEPT ![z] = @ \cup ls]
  BY <1>1, <1>2 DEF Store
<1>5. /\ \A n \in Zones : \A k \in st.labels[n] : k \in su.labels[n]
      /\ \A n \in Zones : n # z => su.labels[n] = st.labels[n]
  BY <1>2, <1>4, <1>z DEF Store
<1>6. \A x \in en : x[1] \in su.labels[z]
  BY <1>2, <1>4, <1>z DEF Store
<1>7. \A k \in keys : k \in DOMAIN kv /\ kv[k] = val(k)
  BY DEF kv
<1>8. \A k \in DOMAIN s1.kv : k \notin keys => k \in DOMAIN kv /\ kv[k] = s1.kv[k]
  BY DEF kv
<1>9. \A k \in DOMAIN kv : k \in keys \/ k \in DOMAIN s1.kv
  BY DEF kv
<1>10. \A x \in en : Holds(su, zoneLocationRRSetKey(z, x[1], x[2]), x[3])
  <2> SUFFICES ASSUME NEW x \in en PROVE Holds(su, zoneLocationRRSetKey(z, x[1], x[2]), x[3])
    OBVIOUS
  <2>1. zoneLocationRRSetKey(z, x[1], x[2]) \in keys
    OBVIOUS
  <2> QED BY <2>1, <1>3, <1>7, <1>v DEF Holds
<1> HIDE DEF keys
<1>11. Touches(s1, su, keys)
  BY <1>3, <1>8, <1>9 DEF Touches, Holds
<1>12. Touches(st, su, {w} \cup keys)
  BY <1>2, <1>11, TouchesTwice
<1> QED BY <1>2, <1>3, <1>5, <1>6, <1>10, <1>12 DEF su, w, keys

-----------------------------------------------------------------------------
(***************************************************************************)
(* Committing a transaction and applying its event keep a mirror a mirror. *)
(***************************************************************************)

(* The fields of the event of a transaction.                               *)
LEMMA EventFields ==
    ASSUME NEW d, NEW t, Doable(d, t)
    PROVE  /\ EventOf(t) \in EventRow /\ EventOf(t).req = t.req /\ EventOf(t).rev = t.rev
           /\ EventOf(t).zid = IF t.req.type = "add_zone" THEN ZoneId(t.rev) ELSE t.ids.zone
           /\ EventOf(t).serial = t.serial
           /\ ZoneConfig(EventOf(t)) = [id |-> EventOf(t).zid, serial |-> t.serial]
           /\ RecordKey(EventOf(t)) = zoneLocationRRSetKey(t.req.zone, t.req.label, t.req.rtype)
<1>1. EventOf(t) \in EventRow /\ EventOf(t).rev = t.rev
  BY EventOfType DEF Doable
<1>2. /\ EventOf(t).req = t.req /\ EventOf(t).serial = t.serial
      /\ EventOf(t).zid = IF t.req.type = "add_zone" THEN ZoneId(t.rev) ELSE t.ids.zone
  BY DEF EventOf, Event
<1> QED BY <1>1, <1>2 DEF ZoneConfig, RecordKey

(* The names of rows.                                                      *)
LEMMA RowNames ==
    ASSUME NEW d \in Tables
    PROVE  /\ \A z \in d.zones : z.name \in Zones
           /\ \A l \in d.locations : l.name \in Labels
           /\ \A r \in d.records : r.type \in RTypes /\ r.value \in Values
BY RowFields DEF ZoneRowType, LocationRowType, RecordRowType

(* The zone a request names is the one with the id that was found.         *)
LEMMA NamedZone ==
    ASSUME NEW d, NEW t, Doable(d, t), StillThere(d, t), t.req.type \in ZoneTypes
    PROVE  /\ \A z \in d.zones : z.id = t.ids.zone <=> z.name = t.req.zone
           /\ \E z \in d.zones : z.id = t.ids.zone
<1>1. PICK z \in d.zones : z.id = t.ids.zone /\ z.name = t.req.zone
  BY DEF StillThere
<1> QED BY <1>1 DEF Doable, TablesOK, ZoneKeys, PrimaryKeys

(* So is the location ...                                                  *)
LEMMA NamedLocation ==
    ASSUME NEW d, NEW t, Doable(d, t), StillThere(d, t), t.req.type \in LocationTypes
    PROVE  /\ \A l \in d.locations : l.id = t.ids.loc <=> l.zone = t.ids.zone /\ l.name = t.req.label
           /\ \E l \in d.locations : l.id = t.ids.loc
<1>1. PICK l \in d.locations : l.id = t.ids.loc /\ l.zone = t.ids.zone /\ l.name = t.req.label
  BY DEF StillThere
<1> QED BY <1>1 DEF Doable, TablesOK, LocationKeys, PrimaryKeys

(* ... and the record set.                                                 *)
LEMMA NamedRecord ==
    ASSUME NEW d, NEW t, Doable(d, t), StillThere(d, t), t.req.type \in RecordTypes
    PROVE  /\ \A r \in d.records : r.id = t.ids.rec <=> r.loc = t.ids.loc /\ r.type = t.req.rtype
           /\ \E r \in d.records : r.id = t.ids.rec
<1>1. PICK r \in d.records : r.id = t.ids.rec /\ r.loc = t.ids.loc /\ r.type = t.req.rtype
  BY DEF StillThere
<1> QED BY <1>1 DEF Doable, TablesOK, RecordKeys, PrimaryKeys

(* UpdateZone changes one row and its configuration.                       *)
LEMMA MirrorUpdateZone ==
    ASSUME NEW d, NEW t, Doable(d, t), StillThere(d, t), t.req.type = "update_zone",
           NEW st, Store(st), NEW G
    PROVE  /\ Covers(d, st) => Covers(Effect(d, t), ApplyEvent(st, EventOf(t)))
           /\ Exact(d, st, G) => Exact(Effect(d, t), ApplyEvent(st, EventOf(t)), G)
<1> DEFINE r  == t.req
           ck == zoneConfigKey(r.zone)
           e  == Effect(d, t)
           ev == EventOf(t)
           su == ApplyEvent(st, ev)
<1>e. /\ ev \in EventRow /\ ev.req = r
      /\ ZoneConfig(ev) = [id |-> t.ids.zone, serial |-> t.serial]
  BY EventFields
<1>d. d \in Tables /\ r \in Request
  BY DEF Doable
<1>n. r.zone \in Zones /\ st.labels \in [Zones -> SUBSET Labels]
  BY <1>d, RequestFields DEF Store
<1>1. /\ su.zones = IF r.enabled THEN st.zones \cup {r.zone} ELSE st.zones \ {r.zone}
      /\ su.labels = WithLabel(st.labels, r.zone, Apex)
      /\ Touches(st, su, {ck}) /\ Holds(su, ck, [id |-> t.ids.zone, serial |-> t.serial])
  <2> HIDE DEF ev
  <2> QED BY <1>e, StoreUpdateZone
<1>2. \A n \in Zones : \A k : k \in su.labels[n] <=> k \in st.labels[n] \/ (n = r.zone /\ k = Apex)
  BY <1>1, <1>n, OneLabel
<1> DEFINE up(y) == IF y.id = t.ids.zone
                      THEN [y EXCEPT !.enabled = r.enabled, !.serial = t.serial] ELSE y
<1>3. /\ e.zones = {up(y) : y \in d.zones} /\ e.locations = d.locations /\ e.records = d.records
  BY <1>d DEF Effect, UpdateZone, Tables
<1>4. \A y \in d.zones :
         /\ up(y).id = y.id /\ up(y).name = y.name
         /\ y.id = t.ids.zone => up(y).enabled = r.enabled /\ up(y).serial = t.serial
         /\ y.id # t.ids.zone => up(y) = y
  BY <1>d, RowFields DEF ZoneRowType
<1>5. /\ \A y \in d.zones : y.id = t.ids.zone <=> y.name = r.zone
      /\ \E y \in d.zones : y.id = t.ids.zone
  BY NamedZone DEF ZoneTypes
<1>6. \A y \in d.zones : y.name \in Zones
  BY <1>d, RowNames
<1> HIDE DEF e, su, up, ck
<1>7. ASSUME Covers(d, st) PROVE Covers(e, su)
  <2>1. ASSUME NEW y \in d.zones
        PROVE  /\ up(y).enabled => y.name \in su.zones
               /\ Holds(su, zoneConfigKey(y.name), [id |-> y.id, serial |-> up(y).serial])
    <3>1. CASE y.id = t.ids.zone
      BY <3>1, <1>1, <1>4, <1>5 DEF ck
    <3>2. CASE y.id # t.ids.zone
      <4>1. zoneConfigKey(y.name) \notin {ck}
        BY <3>2, <1>5, KeysDiffer DEF ck
      <4> QED BY <3>2, <4>1, <1>1, <1>4, <1>5, <1>7 DEF Covers, ZonesCovered, Touches
    <3> QED BY <3>1, <3>2
  <2>2. ZonesCovered(e, su)
    BY <2>1, <1>3, <1>4 DEF ZonesCovered
  <2>3. LabelsCovered(e, su)
    BY <1>2, <1>3, <1>4, <1>6, <1>7 DEF Covers, LabelsCovered
  <2>4. \A n, k, ty, v : Holds(st, zoneLocationRRSetKey(n, k, ty), v)
                           => Holds(su, zoneLocationRRSetKey(n, k, ty), v)
    BY <1>1, KeysDiffer DEF Touches, ck
  <2>5. RecordsCovered(e, su)
    BY <2>4, <1>3, <1>4, <1>7 DEF Covers, RecordsCovered
  <2> QED BY <2>2, <2>3, <2>5 DEF Covers
<1>8. ASSUME Exact(d, st, G) PROVE Exact(e, su, G)
  <2>1. ZonesExact(e, su)
    <3> SUFFICES ASSUME NEW n \in su.zones PROVE \E y \in d.zones : y.name = n /\ up(y).enabled
      BY <1>3, <1>4 DEF ZonesExact
    <3>1. CASE n = r.zone
      BY <3>1, <1>1, <1>4, <1>5
    <3>2. CASE n # r.zone
      <4>1. n \in st.zones
        BY <3>2, <1>1
      <4> QED BY <3>2, <4>1, <1>4, <1>5, <1>8 DEF Exact, ZonesExact
    <3> QED BY <3>1, <3>2
  <2>2. ApexStays(e, G)
    BY <1>3, <1>4, <1>8 DEF Exact, ApexStays
  <2>3. LabelsExact(e, su, G)
    <3> SUFFICES ASSUME NEW n \in Zones, NEW k \in su.labels[n]
                 PROVE  <<n, k>> \in G \/ \E y \in e.zones, l \in e.locations :
                           y.name = n /\ l.zone = y.id /\ l.name = k /\ l.enabled
      BY DEF LabelsExact
    <3> SUFFICES ASSUME <<n, k>> \notin G
                 PROVE  \E y \in d.zones, l \in d.locations :
                           y.name = n /\ l.zone = y.id /\ l.name = k /\ l.enabled
      BY <1>3, <1>4
    <3>1. CASE k \in st.labels[n]
      BY <3>1, <1>8 DEF Exact, LabelsExact
    <3>2. CASE n = r.zone /\ k = Apex
      <4>1. PICK y \in d.zones : y.id = t.ids.zone
        BY <1>5
      <4>2. y.name = n /\ <<y.name, Apex>> \notin G
        BY <3>2, <4>1, <1>5
      <4> QED BY <3>2, <4>2, <1>8 DEF Exact, ApexStays
    <3> QED BY <3>1, <3>2, <1>2
  <2>4. \A n, k, ty : zoneLocationRRSetKey(n, k, ty) \in DOMAIN su.kv
                        => zoneLocationRRSetKey(n, k, ty) \in DOMAIN st.kv
    BY <1>1, KeysDiffer DEF Touches, ck
  <2>5. RecordsExact(e, su, G)
    <3> SUFFICES ASSUME NEW n \in Zones, NEW k \in Labels, NEW ty \in RTypes,
                        zoneLocationRRSetKey(n, k, ty) \in DOMAIN su.kv, <<n, k>> \notin G
                 PROVE  \E y \in d.zones, l \in d.locations, q \in d.records :
                           /\ y.name = n /\ l.zone = y.id /\ l.name = k
                           /\ q.loc = l.id /\ q.type = ty /\ q.enabled
      BY <1>3, <1>4 DEF RecordsExact
    <3> QED BY <2>4, <1>8 DEF Exact, RecordsExact
  <2> QED BY <2>1, <2>2, <2>3, <2>5 DEF Exact
<1> QED BY <1>7, <1>8 DEF e, su

(* AddZone inserts a zone, its apex and the name servers, under fresh ids. *)
LEMMA MirrorAddZone ==
    ASSUME NEW d, NEW t, Doable(d, t), t.req.type = "add_zone", t.serial = InitialSerial,
           NEW st, Store(st), NEW G
    PROVE  /\ Covers(d, st) => Covers(Effect(d, t), ApplyEvent(st, EventOf(t)))
           /\ Exact(d, st, G) => Exact(Effect(d, t), ApplyEvent(st, EventOf(t)), G)
<1> DEFINE r  == t.req
           wk == zoneWildcard(r.zone)
           ck == zoneConfigKey(r.zone)
           rk == zoneLocationRRSetKey(r.zone, Apex, NS)
           e  == Effect(d, t)
           ev == EventOf(t)
           su == ApplyEvent(st, ev)
           z0 == ZoneRow(ZoneId(t.rev), r.zone, r.user, r.enabled, InitialSerial)
           l0 == LocationRow(LocationId(t.rev, Apex), ZoneId(t.rev), Apex, TRUE)
           n0 == RecordRow(RecordId(t.rev, Apex, NS), LocationId(t.rev, Apex), NS, NSValue, TRUE)
<1>e. /\ ev \in EventRow /\ ev.req = r
      /\ ZoneConfig(ev) = [id |-> ZoneId(t.rev), serial |-> InitialSerial]
  BY EventFields
<1>d. d \in Tables /\ r \in Request /\ t.rev \in 1..MaxRevision
  BY DEF Doable
<1>n. r.zone \in Zones /\ st.labels \in [Zones -> SUBSET Labels]
  BY <1>d, RequestFields DEF Store
<1>1. /\ su.zones = IF r.enabled THEN st.zones \cup {r.zone} ELSE st.zones
      /\ su.labels = WithLabel(st.labels, r.zone, Apex)
      /\ Touches(st, su, {wk, ck, rk}) /\ Holds(su, rk, NSValue)
      /\ Holds(su, ck, [id |-> ZoneId(t.rev), serial |-> InitialSerial])
  <2> HIDE DEF ev
  <2> QED BY <1>e, StoreAddZone
<1>2. \A n \in Zones : \A k : k \in su.labels[n] <=> k \in st.labels[n] \/ (n = r.zone /\ k = Apex)
  BY <1>1, <1>n, OneLabel
<1>3. /\ e.zones = d.zones \cup {z0} /\ e.locations = d.locations \cup {l0}
      /\ e.records = d.records \cup {n0}
  BY DEF Effect, AddZone
<1>4. /\ z0.id = ZoneId(t.rev) /\ z0.name = r.zone /\ z0.enabled = r.enabled
      /\ z0.serial = InitialSerial
      /\ l0.id = LocationId(t.rev, Apex) /\ l0.zone = z0.id /\ l0.name = Apex /\ l0.enabled = TRUE
      /\ n0.loc = l0.id /\ n0.type = NS /\ n0.value = NSValue /\ n0.enabled = TRUE
  BY DEF ZoneRow, LocationRow, RecordRow
<1>5. DrawnFor(z0.id) = t.rev /\ DrawnFor(l0.id) = t.rev
  <2>1. DrawnFor(ZoneId(t.rev)) = t.rev /\ DrawnFor(LocationId(t.rev, Apex)) = t.rev
    BY DEF DrawnFor, ZoneId, LocationId
  <2> HIDE DEF z0, l0
  <2> QED BY <1>4, <2>1
<1>6. /\ \A y \in d.zones : y.id # z0.id
      /\ \A k \in d.locations : k.zone # z0.id /\ k.id # l0.id
      /\ \A q \in d.records : q.loc # l0.id
  BY <1>5, OldIds
<1>7. \A y \in d.zones : y.name # r.zone /\ y.name \in Zones
  BY <1>d, RowNames DEF Doable, StatementFails
<1>8. Apex \in Labels /\ NS \in RTypes
  BY VocabularyAssumption
<1> HIDE DEF e, su, wk, ck, rk, z0, l0, n0
<1>9. ASSUME Covers(d, st) PROVE Covers(e, su)
  <2>1. ASSUME NEW y \in d.zones
        PROVE  /\ y.enabled => y.name \in su.zones
               /\ Holds(su, zoneConfigKey(y.name), [id |-> y.id, serial |-> y.serial])
    <3>1. zoneConfigKey(y.name) \notin {wk, ck, rk}
      BY <1>7, KeysDiffer DEF wk, ck, rk
    <3> QED BY <3>1, <1>1, <1>9 DEF Covers, ZonesCovered, Touches
  <2>2. /\ z0.enabled => z0.name \in su.zones
        /\ Holds(su, zoneConfigKey(z0.name), [id |-> z0.id, serial |-> z0.serial])
    BY <1>1, <1>4 DEF ck
  <2>3. ZonesCovered(e, su)
    BY <2>1, <2>2, <1>3 DEF ZonesCovered
  <2>4. ASSUME NEW z \in e.zones, NEW l \in e.locations, l.zone = z.id
        PROVE  (z \in d.zones /\ l \in d.locations) \/ (z = z0 /\ l = l0)
    BY <2>4, <1>3, <1>4, <1>6
  <2>5. LabelsCovered(e, su)
    BY <2>4, <1>2, <1>4, <1>7, <1>9, <1>n DEF Covers, LabelsCovered
  <2>6. ASSUME NEW z \in e.zones, NEW l \in e.locations, NEW q \in e.records,
               l.zone = z.id, q.loc = l.id, q.enabled
        PROVE  Holds(su, zoneLocationRRSetKey(z.name, l.name, q.type), q.value)
    <3>1. CASE z = z0 /\ l = l0
      <4>1. q = n0
        BY <3>1, <2>6, <1>3, <1>6
      <4> QED BY <3>1, <4>1, <1>1, <1>4 DEF rk
    <3>2. CASE z \in d.zones /\ l \in d.locations
      <4>1. q \in d.records
        BY <3>2, <2>6, <1>3, <1>4, <1>6
      <4>2. zoneLocationRRSetKey(z.name, l.name, q.type) \notin {wk, ck, rk}
        BY <3>2, <1>7, KeysDiffer DEF wk, ck, rk
      <4> QED BY <3>2, <4>1, <4>2, <2>6, <1>1, <1>9 DEF Covers, RecordsCovered, Touches
    <3> QED BY <3>1, <3>2, <2>4, <2>6
  <2>7. RecordsCovered(e, su)
    BY <2>6 DEF RecordsCovered
  <2> QED BY <2>3, <2>5, <2>7 DEF Covers
<1>10. ASSUME Exact(d, st, G) PROVE Exact(e, su, G)
  <2>1. ZonesExact(e, su)
    BY <1>1, <1>3, <1>4, <1>10 DEF Exact, ZonesExact
  <2>2. ApexStays(e, G)
    BY <1>3, <1>4, <1>10 DEF Exact, ApexStays
  <2>3. LabelsExact(e, su, G)
    <3> SUFFICES ASSUME NEW n \in Zones, NEW k \in su.labels[n]
                 PROVE  <<n, k>> \in G \/ \E z \in e.zones, l \in e.locations :
                           z.name = n /\ l.zone = z.id /\ l.name = k /\ l.enabled
      BY DEF LabelsExact
    <3> SUFFICES ASSUME <<n, k>> \notin G
                 PROVE  \E z \in e.zones, l \in e.locations :
                           z.name = n /\ l.zone = z.id /\ l.name = k /\ l.enabled
      OBVIOUS
    <3>1. CASE k \in st.labels[n]
      BY <3>1, <1>3, <1>10 DEF Exact, LabelsExact
    <3>2. CASE n = r.zone /\ k = Apex
      BY <3>2, <1>3, <1>4
    <3> QED BY <3>1, <3>2, <1>2
  <2>4. RecordsExact(e, su, G)
    <3> SUFFICES ASSUME NEW n \in Zones, NEW k \in Labels, NEW ty \in RTypes,
                        zoneLocationRRSetKey(n, k, ty) \in DOMAIN su.kv, <<n, k>> \notin G
                 PROVE  \E z \in e.zones, l \in e.locations, q \in e.records :
                           /\ z.name = n /\ l.zone = z.id /\ l.name = k
                           /\ q.loc = l.id /\ q.type = ty /\ q.enabled
      BY DEF RecordsExact
    <3>1. CASE zoneLocationRRSetKey(n, k, ty) \in DOMAIN st.kv
      BY <3>1, <1>3, <1>10 DEF Exact, RecordsExact
    <3>2. CASE zoneLocationRRSetKey(n, k, ty) \in {wk, ck, rk}
      <4>1. n = r.zone /\ k = Apex /\ ty = NS
        BY <3>2, KeysDiffer DEF wk, ck, rk
      <4> QED BY <4>1, <1>3, <1>4
    <3> QED BY <3>1, <3>2, <1>1 DEF Touches
  <2> QED BY <2>1, <2>2, <2>3, <2>4 DEF Exact
<1> QED BY <1>9, <1>10 DEF e, su

(* What a deletion under zone n leaves: an exact store stays exact if all  *)
(* the locations of n count as left.                                       *)
LEMMA ExactOutside ==
    ASSUME NEW d, NEW e, NEW st, Store(st), NEW su, NEW G, NEW n \in Zones,
           \A z \in e.zones : z \in d.zones,
           \A z \in d.zones : z.name \in Zones,
           \A z \in d.zones : z.name # n => z \in e.zones,
           \A z \in d.zones, l \in d.locations :
              z.name # n /\ l.zone = z.id => l \in e.locations,
           \A z \in d.zones, l \in d.locations, q \in d.records :
              z.name # n /\ l.zone = z.id /\ q.loc = l.id => q \in e.records,
           \A k \in Labels : <<n, k>> \in G,
           Store(su), ZonesExact(e, su),
           \A m \in Zones : m # n => su.labels[m] = st.labels[m],
           \A m, k, ty : m # n /\ zoneLocationRRSetKey(m, k, ty) \in DOMAIN su.kv
                            => zoneLocationRRSetKey(m, k, ty) \in DOMAIN st.kv,
           Exact(d, st, G)
    PROVE  Exact(e, su, G)
<1>1. Apex \in Labels /\ su.labels \in [Zones -> SUBSET Labels]
  BY VocabularyAssumption DEF Store
<1>2. LabelsExact(e, su, G)
  <2> SUFFICES ASSUME NEW m \in Zones, NEW k \in su.labels[m]
               PROVE  <<m, k>> \in G \/ \E z \in e.zones, l \in e.locations :
                         z.name = m /\ l.zone = z.id /\ l.name = k /\ l.enabled
    BY DEF LabelsExact
  <2> SUFFICES ASSUME <<m, k>> \notin G
               PROVE  \E z \in e.zones, l \in e.locations :
                         z.name = m /\ l.zone = z.id /\ l.name = k /\ l.enabled
    OBVIOUS
  <2>1. m # n
    BY <1>1
  <2>2. k \in st.labels[m]
    BY <2>1
  <2>3. PICK z \in d.zones, l \in d.locations :
           z.name = m /\ l.zone = z.id /\ l.name = k /\ l.enabled
    BY <2>2 DEF Exact, LabelsExact
  <2> QED BY <2>1, <2>3
<1>3. RecordsExact(e, su, G)
  <2> SUFFICES ASSUME NEW m \in Zones, NEW k \in Labels, NEW ty \in RTypes,
                      zoneLocationRRSetKey(m, k, ty) \in DOMAIN su.kv, <<m, k>> \notin G
               PROVE  \E z \in e.zones, l \in e.locations, q \in e.records :
                         /\ z.name = m /\ l.zone = z.id /\ l.name = k
                         /\ q.loc = l.id /\ q.type = ty /\ q.enabled
    BY DEF RecordsExact
  <2>1. m # n
    OBVIOUS
  <2>2. zoneLocationRRSetKey(m, k, ty) \in DOMAIN st.kv
    BY <2>1
  <2>3. PICK z \in d.zones, l \in d.locations, q \in d.records :
           /\ z.name = m /\ l.zone = z.id /\ l.name = k
           /\ q.loc = l.id /\ q.type = ty /\ q.enabled
    BY <2>2 DEF Exact, RecordsExact
  <2> QED BY <2>1, <2>3
<1>4. ApexStays(e, G)
  <2> SUFFICES ASSUME NEW z \in e.zones, <<z.name, Apex>> \notin G
               PROVE  \E l \in e.locations : l.zone = z.id /\ l.name = Apex /\ l.enabled
    BY DEF ApexStays
  <2>1. z \in d.zones /\ z.name # n
    BY <1>1
  <2>2. PICK l \in d.locations : l.zone = z.id /\ l.name = Apex /\ l.enabled
    BY <2>1 DEF Exact, ApexStays
  <2> QED BY <2>1, <2>2
<1> QED BY <1>2, <1>3, <1>4 DEF Exact

(* DeleteZone takes a zone and everything under it.                        *)
LEMMA MirrorDeleteZone ==
    ASSUME NEW d, NEW t, Doable(d, t), StillThere(d, t), t.req.type = "delete_zone",
           NEW st, Store(st), NEW G
    PROVE  /\ Covers(d, st) => Covers(Effect(d, t), ApplyEvent(st, EventOf(t)))
           /\ Exact(d, st, G) /\ (\A k \in Labels : <<t.req.zone, k>> \in G)
                => Exact(Effect(d, t), ApplyEvent(st, EventOf(t)), G)
<1> DEFINE r  == t.req
           wk == zoneWildcard(r.zone)
           e  == Effect(d, t)
           ev == EventOf(t)
           su == ApplyEvent(st, ev)
<1>e. ev \in EventRow /\ ev.req = r
  BY EventFields
<1>1. su.zones = st.zones \ {r.zone} /\ su.labels = st.labels /\ Touches(st, su, {wk})
  <2> HIDE DEF ev
  <2> QED BY <1>e, StoreDeleteZone
<1>2. /\ \A z \in e.zones : z \in d.zones /\ z.id # t.ids.zone
      /\ \A l \in e.locations : l \in d.locations
      /\ \A q \in e.records : q \in d.records
  BY DEF Effect, DeleteZone, DeleteResources
<1>3. \A z \in d.zones : z.id = t.ids.zone <=> z.name = r.zone
  BY NamedZone DEF ZoneTypes
<1>4. \A n, v : Holds(st, zoneConfigKey(n), v) => Holds(su, zoneConfigKey(n), v)
  BY <1>1, KeysDiffer DEF Touches
<1>5. \A n, k, ty, v : Holds(st, zoneLocationRRSetKey(n, k, ty), v)
                         => Holds(su, zoneLocationRRSetKey(n, k, ty), v)
  BY <1>1, KeysDiffer DEF Touches
<1>k. \A n, k, ty : zoneLocationRRSetKey(n, k, ty) \in DOMAIN su.kv
                      => zoneLocationRRSetKey(n, k, ty) \in DOMAIN st.kv
  BY <1>1, KeysDiffer DEF Touches
<1>s. Store(su) /\ d \in Tables /\ TablesOK(d) /\ r \in Request
  BY <1>e, ApplyEventType DEF Doable
<1>o. /\ \A z \in d.zones : z.id # t.ids.zone => z \in e.zones
      /\ \A z \in d.zones, l \in d.locations :
            z.id # t.ids.zone /\ l.zone = z.id => l \in e.locations
      /\ \A z \in d.zones, l \in d.locations, q \in d.records :
            z.id # t.ids.zone /\ l.zone = z.id /\ q.loc = l.id => q \in e.records
  <2> DEFINE ls  == LocationsOf(d, t.ids.zone)
             rs  == RecordsOf(d, Ids(ls))
             ids == {t.ids.zone} \cup Ids(ls) \cup Ids(rs)
  <2>1. e = DeleteResources(d, ids)
    BY DEF Effect, DeleteZone
  <2>2. Kinds(d) /\ PrimaryKeys(d) /\ t.ids.zone \in ZoneIds
    BY <1>s DEF TablesOK, Doable, IdsFit, ZoneFits, ZoneTypes
  <2>3. /\ ls \subseteq d.locations /\ rs \subseteq d.records
        /\ \A l \in d.locations : l \in ls <=> l.zone = t.ids.zone
        /\ \A q \in d.records : q \in rs <=> q.loc \in Ids(ls)
    BY DEF LocationsOf, RecordsOf
  <2> HIDE DEF ls, rs
  <2>4. Ids(ls) \subseteq LocationIds /\ Ids(rs) \subseteq RecordIds
    BY <2>2, <2>3 DEF Kinds, Ids
  <2>5. /\ \A z \in d.zones : z.id \in ZoneIds /\ (z.id \in ids => z.id = t.ids.zone)
        /\ \A l \in d.locations : l.id \in LocationIds /\ (l.id \in ids => l.id \in Ids(ls))
        /\ \A q \in d.records : q.id \in RecordIds /\ (q.id \in ids => q.id \in Ids(rs))
    BY <2>2, <2>4, IdKinds DEF Kinds, Ids
  <2>6. /\ \A l \in d.locations : l.id \in Ids(ls) => l.zone = t.ids.zone
        /\ \A q \in d.records : q.id \in Ids(rs) => q.loc \in Ids(ls)
    BY <2>2, <2>3 DEF Ids, PrimaryKeys
  <2> HIDE DEF ids, e
  <2>7. /\ e.zones = {z \in d.zones : z.id \notin ids}
        /\ \A l : l \in e.locations <=> l \in d.locations /\ l.id \notin ids /\ l.zone \in Ids(e.zones)
        /\ \A q : q \in e.records <=> q \in d.records /\ q.id \notin ids /\ q.loc \in Ids(e.locations)
    BY <2>1, <1>s, DeleteKeeps
  <2>8. \A z \in d.zones : z.id # t.ids.zone => z \in e.zones
    BY <2>5, <2>7
  <2>9. ASSUME NEW z \in d.zones, NEW l \in d.locations, z.id # t.ids.zone, l.zone = z.id
        PROVE  l \in e.locations /\ l.id \notin Ids(ls)
    BY <2>5, <2>6, <2>7, <2>8, <2>9 DEF Ids
  <2>10. ASSUME NEW z \in d.zones, NEW l \in d.locations, NEW q \in d.records,
                z.id # t.ids.zone, l.zone = z.id, q.loc = l.id
         PROVE  q \in e.records
    <3>1. l \in e.locations /\ l.id \notin Ids(ls)
      BY <2>9, <2>10
    <3>2. q.id \notin ids
      BY <3>1, <2>5, <2>6, <2>10
    <3> QED BY <3>1, <3>2, <2>7, <2>10 DEF Ids
  <2> QED BY <2>8, <2>9, <2>10
<1>n. r.zone \in Zones /\ \A z \in d.zones : z.name \in Zones
  BY <1>s, RequestFields, RowNames
<1> HIDE DEF e, su
<1>6. ASSUME Covers(d, st) PROVE Covers(e, su)
  <2>1. ZonesCovered(e, su)
    BY <1>1, <1>2, <1>3, <1>4, <1>6 DEF Covers, ZonesCovered
  <2>2. LabelsCovered(e, su)
    BY <1>1, <1>2, <1>6 DEF Covers, LabelsCovered
  <2>3. RecordsCovered(e, su)
    BY <1>2, <1>5, <1>6 DEF Covers, RecordsCovered
  <2> QED BY <2>1, <2>2, <2>3 DEF Covers
<1>7. ASSUME Exact(d, st, G), \A k \in Labels : <<r.zone, k>> \in G PROVE Exact(e, su, G)
  <2>1. ZonesExact(e, su)
    <3> SUFFICES ASSUME NEW n \in su.zones PROVE \E z \in e.zones : z.name = n /\ z.enabled
      BY DEF ZonesExact
    <3>1. PICK z \in d.zones : z.name = n /\ z.enabled /\ n # r.zone
      BY <1>1, <1>7 DEF Exact, ZonesExact
    <3> QED BY <3>1, <1>3, <1>o
  <2>2. /\ \A z \in d.zones : z.name # r.zone => z \in e.zones
        /\ \A z \in d.zones, l \in d.locations :
              z.name # r.zone /\ l.zone = z.id => l \in e.locations
        /\ \A z \in d.zones, l \in d.locations, q \in d.records :
              z.name # r.zone /\ l.zone = z.id /\ q.loc = l.id => q \in e.records
    BY <1>3, <1>o
  <2>3. /\ \A m \in Zones : m # r.zone => su.labels[m] = st.labels[m]
        /\ \A m, k, ty : m # r.zone /\ zoneLocationRRSetKey(m, k, ty) \in DOMAIN su.kv
                         => zoneLocationRRSetKey(m, k, ty) \in DOMAIN st.kv
    BY <1>1, <1>k
  <2>4. \A z \in e.zones : z \in d.zones
    BY <1>2
  <2>5. PICK n \in Zones : n = r.zone
    BY <1>n
  <2> HIDE DEF r
  <2>6. \A k \in Labels : <<n, k>> \in G
    BY <2>5, <1>7
  <2> QED BY <2>1, <2>2, <2>3, <2>4, <2>5, <2>6, <1>7, <1>n, <1>s, ExactOutside
<1> QED BY <1>6, <1>7 DEF e, su

(* DeleteLocation takes a location and its record sets.                    *)
LEMMA MirrorDeleteLocation ==
    ASSUME NEW d, NEW t, Doable(d, t), StillThere(d, t), t.req.type = "delete_location",
           NEW st, Store(st), NEW G
    PROVE  /\ Covers(d, st) => Covers(Effect(d, t), ApplyEvent(st, EventOf(t)))
           /\ Exact(d, st, G) /\ <<t.req.zone, t.req.label>> \in G
                => Exact(Effect(d, t), ApplyEvent(st, EventOf(t)), G)
<1> DEFINE r  == t.req
           wk == locationWildcard(r.zone, r.label)
           e  == Effect(d, t)
           ev == EventOf(t)
           su == ApplyEvent(st, ev)
<1>e. ev \in EventRow /\ ev.req = r
  BY EventFields
<1>d. d \in Tables /\ r \in Request
  BY DEF Doable
<1>n. r.zone \in Zones /\ st.labels \in [Zones -> SUBSET Labels]
  BY <1>d, RequestFields DEF Store
<1>1. /\ su.zones = st.zones /\ su.labels = WithoutLabel(st.labels, r.zone, r.label)
      /\ Touches(st, su, {wk})
  <2> HIDE DEF ev
  <2> QED BY <1>e, StoreLocation
<1>l. \A n \in Zones : \A k : k \in su.labels[n] <=> k \in st.labels[n] /\ ~ (n = r.zone /\ k = r.label)
  BY <1>1, <1>n, OneLabel
<1>2. /\ \A z \in e.zones : z \in d.zones
      /\ \A l \in e.locations : l \in d.locations /\ l.id # t.ids.loc
      /\ \A q \in e.records : q \in d.records
  BY DEF Effect, DeleteLocation, DeleteResources
<1>3. \A z \in d.zones : z.name \in Zones /\ (z.id = t.ids.zone <=> z.name = r.zone)
  BY <1>d, NamedZone, RowNames DEF ZoneTypes
<1>k. \A l \in d.locations : l.id = t.ids.loc <=> l.zone = t.ids.zone /\ l.name = r.label
  BY NamedLocation DEF LocationTypes
<1>4. \A n, v : Holds(st, zoneConfigKey(n), v) => Holds(su, zoneConfigKey(n), v)
  BY <1>1, KeysDiffer DEF Touches
<1>5. \A n, k, ty, v : Holds(st, zoneLocationRRSetKey(n, k, ty), v)
                         => Holds(su, zoneLocationRRSetKey(n, k, ty), v)
  BY <1>1, KeysDiffer DEF Touches
<1>x. \A n, k, ty : zoneLocationRRSetKey(n, k, ty) \in DOMAIN su.kv
                      => zoneLocationRRSetKey(n, k, ty) \in DOMAIN st.kv
  BY <1>1, KeysDiffer DEF Touches
<1>o. /\ e.zones = d.zones
      /\ \A l \in d.locations : l.id # t.ids.loc => l \in e.locations
      /\ \A q \in d.records : q.loc # t.ids.loc => q \in e.records
  <2> DEFINE rs  == RecordsOf(d, {t.ids.loc})
             ids == {t.ids.loc} \cup Ids(rs)
  <2>1. e = DeleteResources(d, ids)
    BY DEF Effect, DeleteLocation
  <2>2. TablesOK(d) /\ Kinds(d) /\ PrimaryKeys(d) /\ Parents(d) /\ t.ids.loc \in LocationIds
    BY DEF TablesOK, Doable, IdsFit, LocationFits, LocationTypes
  <2>3. rs \subseteq d.records /\ \A q \in d.records : q \in rs <=> q.loc = t.ids.loc
    BY DEF RecordsOf
  <2> HIDE DEF rs
  <2>4. Ids(rs) \subseteq RecordIds
    BY <2>2, <2>3 DEF Kinds, Ids
  <2>5. /\ \A z \in d.zones : z.id \notin ids
        /\ \A l \in d.locations : l.id \in ids => l.id = t.ids.loc
        /\ \A q \in d.records : q.id \in ids => q.id \in Ids(rs)
    BY <2>2, <2>4, IdKinds DEF Kinds, Ids
  <2>6. \A q \in d.records : q.id \in Ids(rs) => q.loc = t.ids.loc
    BY <2>2, <2>3 DEF Ids, PrimaryKeys
  <2> HIDE DEF ids, e
  <2>7. /\ e.zones = {z \in d.zones : z.id \notin ids}
        /\ \A l : l \in e.locations <=> l \in d.locations /\ l.id \notin ids /\ l.zone \in Ids(e.zones)
        /\ \A q : q \in e.records <=> q \in d.records /\ q.id \notin ids /\ q.loc \in Ids(e.locations)
    BY <2>1, <2>2, <1>d, DeleteKeeps
  <2>8. e.zones = d.zones
    BY <2>5, <2>7
  <2>9. \A l \in d.locations : l.id # t.ids.loc => l \in e.locations
    BY <2>2, <2>5, <2>7, <2>8 DEF Parents
  <2>10. ASSUME NEW q \in d.records, q.loc # t.ids.loc PROVE q \in e.records
    <3>1. PICK l \in d.locations : l.id = q.loc
      BY <2>2 DEF Parents, Ids
    <3>2. l \in e.locations /\ q.id \notin ids
      BY <3>1, <2>5, <2>6, <2>9, <2>10
    <3> QED BY <3>1, <3>2, <2>7 DEF Ids
  <2> QED BY <2>8, <2>9, <2>10
<1> HIDE DEF e, su
<1>6. ASSUME Covers(d, st) PROVE Covers(e, su)
  <2>1. ZonesCovered(e, su)
    BY <1>1, <1>2, <1>4, <1>6 DEF Covers, ZonesCovered
  <2>2. LabelsCovered(e, su)
    BY <1>l, <1>2, <1>3, <1>k, <1>6 DEF Covers, LabelsCovered
  <2>3. RecordsCovered(e, su)
    BY <1>2, <1>5, <1>6 DEF Covers, RecordsCovered
  <2> QED BY <2>1, <2>2, <2>3 DEF Covers
<1>7. ASSUME Exact(d, st, G), <<r.zone, r.label>> \in G PROVE Exact(e, su, G)
  <2>1. ZonesExact(e, su)
    BY <1>1, <1>o, <1>7 DEF Exact, ZonesExact
  <2>2. ASSUME NEW z \in d.zones, NEW l \in d.locations, l.zone = z.id, <<z.name, l.name>> \notin G
        PROVE  l.id # t.ids.loc
    <3>1. ~ (z.name = r.zone /\ l.name = r.label)
      BY <2>2, <1>7
    <3> QED BY <3>1, <2>2, <1>3, <1>k
  <2>3. ApexStays(e, G)
    <3> SUFFICES ASSUME NEW z \in d.zones, <<z.name, Apex>> \notin G
                 PROVE  \E l \in e.locations : l.zone = z.id /\ l.name = Apex /\ l.enabled
      BY <1>o DEF ApexStays
    <3>1. PICK l \in d.locations : l.zone = z.id /\ l.name = Apex /\ l.enabled
      BY <1>7 DEF Exact, ApexStays
    <3> QED BY <3>1, <2>2, <1>o
  <2>4. LabelsExact(e, su, G)
    <3> SUFFICES ASSUME NEW n \in Zones, NEW k \in su.labels[n]
                 PROVE  <<n, k>> \in G \/ \E z \in e.zones, l \in e.locations :
                           z.name = n /\ l.zone = z.id /\ l.name = k /\ l.enabled
      BY DEF LabelsExact
    <3> SUFFICES ASSUME <<n, k>> \notin G
                 PROVE  \E z \in d.zones, l \in e.locations :
                           z.name = n /\ l.zone = z.id /\ l.name = k /\ l.enabled
      BY <1>o
    <3>1. PICK z \in d.zones, l \in d.locations :
             z.name = n /\ l.zone = z.id /\ l.name = k /\ l.enabled
      BY <1>l, <1>7 DEF Exact, LabelsExact
    <3> QED BY <3>1, <2>2, <1>o
  <2>5. RecordsExact(e, su, G)
    <3> SUFFICES ASSUME NEW n \in Zones, NEW k \in Labels, NEW ty \in RTypes,
                        zoneLocationRRSetKey(n, k, ty) \in DOMAIN su.kv, <<n, k>> \notin G
                 PROVE  \E z \in d.zones, l \in e.locations, q \in e.records :
                           /\ z.name = n /\ l.zone = z.id /\ l.name = k
                           /\ q.loc = l.id /\ q.type = ty /\ q.enabled
      BY <1>o DEF RecordsExact
    <3>1. PICK z \in d.zones, l \in d.locations, q \in d.records :
             /\ z.name = n /\ l.zone = z.id /\ l.name = k
             /\ q.loc = l.id /\ q.type = ty /\ q.enabled
      BY <1>x, <1>7 DEF Exact, RecordsExact
    <3>2. l.id # t.ids.loc
      BY <3>1, <2>2
    <3> QED BY <3>1, <3>2, <1>o
  <2> QED BY <2>1, <2>3, <2>4, <2>5 DEF Exact
<1> QED BY <1>6, <1>7 DEF e, su

(* AddLocation inserts a row that has no record set yet.                   *)
LEMMA MirrorAddLocation ==
    ASSUME NEW d, NEW t, Doable(d, t), StillThere(d, t), t.req.type = "add_location",
           NEW st, Store(st), NEW G
    PROVE  /\ Covers(d, st) => Covers(Effect(d, t), ApplyEvent(st, EventOf(t)))
           /\ Exact(d, st, G) => Exact(Effect(d, t), ApplyEvent(st, EventOf(t)), G)
<1> DEFINE r  == t.req
           wk == locationWildcard(r.zone, r.label)
           e  == Effect(d, t)
           ev == EventOf(t)
           su == ApplyEvent(st, ev)
           l0 == LocationRow(LocationId(t.rev, r.label), t.ids.zone, r.label, r.enabled)
<1>e. ev \in EventRow /\ ev.req = r
  BY EventFields
<1>d. d \in Tables /\ r \in Request /\ t.rev \in 1..MaxRevision
  BY DEF Doable
<1>n. r.zone \in Zones /\ st.labels \in [Zones -> SUBSET Labels] /\ r.label \in Labels
  BY <1>d, RequestFields DEF Store
<1>1. /\ su.zones = st.zones /\ Touches(st, su, {wk})
      /\ su.labels = IF r.enabled THEN WithLabel(st.labels, r.zone, r.label) ELSE st.labels
  <2> HIDE DEF ev
  <2> QED BY <1>e, StoreLocation
<1>l. \A n \in Zones : \A k : k \in su.labels[n] <=> k \in st.labels[n] \/ (r.enabled /\ n = r.zone /\ k = r.label)
  BY <1>1, <1>n, OneLabel
<1>2. e.zones = d.zones /\ e.locations = d.locations \cup {l0} /\ e.records = d.records
  BY <1>d DEF Effect, AddLocation, Tables
<1>3. /\ l0.id = LocationId(t.rev, r.label) /\ l0.zone = t.ids.zone /\ l0.name = r.label
      /\ l0.enabled = r.enabled
  BY DEF LocationRow
<1>4. \A q \in d.records : q.loc # l0.id
  BY <1>3, <1>d, <1>n, IdKinds, OldIds
<1>5. /\ \A z \in d.zones : z.name \in Zones /\ (z.id = t.ids.zone <=> z.name = r.zone)
      /\ \E z \in d.zones : z.id = t.ids.zone
  BY <1>d, NamedZone, RowNames DEF ZoneTypes
<1>6. \A n, v : Holds(st, zoneConfigKey(n), v) => Holds(su, zoneConfigKey(n), v)
  BY <1>1, KeysDiffer DEF Touches
<1>7. \A n, k, ty, v : Holds(st, zoneLocationRRSetKey(n, k, ty), v)
                         => Holds(su, zoneLocationRRSetKey(n, k, ty), v)
  BY <1>1, KeysDiffer DEF Touches
<1>8. \A n, k, ty : zoneLocationRRSetKey(n, k, ty) \in DOMAIN su.kv
                      => zoneLocationRRSetKey(n, k, ty) \in DOMAIN st.kv
  BY <1>1, KeysDiffer DEF Touches
<1> HIDE DEF e, su, l0
<1>9. ASSUME Covers(d, st) PROVE Covers(e, su)
  <2>1. ZonesCovered(e, su)
    BY <1>1, <1>2, <1>6, <1>9 DEF Covers, ZonesCovered
  <2>2. LabelsCovered(e, su)
    BY <1>l, <1>2, <1>3, <1>5, <1>9 DEF Covers, LabelsCovered
  <2>3. RecordsCovered(e, su)
    BY <1>2, <1>4, <1>7, <1>9 DEF Covers, RecordsCovered
  <2> QED BY <2>1, <2>2, <2>3 DEF Covers
<1>10. ASSUME Exact(d, st, G) PROVE Exact(e, su, G)
  <2>1. ZonesExact(e, su)
    BY <1>1, <1>2, <1>10 DEF Exact, ZonesExact
  <2>2. ApexStays(e, G)
    BY <1>2, <1>10 DEF Exact, ApexStays
  <2>3. LabelsExact(e, su, G)
    <3> SUFFICES ASSUME NEW n \in Zones, NEW k \in su.labels[n]
                 PROVE  <<n, k>> \in G \/ \E z \in e.zones, l \in e.locations :
                           z.name = n /\ l.zone = z.id /\ l.name = k /\ l.enabled
      BY DEF LabelsExact
    <3> SUFFICES ASSUME <<n, k>> \notin G
                 PROVE  \E z \in e.zones, l \in e.locations :
                           z.name = n /\ l.zone = z.id /\ l.name = k /\ l.enabled
      OBVIOUS
    <3>1. CASE k \in st.labels[n]
      BY <3>1, <1>2, <1>10 DEF Exact, LabelsExact
    <3>2. CASE r.enabled /\ n = r.zone /\ k = r.label
      <4>1. PICK z \in d.zones : z.id = t.ids.zone /\ z.name = r.zone
        BY <1>5
      <4>2. z \in e.zones /\ l0 \in e.locations
        BY <1>2
      <4> QED BY <3>2, <4>1, <4>2, <1>3
    <3> QED BY <3>1, <3>2, <1>l
  <2>4. RecordsExact(e, su, G)
    <3> SUFFICES ASSUME NEW n \in Zones, NEW k \in Labels, NEW ty \in RTypes,
                        zoneLocationRRSetKey(n, k, ty) \in DOMAIN su.kv, <<n, k>> \notin G
                 PROVE  \E z \in e.zones, l \in e.locations, q \in e.records :
                           /\ z.name = n /\ l.zone = z.id /\ l.name = k
                           /\ q.loc = l.id /\ q.type = ty /\ q.enabled
      BY DEF RecordsExact
    <3> QED BY <1>2, <1>8, <1>10 DEF Exact, RecordsExact
  <2> QED BY <2>1, <2>2, <2>3, <2>4 DEF Exact
<1> QED BY <1>9, <1>10 DEF e, su

(* UpdateLocation changes one row and its label.                           *)
LEMMA MirrorUpdateLocation ==
    ASSUME NEW d, NEW t, Doable(d, t), StillThere(d, t), t.req.type = "update_location",
           NEW st, Store(st), NEW G
    PROVE  /\ Covers(d, st) => Covers(Effect(d, t), ApplyEvent(st, EventOf(t)))
           /\ Exact(d, st, G)
                /\ (t.req.label = Apex /\ ~ t.req.enabled => <<t.req.zone, t.req.label>> \in G)
                => Exact(Effect(d, t), ApplyEvent(st, EventOf(t)), G)
<1> DEFINE r  == t.req
           wk == locationWildcard(r.zone, r.label)
           e  == Effect(d, t)
           ev == EventOf(t)
           su == ApplyEvent(st, ev)
           up(l) == IF l.id = t.ids.loc THEN [l EXCEPT !.enabled = r.enabled] ELSE l
<1>e. ev \in EventRow /\ ev.req = r
  BY EventFields
<1>d. d \in Tables /\ r \in Request
  BY DEF Doable
<1>n. r.zone \in Zones /\ st.labels \in [Zones -> SUBSET Labels] /\ r.label \in Labels
  BY <1>d, RequestFields DEF Store
<1>1. /\ su.zones = st.zones /\ Touches(st, su, {wk})
      /\ su.labels = IF r.enabled THEN WithLabel(st.labels, r.zone, r.label)
                                  ELSE WithoutLabel(st.labels, r.zone, r.label)
  <2> HIDE DEF ev
  <2> QED BY <1>e, StoreLocation
<1>l. \A n \in Zones : \A k :
         k \in su.labels[n] <=> IF n = r.zone /\ k = r.label THEN r.enabled ELSE k \in st.labels[n]
  <2>1. CASE r.enabled
    BY <2>1, <1>1, <1>n, OneLabel
  <2>2. CASE ~ r.enabled
    BY <2>2, <1>1, <1>n, OneLabel
  <2> QED BY <2>1, <2>2
<1>2. e.zones = d.zones /\ e.locations = {up(l) : l \in d.locations} /\ e.records = d.records
  BY <1>d DEF Effect, UpdateLocation, Tables
<1>3. \A l \in d.locations :
         /\ up(l).id = l.id /\ up(l).name = l.name /\ up(l).zone = l.zone
         /\ l.id = t.ids.loc => up(l).enabled = r.enabled
         /\ l.id # t.ids.loc => up(l) = l
  BY <1>d, RowFields DEF LocationRowType
<1>5. \A z \in d.zones : z.name \in Zones /\ (z.id = t.ids.zone <=> z.name = r.zone)
  BY <1>d, NamedZone, RowNames DEF ZoneTypes
<1>z. \E z \in d.zones : z.id = t.ids.zone
  BY NamedZone DEF ZoneTypes
<1>k. /\ \A l \in d.locations : l.id = t.ids.loc <=> l.zone = t.ids.zone /\ l.name = r.label
      /\ \E l \in d.locations : l.id = t.ids.loc
  BY NamedLocation DEF LocationTypes
<1>6. \A n, v : Holds(st, zoneConfigKey(n), v) => Holds(su, zoneConfigKey(n), v)
  BY <1>1, KeysDiffer DEF Touches
<1>7. \A n, k, ty, v : Holds(st, zoneLocationRRSetKey(n, k, ty), v)
                         => Holds(su, zoneLocationRRSetKey(n, k, ty), v)
  BY <1>1, KeysDiffer DEF Touches
<1>8. \A n, k, ty : zoneLocationRRSetKey(n, k, ty) \in DOMAIN su.kv
                      => zoneLocationRRSetKey(n, k, ty) \in DOMAIN st.kv
  BY <1>1, KeysDiffer DEF Touches
<1> HIDE DEF e, su, up
<1>9. ASSUME Covers(d, st) PROVE Covers(e, su)
  <2>1. ZonesCovered(e, su)
    BY <1>1, <1>2, <1>6, <1>9 DEF Covers, ZonesCovered
  <2>2. ASSUME NEW z \in d.zones, NEW l \in d.locations, l.zone = z.id, up(l).enabled
        PROVE  l.name \in su.labels[z.name]
    <3>1. CASE l.id = t.ids.loc
      BY <3>1, <2>2, <1>l, <1>3, <1>5, <1>k
    <3>2. CASE l.id # t.ids.loc
      <4>1. ~ (z.name = r.zone /\ l.name = r.label)
        BY <3>2, <2>2, <1>5, <1>k
      <4>2. l.name \in st.labels[z.name]
        BY <3>2, <2>2, <1>3, <1>9 DEF Covers, LabelsCovered
      <4> QED BY <4>1, <4>2, <1>l, <1>5
    <3> QED BY <3>1, <3>2
  <2>3. LabelsCovered(e, su)
    BY <2>2, <1>2, <1>3 DEF LabelsCovered
  <2>4. RecordsCovered(e, su)
    BY <1>2, <1>3, <1>7, <1>9 DEF Covers, RecordsCovered
  <2> QED BY <2>1, <2>3, <2>4 DEF Covers
<1>10. ASSUME Exact(d, st, G), r.label = Apex /\ ~ r.enabled => <<r.zone, r.label>> \in G
       PROVE  Exact(e, su, G)
  <2>1. ZonesExact(e, su)
    BY <1>1, <1>2, <1>10 DEF Exact, ZonesExact
  <2>2. ApexStays(e, G)
    <3> SUFFICES ASSUME NEW z \in d.zones, <<z.name, Apex>> \notin G
                 PROVE  \E l \in d.locations : l.zone = z.id /\ l.name = Apex /\ up(l).enabled
      BY <1>2, <1>3 DEF ApexStays
    <3>1. PICK l \in d.locations : l.zone = z.id /\ l.name = Apex /\ l.enabled
      BY <1>10 DEF Exact, ApexStays
    <3>2. CASE l.id # t.ids.loc
      BY <3>1, <3>2, <1>3
    <3>3. CASE l.id = t.ids.loc
      <4>1. r.label = Apex /\ up(l).enabled = r.enabled /\ z.name = r.zone
        BY <3>1, <3>3, <1>3, <1>5, <1>k
      <4>2. r.enabled
        BY <4>1, <1>10
      <4> QED BY <3>1, <4>1, <4>2
    <3> QED BY <3>2, <3>3
  <2>3. LabelsExact(e, su, G)
    <3> SUFFICES ASSUME NEW n \in Zones, NEW k \in su.labels[n]
                 PROVE  <<n, k>> \in G \/ \E z \in e.zones, l \in e.locations :
                           z.name = n /\ l.zone = z.id /\ l.name = k /\ l.enabled
      BY DEF LabelsExact
    <3> SUFFICES ASSUME <<n, k>> \notin G
                 PROVE  \E z \in d.zones, l \in d.locations :
                           z.name = n /\ l.zone = z.id /\ l.name = k /\ up(l).enabled
      BY <1>2, <1>3
    <3>1. CASE ~ (n = r.zone /\ k = r.label)
      <4>1. k \in st.labels[n]
        BY <3>1, <1>l
      <4>2. PICK z \in d.zones, l \in d.locations :
               z.name = n /\ l.zone = z.id /\ l.name = k /\ l.enabled
        BY <4>1, <1>10 DEF Exact, LabelsExact
      <4>3. l.id # t.ids.loc
        BY <3>1, <4>2, <1>5, <1>k
      <4> QED BY <4>2, <4>3, <1>3
    <3>2. CASE n = r.zone /\ k = r.label
      <4>1. r.enabled
        BY <3>2, <1>l
      <4>2. PICK z \in d.zones : z.id = t.ids.zone
        BY <1>z
      <4>3. PICK l \in d.locations : l.id = t.ids.loc
        BY <1>k
      <4>4. up(l).enabled = r.enabled /\ l.zone = z.id /\ l.name = k /\ z.name = n
        BY <3>2, <4>2, <4>3, <1>3, <1>5, <1>k
      <4> QED BY <4>1, <4>4
    <3> QED BY <3>1, <3>2
  <2>4. RecordsExact(e, su, G)
    <3> SUFFICES ASSUME NEW n \in Zones, NEW k \in Labels, NEW ty \in RTypes,
                        zoneLocationRRSetKey(n, k, ty) \in DOMAIN su.kv, <<n, k>> \notin G
                 PROVE  \E z \in d.zones, l \in d.locations, q \in d.records :
                           /\ z.name = n /\ l.zone = z.id /\ l.name = k
                           /\ q.loc = l.id /\ q.type = ty /\ q.enabled
      BY <1>2, <1>3 DEF RecordsExact
    <3> QED BY <1>8, <1>10 DEF Exact, RecordsExact
  <2> QED BY <2>1, <2>2, <2>3, <2>4 DEF Exact
<1> QED BY <1>9, <1>10 DEF e, su

(* Operations on record sets: only the key of the one record set changes,  *)
(* and it has the value of the row if that is enabled.                     *)
LEMMA MirrorRecords ==
    ASSUME NEW d, NEW t, Doable(d, t), StillThere(d, t),
           t.req.type \in {"add_record", "update_record", "delete_record"},
           NEW e, e.zones = d.zones, e.locations = d.locations,
           NEW G, NEW st, Store(st), NEW su, su.zones = st.zones, su.labels = st.labels,
           NEW rk, rk = zoneLocationRRSetKey(t.req.zone, t.req.label, t.req.rtype),
           Touches(st, su, {rk}),
           \A q \in d.records : (q.loc = t.ids.loc /\ q.type = t.req.rtype) \/ q \in e.records,
           \A q \in e.records : (q.loc = t.ids.loc /\ q.type = t.req.rtype) \/ q \in d.records,
           \A q \in e.records :
              q.loc = t.ids.loc /\ q.type = t.req.rtype /\ q.enabled => Holds(su, rk, q.value)
    PROVE  /\ Covers(d, st) => Covers(e, su)
           /\ Exact(d, st, G)
                /\ (rk \in DOMAIN su.kv /\ <<t.req.zone, t.req.label>> \notin G =>
                      \E q \in e.records : q.loc = t.ids.loc /\ q.type = t.req.rtype /\ q.enabled)
                => Exact(e, su, G)
<1> DEFINE r == t.req
<1>d. d \in Tables /\ r \in Request
  BY DEF Doable
<1>5. \A z \in d.zones : z.id = t.ids.zone <=> z.name = r.zone
  BY NamedZone DEF ZoneTypes
<1>z. \E z \in d.zones : z.id = t.ids.zone
  BY NamedZone DEF ZoneTypes
<1>k. /\ \A l \in d.locations : l.id = t.ids.loc <=> l.zone = t.ids.zone /\ l.name = r.label
      /\ \E l \in d.locations : l.id = t.ids.loc
  BY NamedLocation DEF LocationTypes
<1>1. ASSUME NEW z \in d.zones, NEW l \in d.locations, NEW ty, l.zone = z.id
      PROVE  zoneLocationRRSetKey(z.name, l.name, ty) = rk <=> l.id = t.ids.loc /\ ty = r.rtype
  BY <1>1, <1>5, <1>k, KeysDiffer
<1>2. ASSUME Covers(d, st) PROVE Covers(e, su)
  <2>1. \A n, v : Holds(st, zoneConfigKey(n), v) => Holds(su, zoneConfigKey(n), v)
    BY KeysDiffer DEF Touches
  <2>2. ZonesCovered(e, su)
    BY <2>1, <1>2 DEF Covers, ZonesCovered
  <2>3. LabelsCovered(e, su)
    BY <1>2 DEF Covers, LabelsCovered
  <2>4. ASSUME NEW z \in d.zones, NEW l \in d.locations, NEW q \in e.records,
               l.zone = z.id, q.loc = l.id, q.enabled
        PROVE  Holds(su, zoneLocationRRSetKey(z.name, l.name, q.type), q.value)
    <3>1. CASE l.id = t.ids.loc /\ q.type = r.rtype
      BY <3>1, <2>4, <1>1
    <3>2. CASE ~ (l.id = t.ids.loc /\ q.type = r.rtype)
      <4>1. q \in d.records /\ zoneLocationRRSetKey(z.name, l.name, q.type) \notin {rk}
        BY <3>2, <2>4, <1>1
      <4>2. Holds(st, zoneLocationRRSetKey(z.name, l.name, q.type), q.value)
        BY <4>1, <2>4, <1>2 DEF Covers, RecordsCovered
      <4> QED BY <4>1, <4>2 DEF Touches
    <3> QED BY <3>1, <3>2
  <2>5. RecordsCovered(e, su)
    BY <2>4 DEF RecordsCovered
  <2> QED BY <2>2, <2>3, <2>5 DEF Covers
<1>3. ASSUME Exact(d, st, G),
             rk \in DOMAIN su.kv /\ <<r.zone, r.label>> \notin G =>
                \E q \in e.records : q.loc = t.ids.loc /\ q.type = r.rtype /\ q.enabled
      PROVE  Exact(e, su, G)
  <2>1. ZonesExact(e, su) /\ LabelsExact(e, su, G) /\ ApexStays(e, G)
    BY <1>3 DEF Exact, ZonesExact, LabelsExact, ApexStays
  <2>2. RecordsExact(e, su, G)
    <3> SUFFICES ASSUME NEW n \in Zones, NEW k \in Labels, NEW ty \in RTypes,
                        zoneLocationRRSetKey(n, k, ty) \in DOMAIN su.kv, <<n, k>> \notin G
                 PROVE  \E z \in d.zones, l \in d.locations, q \in e.records :
                           /\ z.name = n /\ l.zone = z.id /\ l.name = k
                           /\ q.loc = l.id /\ q.type = ty /\ q.enabled
      BY DEF RecordsExact
    <3>1. CASE zoneLocationRRSetKey(n, k, ty) = rk
      <4>1. n = r.zone /\ k = r.label /\ ty = r.rtype
        BY <3>1, KeysDiffer
      <4>2. PICK q \in e.records : q.loc = t.ids.loc /\ q.type = r.rtype /\ q.enabled
        BY <3>1, <4>1, <1>3
      <4>3. PICK z \in d.zones : z.id = t.ids.zone
        BY <1>z
      <4>4. PICK l \in d.locations : l.id = t.ids.loc
        BY <1>k
      <4>5. z.name = n /\ l.zone = z.id /\ l.name = k
        BY <4>1, <4>3, <4>4, <1>5, <1>k
      <4> QED BY <4>1, <4>2, <4>4, <4>5
    <3>2. CASE zoneLocationRRSetKey(n, k, ty) # rk
      <4>1. zoneLocationRRSetKey(n, k, ty) \in DOMAIN st.kv
        BY <3>2 DEF Touches
      <4>2. PICK z \in d.zones, l \in d.locations, q \in d.records :
                           /\ z.name = n /\ l.zone = z.id /\ l.name = k
                           /\ q.loc = l.id /\ q.type = ty /\ q.enabled
        BY <4>1, <1>3 DEF Exact, RecordsExact
      <4>3. ~ (l.id = t.ids.loc /\ ty = r.rtype)
        BY <3>2, <4>2, <1>1
      <4>4. q \in e.records
        BY <4>2, <4>3
      <4> QED BY <4>2, <4>4
    <3> QED BY <3>1, <3>2
  <2> QED BY <2>1, <2>2 DEF Exact
<1> QED BY <1>2, <1>3

(* AddRecordSet inserts a row under a name that was free.                  *)
LEMMA MirrorAddRecord ==
    ASSUME NEW d, NEW t, Doable(d, t), StillThere(d, t), t.req.type = "add_record",
           NEW st, Store(st), NEW G
    PROVE  /\ Covers(d, st) => Covers(Effect(d, t), ApplyEvent(st, EventOf(t)))
           /\ Exact(d, st, G) => Exact(Effect(d, t), ApplyEvent(st, EventOf(t)), G)
<1> DEFINE r  == t.req
           rk == zoneLocationRRSetKey(r.zone, r.label, r.rtype)
           e  == Effect(d, t)
           ev == EventOf(t)
           su == ApplyEvent(st, ev)
           q0 == RecordRow(RecordId(t.rev, r.label, r.rtype), t.ids.loc, r.rtype, r.value, r.enabled)
<1>e. ev \in EventRow /\ ev.req = r /\ RecordKey(ev) = rk
  BY EventFields
<1>d. d \in Tables /\ r \in Request
  BY DEF Doable
<1>1. /\ su.zones = st.zones /\ su.labels = st.labels /\ Touches(st, su, {rk})
      /\ r.enabled => Holds(su, rk, r.value)
      /\ ~ r.enabled => su.kv = st.kv
  <2> HIDE DEF ev, rk
  <2> QED BY <1>e, StoreRecord
<1>2. e.zones = d.zones /\ e.locations = d.locations /\ e.records = d.records \cup {q0}
  BY <1>d DEF Effect, AddRecordSet, Tables
<1>3. q0.loc = t.ids.loc /\ q0.type = r.rtype /\ q0.value = r.value /\ q0.enabled = r.enabled
  BY DEF RecordRow
<1>4. \A q \in d.records : ~ (q.loc = t.ids.loc /\ q.type = r.rtype)
  BY DEF Doable, StatementFails, RecordsOf
<1>5. /\ \A z \in d.zones : z.id = t.ids.zone <=> z.name = r.zone
      /\ \A l \in d.locations : l.id = t.ids.loc <=> l.zone = t.ids.zone /\ l.name = r.label
  BY NamedZone, NamedLocation DEF ZoneTypes, LocationTypes
<1>6. r.zone \in Zones /\ r.label \in Labels /\ r.rtype \in RTypes
  BY <1>d, RequestFields
<1>7. Exact(d, st, G) /\ ~ r.enabled /\ <<r.zone, r.label>> \notin G => rk \notin DOMAIN su.kv
  <2> SUFFICES ASSUME Exact(d, st, G), ~ r.enabled, <<r.zone, r.label>> \notin G, rk \in DOMAIN st.kv PROVE FALSE
    BY <1>1
  <2>1. PICK z \in d.zones, l \in d.locations, q \in d.records :
           /\ z.name = r.zone /\ l.zone = z.id /\ l.name = r.label
           /\ q.loc = l.id /\ q.type = r.rtype /\ q.enabled
    BY <1>6 DEF Exact, RecordsExact
  <2> QED BY <2>1, <1>4, <1>5
<1> HIDE DEF e, su, q0, rk
<1>8. /\ \A q \in d.records : (q.loc = t.ids.loc /\ q.type = r.rtype) \/ q \in e.records
      /\ \A q \in e.records : (q.loc = t.ids.loc /\ q.type = r.rtype) \/ q \in d.records
      /\ \A q \in e.records :
            q.loc = t.ids.loc /\ q.type = r.rtype /\ q.enabled => Holds(su, rk, q.value)
  BY <1>1, <1>2, <1>3, <1>4
<1>9. Exact(d, st, G) /\ rk \in DOMAIN su.kv /\ <<r.zone, r.label>> \notin G =>
         \E q \in e.records : q.loc = t.ids.loc /\ q.type = r.rtype /\ q.enabled
  BY <1>2, <1>3, <1>7
<1>10. rk = zoneLocationRRSetKey(r.zone, r.label, r.rtype)
  BY DEF rk
<1>11. /\ Covers(d, st) => Covers(e, su)
       /\ Exact(d, st, G)
            /\ (rk \in DOMAIN su.kv /\ <<r.zone, r.label>> \notin G =>
                  \E q \in e.records : q.loc = t.ids.loc /\ q.type = r.rtype /\ q.enabled)
            => Exact(e, su, G)
  BY <1>1, <1>2, <1>8, <1>10, MirrorRecords
<1> QED BY <1>9, <1>11 DEF e, su

(* UpdateRecordSet changes one row, DeleteRecordSet takes it away.         *)
LEMMA MirrorChangeRecord ==
    ASSUME NEW d, NEW t, Doable(d, t), StillThere(d, t),
           t.req.type \in {"update_record", "delete_record"},
           NEW st, Store(st), NEW G
    PROVE  /\ Covers(d, st) => Covers(Effect(d, t), ApplyEvent(st, EventOf(t)))
           /\ Exact(d, st, G) => Exact(Effect(d, t), ApplyEvent(st, EventOf(t)), G)
<1> DEFINE r  == t.req
           rk == zoneLocationRRSetKey(r.zone, r.label, r.rtype)
           e  == Effect(d, t)
           ev == EventOf(t)
           su == ApplyEvent(st, ev)
           mine(q) == q.loc = t.ids.loc /\ q.type = r.rtype
<1>e. ev \in EventRow /\ ev.req = r /\ RecordKey(ev) = rk
  BY EventFields
<1>d. d \in Tables /\ r \in Request
  BY DEF Doable
<1>1. /\ su.zones = st.zones /\ su.labels = st.labels /\ Touches(st, su, {rk})
      /\ r.type = "update_record" /\ r.enabled => Holds(su, rk, r.value)
      /\ r.type = "update_record" /\ ~ r.enabled => rk \notin DOMAIN su.kv
      /\ r.type = "delete_record" => rk \notin DOMAIN su.kv
  <2> HIDE DEF ev, rk
  <2> QED BY <1>e, StoreRecord
<1>2. /\ \A q \in d.records : q.id = t.ids.rec <=> mine(q)
      /\ \E q \in d.records : q.id = t.ids.rec
  BY NamedRecord DEF RecordTypes
<1>k. /\ TablesOK(d) /\ t.ids.rec \in RecordIds
  BY DEF Doable, IdsFit, RecordFits, RecordTypes
<1> HIDE DEF su, rk
<1>3. CASE r.type = "update_record"
  <2> DEFINE up(q) == IF q.id = t.ids.rec
                        THEN [q EXCEPT !.value = r.value, !.enabled = r.enabled] ELSE q
  <2>1. e.zones = d.zones /\ e.locations = d.locations /\ e.records = {up(q) : q \in d.records}
    BY <1>3, <1>d DEF Effect, UpdateRecordSet, Tables
  <2>2. \A q \in d.records :
           /\ up(q).loc = q.loc /\ up(q).type = q.type
           /\ q.id = t.ids.rec => up(q).value = r.value /\ up(q).enabled = r.enabled
           /\ q.id # t.ids.rec => up(q) = q
    BY <1>d, RowFields DEF RecordRowType
  <2> HIDE DEF e, up
  <2>3. \A q \in d.records : mine(q) \/ q \in e.records
    BY <2>1, <2>2, <1>2
  <2>4. \A q \in e.records : mine(q) \/ q \in d.records
    BY <2>1, <2>2, <1>2
  <2>5. \A q \in e.records : mine(q) /\ q.enabled => Holds(su, rk, q.value)
    BY <2>1, <2>2, <1>1, <1>2, <1>3
  <2>6. rk \in DOMAIN su.kv => \E q \in e.records : mine(q) /\ q.enabled
    BY <2>1, <2>2, <1>1, <1>2, <1>3
  <2>7. rk = zoneLocationRRSetKey(r.zone, r.label, r.rtype)
    BY DEF rk
  <2>8. /\ Covers(d, st) => Covers(e, su)
        /\ Exact(d, st, G)
             /\ (rk \in DOMAIN su.kv /\ <<r.zone, r.label>> \notin G =>
                   \E q \in e.records : q.loc = t.ids.loc /\ q.type = r.rtype /\ q.enabled)
             => Exact(e, su, G)
    BY <1>1, <1>3, <2>1, <2>3, <2>4, <2>5, <2>7, MirrorRecords
  <2> QED BY <2>6, <2>8 DEF e, su
<1>4. CASE r.type = "delete_record"
  <2>z. /\ \A z \in d.zones : z.id # t.ids.rec
        /\ \A l \in d.locations : l.id # t.ids.rec
    BY <1>k, IdKinds DEF TablesOK, Kinds, Ids
  <2>p. /\ \A l \in d.locations : l.zone \in Ids(d.zones)
        /\ \A q \in d.records : q.loc \in Ids(d.locations)
    BY <1>k DEF TablesOK, Parents
  <2>1. /\ e.zones = {z \in d.zones : z.id \notin {t.ids.rec}}
        /\ e.locations = {l \in d.locations : l.id \notin {t.ids.rec} /\ l.zone \in Ids(e.zones)}
        /\ e.records = {q \in d.records : q.id \notin {t.ids.rec} /\ q.loc \in Ids(e.locations)}
    BY <1>4 DEF Effect, DeleteRecordSet, DeleteResources
  <2> HIDE DEF e
  <2>2. e.zones = d.zones
    BY <2>1, <2>z
  <2>3. e.locations = d.locations
    BY <2>1, <2>2, <2>z, <2>p
  <2>4. e.records = {q \in d.records : q.id # t.ids.rec}
    BY <2>1, <2>3, <2>p
  <2>5. /\ \A q \in d.records : mine(q) \/ q \in e.records
        /\ \A q \in e.records : q \in d.records /\ ~ mine(q)
    BY <2>4, <1>2
  <2>7. rk = zoneLocationRRSetKey(r.zone, r.label, r.rtype)
    BY DEF rk
  <2>8. /\ Covers(d, st) => Covers(e, su)
        /\ Exact(d, st, G)
             /\ (rk \in DOMAIN su.kv /\ <<r.zone, r.label>> \notin G =>
                   \E q \in e.records : q.loc = t.ids.loc /\ q.type = r.rtype /\ q.enabled)
             => Exact(e, su, G)
    BY <1>1, <1>4, <2>2, <2>3, <2>5, <2>7, MirrorRecords
  <2> QED BY <1>1, <1>4, <2>8 DEF e, su
<1> QED BY <1>3, <1>4

(* ImportZone replaces everything under the zone's row.                    *)
LEMMA MirrorImport ==
    ASSUME NEW d, NEW t, Doable(d, t), StillThere(d, t), t.req.type = "import_zone",
           NEW st, Store(st), Covers(d, st)
    PROVE  Covers(Effect(d, t), ApplyEvent(st, EventOf(t)))
<1> DEFINE r  == t.req
           K  == {zoneLocationRRSetKey(r.zone, x[1], x[2]) : x \in r.entries}
           wk == zoneLocationsWildcard(r.zone)
           e  == Effect(d, t)
           ev == EventOf(t)
           su == ApplyEvent(st, ev)
           c  == DeleteResources(d, Ids(LocationsOf(d, t.ids.zone)))
           lrow(x) == LocationRow(LocationId(t.rev, x[1]), t.ids.zone, x[1], TRUE)
           rrow(x) == RecordRow(RecordId(t.rev, x[1], x[2]), LocationId(t.rev, x[1]), x[2], x[3], TRUE)
           ls == {lrow(x) : x \in r.entries}
           rs == {rrow(x) : x \in r.entries}
<1>e. ev \in EventRow /\ ev.req = r
  BY EventFields
<1>d. d \in Tables /\ r \in Request
  BY DEF Doable
<1>1. /\ su.zones = st.zones
      /\ \A n \in Zones : \A k \in st.labels[n] : k \in su.labels[n]
      /\ \A x \in r.entries :
            /\ x[1] \in su.labels[r.zone]
            /\ Holds(su, zoneLocationRRSetKey(r.zone, x[1], x[2]), x[3])
      /\ Touches(st, su, {wk} \cup K)
  <2> HIDE DEF ev
  <2>1. ev.req.type = "import_zone" /\ ev.req.zone = r.zone /\ ev.req.entries = r.entries
    BY <1>e
  <2>2. /\ su.zones = st.zones
        /\ \A n \in Zones : \A k \in st.labels[n] : k \in su.labels[n]
    BY <1>e, <2>1, StoreImport
  <2>3. \A x \in r.entries :
           /\ x[1] \in su.labels[r.zone]
           /\ Holds(su, zoneLocationRRSetKey(r.zone, x[1], x[2]), x[3])
    BY <1>e, <2>1, StoreImport
  <2>4. Touches(st, su, {wk} \cup K)
    BY <1>e, <2>1, StoreImport
  <2> QED BY <2>2, <2>3, <2>4
<1>2. e = [c EXCEPT !.resources = @ \cup Ids(ls) \cup Ids(rs),
                    !.locations = @ \cup ls, !.records = @ \cup rs]
  BY DEF Effect, ImportZone
<1>3. /\ c = [resources |-> c.resources, zones |-> c.zones, locations |-> c.locations,
              records |-> c.records]
      /\ \A z \in c.zones : z \in d.zones
      /\ \A l \in c.locations : l \in d.locations /\ l.id \notin Ids(LocationsOf(d, t.ids.zone))
      /\ \A q \in c.records : q \in d.records
  BY DEF DeleteResources
<1>4. \A l \in c.locations : l.zone # t.ids.zone
  BY <1>3 DEF Ids, LocationsOf
<1>5. \A x : /\ lrow(x).id = LocationId(t.rev, x[1]) /\ lrow(x).zone = t.ids.zone
             /\ lrow(x).name = x[1]
             /\ rrow(x).loc = LocationId(t.rev, x[1]) /\ rrow(x).type = x[2]
             /\ rrow(x).value = x[3]
  BY DEF LocationRow, RecordRow
<1>6. \A z \in d.zones : z.name \in Zones /\ (z.id = t.ids.zone <=> z.name = r.zone)
  BY <1>d, NamedZone, RowNames DEF ZoneTypes
<1>7. \A k : DrawnFor(LocationId(t.rev, k)) = t.rev
  BY DEF DrawnFor, LocationId
<1>8. /\ \A l \in d.locations : \A k : l.id # LocationId(t.rev, k)
      /\ \A q \in d.records : \A k : q.loc # LocationId(t.rev, k)
  BY <1>7, OldIds
<1>9. \A n, v : Holds(st, zoneConfigKey(n), v) => Holds(su, zoneConfigKey(n), v)
  BY <1>1, KeysDiffer DEF Touches
<1>10. \A n, k, ty, v : n # r.zone /\ Holds(st, zoneLocationRRSetKey(n, k, ty), v)
                          => Holds(su, zoneLocationRRSetKey(n, k, ty), v)
  BY <1>1, KeysDiffer DEF Touches
<1> HIDE DEF c, ls, rs, su, K
<1>11. e.zones = c.zones /\ e.locations = c.locations \cup ls /\ e.records = c.records \cup rs
  BY <1>2, <1>3
<1> HIDE DEF e
<1>12. /\ \A l \in ls : \E x \in r.entries : l = lrow(x)
       /\ \A q \in rs : \E x \in r.entries : q = rrow(x)
  BY DEF ls, rs
<1> HIDE DEF lrow, rrow
<1>13. ZonesCovered(e, su)
  BY <1>1, <1>3, <1>9, <1>11 DEF Covers, ZonesCovered
<1>14. ASSUME NEW z \in e.zones, NEW l \in e.locations, l.zone = z.id
       PROVE  /\ z \in d.zones
              /\ \/ l \in c.locations /\ l \in d.locations /\ z.name # r.zone
                 \/ z.name = r.zone /\ \E x \in r.entries : l = lrow(x)
  BY <1>3, <1>4, <1>5, <1>6, <1>11, <1>12, <1>14
<1>15. LabelsCovered(e, su)
  <2> SUFFICES ASSUME NEW z \in e.zones, NEW l \in e.locations, l.zone = z.id, l.enabled
               PROVE  l.name \in su.labels[z.name]
    BY DEF LabelsCovered
  <2>1. CASE l \in d.locations /\ z \in d.zones
    BY <2>1, <1>1, <1>6 DEF Covers, LabelsCovered
  <2>2. CASE z.name = r.zone /\ \E x \in r.entries : l = lrow(x)
    <3>1. PICK x \in r.entries : l = lrow(x)
      BY <2>2
    <3>2. l.name = x[1]
      BY <3>1, <1>5
    <3> QED BY <2>2, <3>2, <1>1
  <2> QED BY <2>1, <2>2, <1>14
<1>16. RecordsCovered(e, su)
  <2> SUFFICES ASSUME NEW z \in e.zones, NEW l \in e.locations, NEW q \in e.records,
                      l.zone = z.id, q.loc = l.id, q.enabled
               PROVE  Holds(su, zoneLocationRRSetKey(z.name, l.name, q.type), q.value)
    BY DEF RecordsCovered
  <2>1. CASE z \in d.zones /\ l \in d.locations /\ z.name # r.zone
    <3>1. q \in d.records
      <4>1. ASSUME NEW x \in r.entries, q = rrow(x) PROVE FALSE
        <5>1. l.id = LocationId(t.rev, x[1])
          BY <4>1, <1>5
        <5> QED BY <5>1, <2>1, <1>8
      <4> QED BY <4>1, <1>3, <1>11, <1>12
    <3>2. Holds(st, zoneLocationRRSetKey(z.name, l.name, q.type), q.value)
      BY <2>1, <3>1 DEF Covers, RecordsCovered
    <3> QED BY <2>1, <3>2, <1>10
  <2>2. ASSUME z.name = r.zone, NEW x \in r.entries, l = lrow(x)
        PROVE  Holds(su, zoneLocationRRSetKey(z.name, l.name, q.type), q.value)
    <3>1. q.loc = LocationId(t.rev, x[1]) /\ l.name = x[1]
      BY <2>2, <1>5
    <3>2. q \in rs
      BY <3>1, <1>3, <1>8, <1>11
    <3>3. PICK y \in r.entries : q = rrow(y)
      BY <3>2, <1>12
    <3>4. LocationId(t.rev, y[1]) = LocationId(t.rev, x[1])
      BY <3>1, <3>3, <1>5
    <3>5. y[1] = x[1] /\ q.type = y[2] /\ q.value = y[3]
      BY <3>3, <3>4, <1>5, IdsOfLabels
    <3> QED BY <2>2, <3>1, <3>5, <1>1
  <2> QED BY <2>1, <2>2, <1>14
<1> QED BY <1>13, <1>15, <1>16 DEF Covers, e, su

(* Beyond the zone an import changes nothing, in either place.             *)
LEMMA ImportExact ==
    ASSUME NEW d, NEW t, Doable(d, t), StillThere(d, t), t.req.type = "import_zone",
           NEW st, Store(st), NEW G, \A k \in Labels : <<t.req.zone, k>> \in G,
           Exact(d, st, G)
    PROVE  Exact(Effect(d, t), ApplyEvent(st, EventOf(t)), G)
<1> DEFINE r   == t.req
           K   == {zoneLocationRRSetKey(r.zone, x[1], x[2]) : x \in r.entries}
           wk  == zoneLocationsWildcard(r.zone)
           e   == Effect(d, t)
           ev  == EventOf(t)
           su  == ApplyEvent(st, ev)
           ids == Ids(LocationsOf(d, t.ids.zone))
           c   == DeleteResources(d, ids)
           ls  == {LocationRow(LocationId(t.rev, x[1]), t.ids.zone, x[1], TRUE) : x \in r.entries}
           rs  == {RecordRow(RecordId(t.rev, x[1], x[2]), LocationId(t.rev, x[1]), x[2], x[3], TRUE)
                     : x \in r.entries}
<1>e. ev \in EventRow /\ ev.req = r
  BY EventFields
<1>s. Store(su) /\ d \in Tables /\ TablesOK(d) /\ r \in Request
  BY <1>e, ApplyEventType DEF Doable
<1>n. r.zone \in Zones /\ \A z \in d.zones : z.name \in Zones
  BY <1>s, RequestFields, RowNames
<1>1. /\ su.zones = st.zones
      /\ \A n \in Zones : n # r.zone => su.labels[n] = st.labels[n]
      /\ Touches(st, su, {wk} \cup K)
  <2> HIDE DEF ev
  <2> QED BY <1>e, StoreImport
<1>2. \A n, k, ty : n # r.zone /\ zoneLocationRRSetKey(n, k, ty) \in DOMAIN su.kv
                      => zoneLocationRRSetKey(n, k, ty) \in DOMAIN st.kv
  BY <1>1, KeysDiffer DEF Touches
<1>3. e = [c EXCEPT !.resources = @ \cup Ids(ls) \cup Ids(rs),
                    !.locations = @ \cup ls, !.records = @ \cup rs]
  BY DEF Effect, ImportZone
<1>4. c = [resources |-> c.resources, zones |-> c.zones, locations |-> c.locations,
           records |-> c.records]
  BY DEF DeleteResources
<1> HIDE DEF c, ls, rs, su
<1>5. /\ e.zones = c.zones /\ c.locations \subseteq e.locations /\ c.records \subseteq e.records
  BY <1>3, <1>4
<1> HIDE DEF e
<1>6. /\ c.zones = {z \in d.zones : z.id \notin ids}
      /\ \A l : l \in c.locations <=> l \in d.locations /\ l.id \notin ids /\ l.zone \in Ids(c.zones)
      /\ \A q : q \in c.records <=> q \in d.records /\ q.id \notin ids /\ q.loc \in Ids(c.locations)
  BY <1>s, DeleteKeeps DEF c
<1>7. Kinds(d) /\ PrimaryKeys(d)
  BY <1>s DEF TablesOK
<1>8. ids \subseteq LocationIds /\ \A l \in d.locations : l.id \in ids => l.zone = t.ids.zone
  BY <1>7 DEF Kinds, PrimaryKeys, Ids, LocationsOf
<1>9. /\ \A z \in d.zones : z.id \notin ids
      /\ \A q \in d.records : q.id \notin ids
  BY <1>7, <1>8, IdKinds DEF Kinds, Ids
<1>10. \A z \in d.zones : z.id = t.ids.zone <=> z.name = r.zone
  BY NamedZone DEF ZoneTypes
<1> HIDE DEF ids
<1>11. e.zones = d.zones /\ c.zones = d.zones
  BY <1>5, <1>6, <1>9
<1>12. ASSUME NEW z \in d.zones, NEW l \in d.locations, z.name # r.zone, l.zone = z.id
       PROVE  l \in c.locations
  BY <1>6, <1>8, <1>10, <1>11, <1>12 DEF Ids
<1>13. ASSUME NEW z \in d.zones, NEW l \in d.locations, NEW q \in d.records,
              z.name # r.zone, l.zone = z.id, q.loc = l.id
       PROVE  q \in c.records
  BY <1>6, <1>9, <1>12, <1>13 DEF Ids
<1>14. ZonesExact(e, su)
  BY <1>1, <1>11 DEF Exact, ZonesExact
<1>15. /\ \A z \in e.zones : z \in d.zones
       /\ \A z \in d.zones : z.name # r.zone => z \in e.zones
       /\ \A z \in d.zones, l \in d.locations :
             z.name # r.zone /\ l.zone = z.id => l \in e.locations
       /\ \A z \in d.zones, l \in d.locations, q \in d.records :
             z.name # r.zone /\ l.zone = z.id /\ q.loc = l.id => q \in e.records
  BY <1>5, <1>11, <1>12, <1>13
<1>16. Exact(e, su, G)
  BY <1>1, <1>2, <1>14, <1>15, <1>n, <1>s, ExactOutside
<1> QED BY <1>16 DEF e, su

(* More locations may be left than are.                                    *)
LEMMA ExactMore ==
    ASSUME NEW d, NEW st, NEW G, NEW F, G \subseteq F, Exact(d, st, G)
    PROVE  Exact(d, st, F)
<1>1. LabelsExact(d, st, F)
  BY DEF Exact, LabelsExact
<1>2. RecordsExact(d, st, F)
  BY DEF Exact, RecordsExact
<1>3. ApexStays(d, F)
  BY DEF Exact, ApexStays
<1> QED BY <1>1, <1>2, <1>3 DEF Exact

(* What the event of a request leaves is counted.                          *)
LEMMA EventLeaves ==
    ASSUME NEW E, NEW ev, ev.req \in Request
    PROVE  /\ LeftBy(E) \subseteq LeftBy(E \cup {ev})
           /\ ev.req.type \in {"delete_zone", "import_zone"} =>
                 \A k \in Labels : <<ev.req.zone, k>> \in LeftBy(E \cup {ev})
           /\ ev.req.type = "delete_location" =>
                 <<ev.req.zone, ev.req.label>> \in LeftBy(E \cup {ev})
           /\ ev.req.type = "update_location" /\ ev.req.label = Apex /\ ~ ev.req.enabled =>
                 <<ev.req.zone, ev.req.label>> \in LeftBy(E \cup {ev})
<1>1. ev.req.zone \in Zones
  BY RequestFields
<1>2. ev.req.type \in {"delete_location", "update_location"} => ev.req.label \in Labels
  BY RequestFields
<1>3. ASSUME NEW k \in Labels, LeavesKeys(ev, ev.req.zone, k)
      PROVE  <<ev.req.zone, k>> \in LeftBy(E \cup {ev})
  BY <1>1, <1>3 DEF LeftBy
<1>4. LeftBy(E) \subseteq LeftBy(E \cup {ev})
  BY DEF LeftBy
<1> QED BY <1>2, <1>3, <1>4 DEF LeavesKeys

(* Whatever the operation.                                                 *)
LEMMA MirrorStep ==
    ASSUME NEW d, NEW t, Doable(d, t), StillThere(d, t),
           t.req.type # "update_zone" => t.serial = InitialSerial,
           NEW st, NEW E, Mirrors(d, st, E)
    PROVE  Mirrors(Effect(d, t), ApplyEvent(st, EventOf(t)), E \cup {EventOf(t)})
<1> DEFINE e  == Effect(d, t)
           ev == EventOf(t)
           su == ApplyEvent(st, ev)
           G  == LeftBy(E \cup {ev})
<1>e. ev \in EventRow /\ ev.req = t.req
  BY EventFields
<1>3. t.req \in Request
  BY DEF Doable
<1>l. /\ LeftBy(E) \subseteq G
      /\ t.req.type \in {"delete_zone", "import_zone"} => \A k \in Labels : <<t.req.zone, k>> \in G
      /\ t.req.type = "delete_location" => <<t.req.zone, t.req.label>> \in G
      /\ t.req.type = "update_location" /\ t.req.label = Apex /\ ~ t.req.enabled =>
            <<t.req.zone, t.req.label>> \in G
  <2> HIDE DEF ev
  <2> QED BY <1>e, <1>3, EventLeaves
<1> HIDE DEF G
<1>1. Store(st) /\ Covers(d, st) /\ Exact(d, st, G)
  BY <1>l, ExactMore DEF Mirrors
<1>2. Store(su)
  BY <1>1, <1>e, ApplyEventType
<1> HIDE DEF e, su
<1>6. Covers(e, su) /\ Exact(e, su, G)
  <2>1. CASE t.req.type = "add_zone" BY <2>1, <1>1, MirrorAddZone DEF e, su
  <2>2. CASE t.req.type = "update_zone" BY <2>2, <1>1, MirrorUpdateZone DEF e, su
  <2>3. CASE t.req.type = "delete_zone" BY <2>3, <1>1, <1>l, MirrorDeleteZone DEF e, su
  <2>4. CASE t.req.type = "import_zone" BY <2>4, <1>1, <1>l, MirrorImport, ImportExact DEF e, su
  <2>5. CASE t.req.type = "add_location" BY <2>5, <1>1, MirrorAddLocation DEF e, su
  <2>6. CASE t.req.type = "update_location" BY <2>6, <1>1, <1>l, MirrorUpdateLocation DEF e, su
  <2>7. CASE t.req.type = "delete_location" BY <2>7, <1>1, <1>l, MirrorDeleteLocation DEF e, su
  <2>8. CASE t.req.type = "add_record" BY <2>8, <1>1, MirrorAddRecord DEF e, su
  <2>9. CASE t.req.type \in {"update_record", "delete_record"}
    BY <2>9, <1>1, MirrorChangeRecord DEF e, su
  <2> QED BY <2>1, <2>2, <2>3, <2>4, <2>5, <2>6, <2>7, <2>8, <2>9, <1>3, RequestFields
<1> QED BY <1>2, <1>6 DEF Mirrors, e, su, G

-----------------------------------------------------------------------------
(***************************************************************************)
(* The events that Redis has not seen.  While the updater is behind, the   *)
(* store mirrors the tables of an earlier time.  What holds throughout is  *)
(* that it would mirror the tables of now once the pending events were     *)
(* applied to it in order: there is a store for every pending event, the   *)
(* first got from Redis, each from the one before, and the last a mirror.  *)
(***************************************************************************)
Pending == {e \in events : e.rev > redis.rev}

IsFirst(e, P)    == \A f \in P : e.rev <= f.rev
IsLast(e, P)     == \A f \in P : f.rev <= e.rev
Follows(f, e, P) == e.rev < f.rev /\ \A g \in P : g.rev <= e.rev \/ f.rev <= g.rev

Replays(H, P, st) ==
    /\ \A e \in P : IsFirst(e, P) => H[e] = ApplyEvent(st, e)
    /\ \A e, f \in P : Follows(f, e, P) => H[f] = ApplyEvent(H[e], f)
Arrives(H, P, st, d, E) ==
    \/ P = {} /\ Mirrors(d, st, E)
    \/ \E p \in P : IsLast(p, P) /\ Mirrors(d, H[p], E)

WillMirror == \E H : Replays(H, Pending, redis) /\ Arrives(H, Pending, redis, db, events)

(* One more event at the end.                                              *)
LEMMA ReplayMore ==
    ASSUME NEW P, NEW n, n.rev \in Nat, \A e \in P : e.rev \in Nat /\ e.rev < n.rev,
           \A e, f \in P : e.rev = f.rev => e = f,
           NEW st, NEW d, NEW E, NEW H, Replays(H, P, st), Arrives(H, P, st, d, E),
           NEW dn, NEW F, \A su : Mirrors(d, su, E) => Mirrors(dn, ApplyEvent(su, n), F)
    PROVE  \E G : Replays(G, P \cup {n}, st) /\ Arrives(G, P \cup {n}, st, dn, F)
<1> DEFINE Q == P \cup {n}
<1>0. n \notin P
  OBVIOUS
<1>1. IsLast(n, Q)
  BY DEF IsLast
<1>2. CASE P = {} /\ Mirrors(d, st, E)
  <2> DEFINE G == [e \in Q |-> ApplyEvent(st, n)]
  <2>1. G[n] = ApplyEvent(st, n)
    OBVIOUS
  <2>2. Q = {n}
    BY <1>2
  <2> HIDE DEF G
  <2>3. Replays(G, Q, st)
    BY <2>1, <2>2 DEF Replays, Follows
  <2>4. Arrives(G, Q, st, dn, F)
    BY <1>1, <1>2, <2>1, <2>2 DEF Arrives
  <2> QED BY <2>3, <2>4
<1>3. ASSUME NEW p \in P, IsLast(p, P), Mirrors(d, H[p], E)
      PROVE  \E G : Replays(G, Q, st) /\ Arrives(G, Q, st, dn, F)
  <2> DEFINE G == [e \in Q |-> IF e = n THEN ApplyEvent(H[p], n) ELSE H[e]]
  <2>1. G[n] = ApplyEvent(H[p], n) /\ \A e \in P : G[e] = H[e]
    BY <1>0
  <2> HIDE DEF G
  <2>2. ASSUME NEW e \in Q, IsFirst(e, Q) PROVE G[e] = ApplyEvent(st, e)
    <3>1. e \in P /\ IsFirst(e, P)
      <4>1. e.rev <= p.rev
        BY <2>2 DEF IsFirst
      <4> QED BY <4>1, <2>2 DEF IsFirst
    <3> QED BY <3>1, <2>1 DEF Replays
  <2>3. ASSUME NEW e \in Q, NEW f \in Q, Follows(f, e, Q) PROVE G[f] = ApplyEvent(G[e], f)
    <3>1. e \in P
      BY <2>3 DEF Follows
    <3>2. CASE f \in P
      <4>1. Follows(f, e, P)
        BY <2>3 DEF Follows
      <4> QED BY <3>1, <3>2, <4>1, <2>1 DEF Replays
    <3>3. CASE f = n
      <4>1. p.rev <= e.rev /\ e.rev <= p.rev
        BY <2>3, <3>1, <3>3, <1>3 DEF Follows, IsLast
      <4>2. e.rev = p.rev
        BY <4>1, <3>1
      <4>3. H[e] = H[p]
        BY <4>2, <3>1, <1>3
      <4> QED BY <3>1, <3>3, <4>3, <2>1
    <3> QED BY <3>2, <3>3
  <2>4. Replays(G, Q, st)
    BY <2>2, <2>3 DEF Replays
  <2>5. Arrives(G, Q, st, dn, F)
    BY <1>1, <1>3, <2>1 DEF Arrives
  <2> QED BY <2>4, <2>5
<1> QED BY <1>2, <1>3 DEF Arrives

(* The first event applied.                                                *)
LEMMA ReplayLess ==
    ASSUME NEW P, NEW e \in P, \A f \in P : f.rev \in Nat,
           \A f, g \in P : f.rev = g.rev => f = g, IsFirst(e, P),
           NEW st, NEW d, NEW E, NEW H, Replays(H, P, st), Arrives(H, P, st, d, E)
    PROVE  LET su == ApplyEvent(st, e)
               Q  == P \ {e}
           IN  Replays(H, Q, su) /\ Arrives(H, Q, su, d, E)
<1> DEFINE su == ApplyEvent(st, e)
           Q  == P \ {e}
<1>1. H[e] = su
  BY DEF Replays
<1>2. \A f \in Q : e.rev < f.rev
  BY DEF IsFirst
<1> HIDE DEF su
<1>3. ASSUME NEW f \in Q, IsFirst(f, Q) PROVE H[f] = ApplyEvent(su, f)
  <2>1. Follows(f, e, P)
    BY <1>2, <1>3 DEF Follows, IsFirst
  <2> QED BY <2>1, <1>1 DEF Replays
<1>4. ASSUME NEW f \in Q, NEW g \in Q, Follows(g, f, Q) PROVE H[g] = ApplyEvent(H[f], g)
  <2>1. e.rev <= f.rev
    BY DEF IsFirst
  <2>2. Follows(g, f, P)
    BY <2>1, <1>4 DEF Follows
  <2> QED BY <2>2 DEF Replays
<1>5. Replays(H, Q, su)
  BY <1>3, <1>4 DEF Replays
<1>6. PICK p \in P : IsLast(p, P) /\ Mirrors(d, H[p], E)
  BY DEF Arrives
<1>7. CASE p = e
  <2>1. Q = {}
    BY <1>2, <1>6, <1>7 DEF IsLast
  <2> QED BY <2>1, <1>1, <1>5, <1>6, <1>7 DEF Arrives, su
<1>8. CASE p # e
  <2>1. p \in Q /\ IsLast(p, Q)
    BY <1>6, <1>8 DEF IsLast
  <2>2. Arrives(H, Q, su, d, E)
    BY <2>1, <1>6 DEF Arrives
  <2> QED BY <1>5, <2>2 DEF su
<1> QED BY <1>7, <1>8

(* An empty store mirrors empty tables.                                    *)
LEMMA WillMirrorInit == Init => WillMirror
<1> SUFFICES ASSUME Init PROVE WillMirror
  OBVIOUS
<1>1. /\ Pending = {} /\ redis = EmptyStore /\ db = EmptyTables
  BY DEF Init, ApiInit, UpdaterInit, Pending
<1>2. Store(EmptyStore)
  BY DEF Store, EmptyStore
<1>3. Covers(EmptyTables, EmptyStore)
  BY DEF Covers, ZonesCovered, LabelsCovered, RecordsCovered, EmptyTables
<1>4. Exact(EmptyTables, EmptyStore, LeftBy(events))
  BY DEF Exact, ZonesExact, LabelsExact, RecordsExact, ApexStays, EmptyTables, EmptyStore
<1>5. Mirrors(db, redis, events)
  BY <1>1, <1>2, <1>3, <1>4 DEF Mirrors
<1>6. Replays(<< >>, Pending, redis) /\ Arrives(<< >>, Pending, redis, db, events)
  BY <1>1, <1>5 DEF Replays, Arrives
<1> QED BY <1>6 DEF WillMirror

(* The step of the API that matters is a commit.                           *)
LEMMA ApiKeepsMirror ==
    ASSUME Inv, TablesInv, NobodyMisses, RequestKept, CommitsInOrder, WillMirror,
           ApiNext, UNCHANGED updaterVars
    PROVE  WillMirror'
<1>u. redis' = redis
  BY DEF updaterVars
<1>r. \A e \in events : e.rev \in Nat /\ e.rev \in 1..MaxRevision
  BY RevisionFacts
<1>1. CASE \E c \in Clients : Commit(c)
  <2>1. PICK c \in Clients : Commit(c)
    BY <1>1
  <2> DEFINE t == api[c]
             n == EventOf(t)
  <2>2. /\ t.pc = "open" /\ db' = Effect(db, t) /\ events' = events \cup {n}
    BY <2>1 DEF Commit
  <2>3. Doable(db, t)
    BY <2>1, CommitStep
  <2>4. StillThere(db, t)
    BY <2>2, <2>3, NotMissed DEF NobodyMisses
  <2>5. t.req.type # "update_zone" => t.serial = InitialSerial
    BY <2>2 DEF RequestKept
  <2>6. n.rev = t.rev /\ t.rev \in 1..MaxRevision
    BY <2>3, EventFields DEF Doable
  <2> HIDE DEF n
  <2>7. \A e \in events : e.rev < n.rev
    BY <2>2, <2>6 DEF CommitsInOrder
  <2>8. n.rev > redis.rev /\ n.rev \in Nat
    BY <2>6, <2>7, <1>r, RevisionFacts
  <2>9. Pending' = Pending \cup {n}
    BY <2>2, <2>8, <1>u DEF Pending
  <2>10. \A su : Mirrors(db, su, events) => Mirrors(db', ApplyEvent(su, n), events')
    BY <2>2, <2>3, <2>4, <2>5, MirrorStep DEF n
  <2>11. PICK H : Replays(H, Pending, redis) /\ Arrives(H, Pending, redis, db, events)
    BY DEF WillMirror
  <2>12. /\ \A e \in Pending : e.rev \in Nat /\ e.rev < n.rev
         /\ \A e, f \in Pending : e.rev = f.rev => e = f
    BY <2>7, <1>r DEF Pending, Inv, ApiInv, EventRevisions
  <2>13. \E G : Replays(G, Pending \cup {n}, redis) /\ Arrives(G, Pending \cup {n}, redis, db', events')
    BY <2>8, <2>10, <2>11, <2>12, ReplayMore
  <2>14. \E G : Replays(G, Pending', redis') /\ Arrives(G, Pending', redis', db', events')
    BY <2>9, <2>13, <1>u
  <2> QED BY <2>14 DEF WillMirror
<1>2. CASE ~ \E c \in Clients : Commit(c)
  <2>1. events' = events /\ db' = db
    BY <1>2 DEF ApiNext, ReadZone, LookUp, LookUpFails, Exec, ExecFails, Rollback
  <2>2. Pending' = Pending
    BY <2>1, <1>u DEF Pending
  <2> QED BY <2>1, <2>2, <1>u DEF WillMirror
<1> QED BY <1>1, <1>2

(* The step of the updater that matters takes the first pending event.     *)
LEMMA UpdaterKeepsMirror ==
    ASSUME Inv, Gapless, WillMirror, UpdaterNext, UNCHANGED apiVars
    PROVE  WillMirror'
<1>a. events' = events /\ db' = db
  BY DEF apiVars
<1>r. /\ \A e \in events : e.rev \in Nat /\ e.rev \in 1..MaxRevision
      /\ redis.rev \in Nat
  BY RevisionFacts
<1>1. CASE Apply
  <2>1. PICK e \in updater.batch :
              /\ e \in events /\ IsNext(e)
              /\ redis' = ApplyEvent(redis, e)
              /\ redis'.rev = e.rev /\ e.rev > redis.rev
              /\ updater.pc = "apply"
    BY <1>1, ApplyStep
  <2>2. \A g \in events : g.rev < e.rev => g.rev <= redis.rev
    BY <2>1, ApplyIsNext DEF Inv, RevisionIsApplied
  <2>3. e \in Pending /\ IsFirst(e, Pending)
    BY <2>1, <2>2, <1>r DEF Pending, IsFirst
  <2>4. /\ \A f \in Pending : f.rev \in Nat
        /\ \A f, g \in Pending : f.rev = g.rev => f = g
    BY <1>r DEF Pending, Inv, ApiInv, EventRevisions
  <2>5. Pending' = Pending \ {e}
    <3>1. \A f \in events : f.rev > e.rev <=> f.rev > redis.rev /\ f # e
      BY <2>1, <2>2, <1>r DEF Inv, ApiInv, EventRevisions
    <3> QED BY <3>1, <2>1, <1>a DEF Pending
  <2>6. PICK H : Replays(H, Pending, redis) /\ Arrives(H, Pending, redis, db, events)
    BY DEF WillMirror
  <2>7. /\ Replays(H, Pending \ {e}, ApplyEvent(redis, e))
        /\ Arrives(H, Pending \ {e}, ApplyEvent(redis, e), db, events)
    BY <2>3, <2>4, <2>6, ReplayLess
  <2>8. Replays(H, Pending', redis') /\ Arrives(H, Pending', redis', db', events')
    BY <2>1, <2>5, <2>7, <1>a
  <2> QED BY <2>8 DEF WillMirror
<1>2. CASE GetRevision \/ GetEvents \/ ApplyFatal \/ Sleep \/ Crash \/ Restart
  <2>1. redis' = redis
    BY <1>2 DEF GetRevision, GetEvents, ApplyFatal, Sleep, Crash, Restart
  <2>2. Pending' = Pending
    BY <2>1, <1>a DEF Pending
  <2> QED BY <2>1, <2>2, <1>a DEF WillMirror
<1> QED BY <1>1, <1>2 DEF UpdaterNext

(* Redis, once it has applied what is pending, mirrors the tables: with    *)
(* any number of clients, as long as transactions commit in the order of   *)
(* their revisions and none has missed its row.                            *)
LEMMA InOrderMirror == Spec /\ []CommitsInOrder /\ []NobodyMisses => [](Inv /\ WillMirror)
<1>1. Init => RequestKept /\ Gapless /\ WillMirror
  BY RequestKeptInit, GaplessInit, WillMirrorInit DEF Init
<1>2. Inv /\ CommitsInOrder /\ Gapless /\ [Next]_vars => Gapless'
  <2>1. ASSUME Gapless, UNCHANGED vars PROVE Gapless'
    BY <2>1 DEF vars, Gapless, BatchIsPrefix, NothingSkipped
  <2> QED BY <2>1, ApiKeepsGapless, UpdaterKeepsGapless DEF Next
<1>3. Inv /\ RequestKept /\ [Next]_vars => RequestKept'
  <2>1. [Next]_vars => [ApiNext]_apiVars
    BY DEF Next, vars, apiVars
  <2> QED BY <2>1, RequestKeptNext DEF Inv
<1>4. Inv /\ TablesInv /\ NobodyMisses /\ RequestKept /\ CommitsInOrder /\ Gapless
        /\ WillMirror /\ [Next]_vars => WillMirror'
  <2>1. ASSUME WillMirror, UNCHANGED vars PROVE WillMirror'
    <3>1. events' = events /\ db' = db /\ redis' = redis
      BY <2>1 DEF vars
    <3>2. Pending' = Pending
      BY <3>1 DEF Pending
    <3> QED BY <2>1, <3>1, <3>2 DEF WillMirror
  <2> QED BY <2>1, ApiKeepsMirror, UpdaterKeepsMirror DEF Next
<1> QED BY <1>1, <1>2, <1>3, <1>4, Invariance, TablesInvariance,
           PipelineKeepsApi, PTL DEF Spec

(* Caught up means nothing is pending: Redis is the mirror.                *)
LEMMA MirrorNow ==
    ASSUME Inv, WillMirror, CaughtUp
    PROVE  Mirrors(db, redis, events)
<1>1. Pending = {}
  BY RevisionFacts DEF CaughtUp, Pending
<1> QED BY <1>1 DEF WillMirror, Arrives

(* What a mirror serves.                                                   *)
LEMMA MirrorServes ==
    ASSUME NEW d \in Tables, NEW st, Covers(d, st)
    PROVE  Published(d) \subseteq Served(st) /\ PublishedConfigs(d) \subseteq ServedConfigs(st)
<1>1. ASSUME NEW x \in Published(d) PROVE x \in Served(st)
  <2>1. PICK z \in d.zones, l \in d.locations, r \in d.records :
           /\ z.enabled /\ l.enabled /\ r.enabled
           /\ l.zone = z.id /\ r.loc = l.id
           /\ x = <<z.name, l.name, r.type, r.value>>
    BY DEF Published
  <2>2. x \in Zones \X Labels \X RTypes \X Values
    BY DEF Published
  <2>3. x[1] = z.name /\ x[2] = l.name /\ x[3] = r.type /\ x[4] = r.value
    BY <2>1
  <2>4. /\ z.name \in st.zones /\ l.name \in st.labels[z.name]
        /\ Holds(st, zoneLocationRRSetKey(z.name, l.name, r.type), r.value)
    BY <2>1 DEF Covers, ZonesCovered, LabelsCovered, RecordsCovered
  <2> QED BY <2>2, <2>3, <2>4 DEF Served, Holds
<1>2. ASSUME NEW z \in d.zones, z.enabled
      PROVE  <<z.name, [id |-> z.id, serial |-> z.serial]>> \in ServedConfigs(st)
  <2>1. z.name \in st.zones /\ Holds(st, zoneConfigKey(z.name), [id |-> z.id, serial |-> z.serial])
    BY <1>2 DEF Covers, ZonesCovered
  <2> QED BY <2>1 DEF ServedConfigs, Holds
<1>3. PublishedConfigs(d) \subseteq ServedConfigs(st)
  BY <1>2 DEF PublishedConfigs
<1> QED BY <1>1, <1>3

(* What an exact mirror does not serve.                                    *)
LEMMA MirrorServesOnly ==
    ASSUME NEW d \in Tables, TablesOK(d), NEW st, NEW G, Covers(d, st), Exact(d, st, G)
    PROVE  /\ \A x \in Served(st) : x \in Published(d) \/ <<x[1], x[2]>> \in G
           /\ ServedConfigs(st) \subseteq PublishedConfigs(d)
<1>1. ASSUME NEW x \in Served(st), <<x[1], x[2]>> \notin G PROVE x \in Published(d)
  <2> DEFINE key == zoneLocationRRSetKey(x[1], x[2], x[3])
  <2>1. /\ x \in Zones \X Labels \X RTypes \X Values
        /\ x[1] \in st.zones /\ x[2] \in st.labels[x[1]] /\ Holds(st, key, x[4])
    BY DEF Served, Holds
  <2>2. x = <<x[1], x[2], x[3], x[4]>> /\ x[1] \in Zones /\ x[2] \in Labels /\ x[3] \in RTypes
    BY <2>1
  <2>3. PICK z \in d.zones : z.name = x[1] /\ z.enabled
    BY <2>1 DEF Exact, ZonesExact
  <2>4. PICK y \in d.zones, l \in d.locations :
           y.name = x[1] /\ l.zone = y.id /\ l.name = x[2] /\ l.enabled
    BY <2>1, <2>2, <1>1 DEF Exact, LabelsExact
  <2>5. PICK v \in d.zones, k \in d.locations, r \in d.records :
           /\ v.name = x[1] /\ k.zone = v.id /\ k.name = x[2]
           /\ r.loc = k.id /\ r.type = x[3] /\ r.enabled
    BY <2>1, <2>2, <1>1 DEF Exact, RecordsExact, Holds
  <2>6. y = z /\ v = z /\ k = l
    BY <2>3, <2>4, <2>5 DEF TablesOK, ZoneKeys, LocationKeys
  <2>7. Holds(st, key, r.value)
    BY <2>5 DEF Covers, RecordsCovered
  <2>8. r.value = x[4]
    BY <2>1, <2>7 DEF Holds
  <2> QED BY <2>1, <2>2, <2>3, <2>4, <2>5, <2>6, <2>8 DEF Published
<1>2. ASSUME NEW n \in st.zones
      PROVE  <<n, st.kv[zoneConfigKey(n)]>> \in PublishedConfigs(d)
  <2>1. PICK z \in d.zones : z.name = n /\ z.enabled
    BY DEF Exact, ZonesExact
  <2>2. st.kv[zoneConfigKey(n)] = [id |-> z.id, serial |-> z.serial]
    BY <2>1 DEF Covers, ZonesCovered, Holds
  <2> QED BY <2>1, <2>2 DEF PublishedConfigs
<1>3. ServedConfigs(st) \subseteq PublishedConfigs(d)
  BY <1>2 DEF ServedConfigs
<1> QED BY <1>1, <1>3

(* For any number of clients: once the updater has caught up, every record *)
(* set and configuration the API publishes is served from Redis with its   *)
(* latest value, whichever of the ten operations were used, whatever the   *)
(* batch size and wherever the updater crashed, if transactions commit in  *)
(* the order of their revisions and none has missed its row.               *)
THEOREM InOrderNothingMissing == Spec /\ []CommitsInOrder /\ []NobodyMisses => []NothingMissing
<1>1. Inv /\ WillMirror => NothingMissing
  <2> SUFFICES ASSUME Inv, WillMirror, CaughtUp
               PROVE  /\ Published(db) \subseteq Served(redis)
                      /\ PublishedConfigs(db) \subseteq ServedConfigs(redis)
    BY DEF NothingMissing
  <2>1. Covers(db, redis) /\ db \in Tables
    BY MirrorNow DEF Mirrors, Inv, ApiInv, ApiTypeOK
  <2> QED BY <2>1, MirrorServes
<1> QED BY <1>1, InOrderMirror, PTL

(* Under the same conditions Redis, once caught up, serves no record set   *)
(* that is not published, except under the names of locations that were    *)
(* deleted, on their own or with their zone, imported over, or disabled at *)
(* the apex; and it never serves a configuration that is not published.    *)
THEOREM InOrderNothingStale == Spec /\ []CommitsInOrder /\ []NobodyMisses => []NothingStale
<1>1. Inv /\ TablesInv /\ WillMirror => NothingStale
  <2> SUFFICES ASSUME Inv, TablesInv, WillMirror, CaughtUp
               PROVE  /\ ServedConfigs(redis) \subseteq PublishedConfigs(db)
                      /\ \A x \in Served(redis) \ Published(db) :
                            \E e \in events : LeavesKeys(e, x[1], x[2])
    BY DEF NothingStale
  <2>1. /\ Covers(db, redis) /\ Exact(db, redis, LeftBy(events))
        /\ db \in Tables /\ TablesOK(db)
    BY MirrorNow DEF Mirrors, Inv, ApiInv, ApiTypeOK, TablesInv
  <2>2. /\ \A x \in Served(redis) : x \in Published(db) \/ <<x[1], x[2]>> \in LeftBy(events)
        /\ ServedConfigs(redis) \subseteq PublishedConfigs(db)
    BY <2>1, MirrorServesOnly
  <2>3. ASSUME NEW n, NEW k, <<n, k>> \in LeftBy(events)
        PROVE  \E e \in events : LeavesKeys(e, n, k)
    BY <2>3 DEF LeftBy
  <2> QED BY <2>2, <2>3
<1> QED BY <1>1, InOrderMirror, TablesInvariance, PipelineKeepsApi, PTL

(* Served one at a time, requests meet both conditions.                    *)
THEOREM SerialMirror ==
    ASSUME OneAtATime
    PROVE  Spec => []NothingMissing /\ []NothingStale
BY SerialCommits, SerialMisses, PipelineKeepsApi, InOrderNothingMissing, InOrderNothingStale, PTL
=============================================================================

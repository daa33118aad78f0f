---------------------------- MODULE ApiDatabase ----------------------------
(***************************************************************************)
(* The write path of the REST API: internal/api/handlers/zone and          *)
(* internal/api/database over MySQL (scripts/schema-final.sql).            *)
(*                                                                         *)
(* Every operation has the same shape.  It resolves names to ids and       *)
(* checks the owner with queries of their own (Lookup), then runs its      *)
(* statements in one transaction whose last statement inserts the row in   *)
(* Events (Exec), then commits or rolls back.  PUT /zones/:zone_name reads *)
(* the zone before all that to compute the next SOA serial (ReadZone).     *)
(* Requests of different clients interleave between these steps.           *)
(*                                                                         *)
(* MySQL is external and modelled by what the code relies on: InnoDB row   *)
(* locks held to the end of a transaction, unique and foreign keys with    *)
(* cascading deletes, and an AUTO_INCREMENT counter that is advanced when  *)
(* the row is inserted, not when the transaction commits, and is never     *)
(* given back.                                                             *)
(***************************************************************************)
EXTENDS ZoneEvents

CONSTANTS
    Clients,        \* requests the API server may be serving at once
    MaxRevision,    \* bound on the AUTO_INCREMENT counter
    NoId            \* the empty object id

ASSUME ApiAssumption == MaxRevision \in Nat

VARIABLES
    db,             \* the tables Resource, Zone (with UserZone and SOA),
                    \* Location and RecordSet
    nextRevision,   \* AUTO_INCREMENT of Events
    api             \* per client, the request being served

apiVars == <<events, db, nextRevision, api>>

-----------------------------------------------------------------------------
(* Rows.  NewObjectId draws a fresh UUID; here an id is made of the        *)
(* revision of the event that creates the row, which no other row shares.  *)

ZoneId(rev)           == <<rev>>
LocationId(rev, l)    == <<rev, l>>
RecordId(rev, l, t)   == <<rev, l, t>>

ZoneRow(id, name, owner, enabled, serial) ==
    [id |-> id, name |-> name, owner |-> owner, enabled |-> enabled,
     serial |-> serial]
LocationRow(id, zone, name, enabled) ==
    [id |-> id, zone |-> zone, name |-> name, enabled |-> enabled]
RecordRow(id, loc, type, value, enabled) ==
    [id |-> id, loc |-> loc, type |-> type, value |-> value, enabled |-> enabled]

EmptyTables == [resources |-> {}, zones |-> {}, locations |-> {}, records |-> {}]

InitialSerial == 0      \* DefaultSOA: the date of creation followed by 00

ZoneRows(d, id)     == {z \in d.zones : z.id = id}
LocationRows(d, id) == {l \in d.locations : l.id = id}
RecordRows(d, id)   == {r \in d.records : r.id = id}
LocationsOf(d, zid) == {l \in d.locations : l.zone = zid}
RecordsOf(d, lids)  == {r \in d.records : r.loc \in lids}
Ids(rows)           == {x.id : x \in rows}

(* DELETE FROM Resource: foreign keys cascade from a resource to its row   *)
(* and from a row to the rows that refer to it.  Resources are not deleted *)
(* with the rows that a cascade reaches.                                   *)
DeleteResources(d, ids) ==
    LET zs == {z \in d.zones : z.id \notin ids}
        ls == {l \in d.locations : l.id \notin ids /\ l.zone \in Ids(zs)}
        rs == {r \in d.records : r.id \notin ids /\ r.loc \in Ids(ls)}
    IN  [resources |-> d.resources \ ids,
         zones |-> zs, locations |-> ls, records |-> rs]

-----------------------------------------------------------------------------
(* The lookups that precede a transaction: getZoneId, getLocationId and    *)
(* getRecordId with isAuthorized, and zoneExists for AddZone.  The result  *)
(* is the set of id triples found: none, when the call returns an error.   *)

NoIds == [zone |-> NoId, loc |-> NoId, rec |-> NoId]

(* Mutant: isAuthorized is not called.                                     *)
AnyZones(d, r) == {z \in d.zones : z.name = r.zone}

OwnZones(d, r) == {z \in d.zones : z.name = r.zone /\ z.owner = r.user}

ZoneLookup(d, r) == {[NoIds EXCEPT !.zone = z.id] : z \in OwnZones(d, r)}

LocationLookup(d, r) ==
    {[NoIds EXCEPT !.zone = l.zone, !.loc = l.id] :
        l \in {x \in d.locations : /\ x.zone \in Ids(OwnZones(d, r))
                                   /\ x.name = r.label}}

RecordLookup(d, r) ==
    UNION {{[i EXCEPT !.rec = x.id] :
              x \in {y \in d.records : y.loc = i.loc /\ y.type = r.rtype}} :
           i \in LocationLookup(d, r)}

Lookup(d, r) ==
    CASE r.type = "add_zone" ->
           IF \E z \in d.zones : z.name = r.zone THEN {} ELSE {NoIds}
      [] r.type \in {"update_zone", "delete_zone", "import_zone", "add_location"} ->
           ZoneLookup(d, r)
      [] r.type \in {"update_location", "delete_location", "add_record"} ->
           LocationLookup(d, r)
      [] r.type \in {"update_record", "delete_record"} ->
           RecordLookup(d, r)

-----------------------------------------------------------------------------
(* InnoDB locks of an operation's statements, by the unique key of the     *)
(* row.  A statement on an id that no longer exists locks nothing.  An     *)
(* insert locks the parent row in shared mode for the foreign key.         *)

ZoneLock(z)     == <<"zone", z.name>>
LocationLock(l) == <<"location", l.zone, l.name>>
RecordLock(r)   == <<"record", r.loc, r.type>>
RangeLock(zid)  == <<"locations of", zid>>

TreeLocks(d, ls) ==
    {LocationLock(l) : l \in ls} \cup {RecordLock(r) : r \in RecordsOf(d, Ids(ls))}

ExclusiveLocks(d, r, ids) ==
    CASE r.type = "add_zone"        -> {<<"zone", r.zone>>}
      [] r.type = "update_zone"     -> {ZoneLock(z) : z \in ZoneRows(d, ids.zone)}
      [] r.type = "delete_zone"     -> {ZoneLock(z) : z \in ZoneRows(d, ids.zone)}
                                         \cup TreeLocks(d, LocationsOf(d, ids.zone))
      [] r.type = "import_zone"     -> {RangeLock(ids.zone)}
                                         \cup TreeLocks(d, LocationsOf(d, ids.zone))
      [] r.type = "add_location"    -> {<<"location", ids.zone, r.label>>}
      [] r.type = "update_location" -> {LocationLock(l) : l \in LocationRows(d, ids.loc)}
      [] r.type = "delete_location" -> TreeLocks(d, LocationRows(d, ids.loc))
      [] r.type = "add_record"      -> {<<"record", ids.loc, r.rtype>>}
      [] r.type \in {"update_record", "delete_record"} ->
           {RecordLock(x) : x \in RecordRows(d, ids.rec)}

(* Mutant: an insert does not hold on to its parent row.                   *)
NoSharedLocks(d, r, ids) == {}

SharedLocks(d, r, ids) ==
    CASE r.type = "add_location" -> {ZoneLock(z) : z \in ZoneRows(d, ids.zone)}
                                      \cup {RangeLock(ids.zone)}
      [] r.type = "import_zone"  -> {ZoneLock(z) : z \in ZoneRows(d, ids.zone)}
      [] r.type = "add_record"   -> {LocationLock(l) : l \in LocationRows(d, ids.loc)}
      [] OTHER                   -> {}

(* A duplicate key (1062) or a missing parent row (1452).                  *)
StatementFails(d, r, ids) ==
    CASE r.type = "add_zone" -> \E z \in d.zones : z.name = r.zone
      [] r.type \in {"update_zone", "import_zone"} -> ZoneRows(d, ids.zone) = {}
      [] r.type = "add_location" ->
           \/ ZoneRows(d, ids.zone) = {}
           \/ \E l \in LocationsOf(d, ids.zone) : l.name = r.label
      [] r.type = "add_record" ->
           \/ LocationRows(d, ids.loc) = {}
           \/ \E x \in RecordsOf(d, {ids.loc}) : x.type = r.rtype
      [] OTHER -> FALSE

-----------------------------------------------------------------------------
(* What the statements of an operation do to the tables.  A tx has the     *)
(* request, the ids found, the revision of its event and the serial read.  *)

AddZone(d, t) ==
    LET zid == ZoneId(t.rev)
        lid == LocationId(t.rev, Apex)
        nid == RecordId(t.rev, Apex, NS)
        r   == t.req
    IN  [resources |-> d.resources \cup {zid, lid, nid},
         zones     |-> d.zones \cup
                         {ZoneRow(zid, r.zone, r.user, r.enabled, InitialSerial)},
         locations |-> d.locations \cup {LocationRow(lid, zid, Apex, TRUE)},
         records   |-> d.records \cup {RecordRow(nid, lid, NS, NSValue, TRUE)}]

(* Mutant: the UPDATE leaves the column Enabled out.                       *)
UpdateZoneSOAOnly(d, t) ==
    [d EXCEPT !.zones =
        {IF z.id = t.ids.zone THEN [z EXCEPT !.serial = t.serial] ELSE z : z \in d.zones}]

UpdateZone(d, t) ==
    [d EXCEPT !.zones =
        {IF z.id = t.ids.zone
           THEN [z EXCEPT !.enabled = t.req.enabled, !.serial = t.serial]
           ELSE z : z \in d.zones}]

DeleteZone(d, t) ==
    LET ls == LocationsOf(d, t.ids.zone)
    IN  DeleteResources(d, {t.ids.zone} \cup Ids(ls) \cup Ids(RecordsOf(d, Ids(ls))))

ImportZone(d, t) ==
    LET c  == DeleteResources(d, Ids(LocationsOf(d, t.ids.zone)))
        ls == {LocationRow(LocationId(t.rev, x[1]), t.ids.zone, x[1], TRUE) :
                  x \in t.req.entries}
        rs == {RecordRow(RecordId(t.rev, x[1], x[2]), LocationId(t.rev, x[1]),
                         x[2], x[3], TRUE) : x \in t.req.entries}
    IN  [c EXCEPT !.resources = @ \cup Ids(ls) \cup Ids(rs),
                  !.locations = @ \cup ls,
                  !.records   = @ \cup rs]

AddLocation(d, t) ==
    LET lid == LocationId(t.rev, t.req.label)
    IN  [d EXCEPT !.resources = @ \cup {lid},
                  !.locations = @ \cup {LocationRow(lid, t.ids.zone, t.req.label,
                                                    t.req.enabled)}]

UpdateLocation(d, t) ==
    [d EXCEPT !.locations =
        {IF l.id = t.ids.loc THEN [l EXCEPT !.enabled = t.req.enabled] ELSE l :
            l \in d.locations}]

(* Mutant: the record sets of the location are left to the cascade.        *)
DeleteLocationOnly(d, t) == DeleteResources(d, {t.ids.loc})

DeleteLocation(d, t) ==
    DeleteResources(d, {t.ids.loc} \cup Ids(RecordsOf(d, {t.ids.loc})))

AddRecordSet(d, t) ==
    LET rid == RecordId(t.rev, t.req.label, t.req.rtype)
    IN  [d EXCEPT !.resources = @ \cup {rid},
                  !.records = @ \cup {RecordRow(rid, t.ids.loc, t.req.rtype,
                                                t.req.value, t.req.enabled)}]

UpdateRecordSet(d, t) ==
    [d EXCEPT !.records =
        {IF r.id = t.ids.rec
           THEN [r EXCEPT !.value = t.req.value, !.enabled = t.req.enabled]
           ELSE r : r \in d.records}]

DeleteRecordSet(d, t) == DeleteResources(d, {t.ids.rec})

Effect(d, t) ==
    CASE t.req.type = "add_zone"        -> AddZone(d, t)
      [] t.req.type = "update_zone"     -> UpdateZone(d, t)
      [] t.req.type = "delete_zone"     -> DeleteZone(d, t)
      [] t.req.type = "import_zone"     -> ImportZone(d, t)
      [] t.req.type = "add_location"    -> AddLocation(d, t)
      [] t.req.type = "update_location" -> UpdateLocation(d, t)
      [] t.req.type = "delete_location" -> DeleteLocation(d, t)
      [] t.req.type = "add_record"      -> AddRecordSet(d, t)
      [] t.req.type = "update_record"   -> UpdateRecordSet(d, t)
      [] t.req.type = "delete_record"   -> DeleteRecordSet(d, t)

(* The row addEvent inserts.  Every operation marshals its request struct  *)
(* except DeleteZone, which marshals the zone's name: a JSON string.       *)
EventOf(t) ==
    Event(t.rev,
          IF t.req.type = "add_zone" THEN ZoneId(t.rev) ELSE t.ids.zone,
          t.req,
          t.serial,
          t.req.type # "delete_zone")

-----------------------------------------------------------------------------
(* A client is idle, has read the zone it will update, has looked its ids  *)
(* up, or holds an open transaction.                                       *)

NoRequest == [type |-> "none"]

Idle == [pc |-> "idle", req |-> NoRequest, serial |-> InitialSerial,
         ids |-> NoIds, rev |-> 0]

ApiInit ==
    /\ events = {}
    /\ db = EmptyTables
    /\ nextRevision = 1
    /\ api = [c \in Clients |-> Idle]

(* Mutant: the serial is decremented.                                      *)
ReadZoneDecrements(c, r) ==
    /\ api[c].pc = "idle"
    /\ r.type = "update_zone"
    /\ \E z \in OwnZones(db, r) :
          api' = [api EXCEPT ![c].pc = "read", ![c].req = r,
                             ![c].serial = z.serial - 1]
    /\ UNCHANGED <<events, db, nextRevision>>

(* updateZone: h.db.GetZone, then req.SOA.Serial = z.SOA.Serial + 1.       *)
ReadZone(c, r) ==
    /\ api[c].pc = "idle"
    /\ r.type = "update_zone"
    /\ \E z \in OwnZones(db, r) :
          api' = [api EXCEPT ![c].pc = "read", ![c].req = r,
                             ![c].serial = z.serial + 1]
    /\ UNCHANGED <<events, db, nextRevision>>

(* The lookups succeed.  When they do not the request ends with an error   *)
(* and nothing has changed.                                                *)
LookUp(c, r) ==
    /\ IF r.type = "update_zone" THEN api[c].pc = "read" /\ api[c].req = r
                                 ELSE api[c].pc = "idle"
    /\ \E ids \in Lookup(db, r) :
          api' = [api EXCEPT ![c].pc = "found", ![c].req = r, ![c].ids = ids]
    /\ UNCHANGED <<events, db, nextRevision>>

(* UpdateZone finds the zone gone, or owned by another user by now.        *)
LookUpFails(c) ==
    /\ api[c].pc = "read"
    /\ Lookup(db, api[c].req) = {}
    /\ api' = [api EXCEPT ![c] = Idle]
    /\ UNCHANGED <<events, db, nextRevision>>

OpenLocks(c) ==
    UNION {ExclusiveLocks(db, api[o].req, api[o].ids) :
             o \in {x \in Clients \ {c} : api[x].pc = "open"}}
OpenShared(c) ==
    UNION {SharedLocks(db, api[o].req, api[o].ids) :
             o \in {x \in Clients \ {c} : api[x].pc = "open"}}

(* No open transaction holds a lock that the statements of c wait for.     *)
LocksFree(c) ==
    LET x == ExclusiveLocks(db, api[c].req, api[c].ids)
        s == SharedLocks(db, api[c].req, api[c].ids)
    IN  /\ (x \cup s) \cap OpenLocks(c) = {}
        /\ x \cap OpenShared(c) = {}

(* The statements of the transaction run; the last one draws the revision. *)
Exec(c) ==
    /\ api[c].pc = "found"
    /\ LocksFree(c)
    /\ ~ StatementFails(db, api[c].req, api[c].ids)
    /\ nextRevision <= MaxRevision
    /\ nextRevision' = nextRevision + 1
    /\ api' = [api EXCEPT ![c].pc = "open", ![c].rev = nextRevision]
    /\ UNCHANGED <<events, db>>

(* A statement before addEvent fails: the transaction rolls back.          *)
ExecFails(c) ==
    /\ api[c].pc = "found"
    /\ LocksFree(c)
    /\ StatementFails(db, api[c].req, api[c].ids)
    /\ api' = [api EXCEPT ![c] = Idle]
    /\ UNCHANGED <<events, db, nextRevision>>

(* Mutant: the event replaces the earlier events of its zone.              *)
CommitReplacesEvents(c) ==
    /\ api[c].pc = "open"
    /\ db' = Effect(db, api[c])
    /\ events' = {e \in events : e.req.zone # api[c].req.zone} \cup {EventOf(api[c])}
    /\ api' = [api EXCEPT ![c] = Idle]
    /\ UNCHANGED nextRevision

(* tx.Commit: the changes and the event become visible together.           *)
Commit(c) ==
    /\ api[c].pc = "open"
    /\ db' = Effect(db, api[c])
    /\ events' = events \cup {EventOf(api[c])}
    /\ api' = [api EXCEPT ![c] = Idle]
    /\ UNCHANGED nextRevision

(* The commit fails, or the connection is lost: the revision is burned.    *)
Rollback(c) ==
    /\ api[c].pc = "open"
    /\ api' = [api EXCEPT ![c] = Idle]
    /\ UNCHANGED <<events, db, nextRevision>>

ApiNext ==
    \E c \in Clients :
       \/ \E r \in Requests : ReadZone(c, r) \/ LookUp(c, r)
       \/ LookUpFails(c)
       \/ Exec(c)
       \/ ExecFails(c)
       \/ Commit(c)
       \/ Rollback(c)

ApiSpec == ApiInit /\ [][ApiNext]_apiVars

-----------------------------------------------------------------------------
(* What the API means to publish: enabled record sets of enabled locations *)
(* of enabled zones, and the configuration of enabled zones.               *)
Published(d) ==
    {x \in Zones \X Labels \X RTypes \X Values :
        \E z \in d.zones, l \in d.locations, r \in d.records :
           /\ z.enabled /\ l.enabled /\ r.enabled
           /\ l.zone = z.id /\ r.loc = l.id
           /\ x = <<z.name, l.name, r.type, r.value>>}

PublishedConfigs(d) ==
    {<<z.name, [id |-> z.id, serial |-> z.serial]>> : z \in {y \in d.zones : y.enabled}}

-----------------------------------------------------------------------------
(* Properties.                                                             *)

ObjectId ==
    {NoId} \cup {ZoneId(n) : n \in 1..MaxRevision}
           \cup {LocationId(n, l) : n \in 1..MaxRevision, l \in Labels}
           \cup {RecordId(n, l, t) : n \in 1..MaxRevision, l \in Labels, t \in RTypes}

ZoneRowType     == [id : ObjectId, name : Zones, owner : Users,
                    enabled : BOOLEAN, serial : Nat]
LocationRowType == [id : ObjectId, zone : ObjectId, name : Labels,
                    enabled : BOOLEAN]
RecordRowType   == [id : ObjectId, loc : ObjectId, type : RTypes,
                    value : Values, enabled : BOOLEAN]

Tables ==
    [resources : SUBSET ObjectId, zones : SUBSET ZoneRowType,
     locations : SUBSET LocationRowType, records : SUBSET RecordRowType]

ApiState ==
    [pc     : {"idle", "read", "found", "open"},
     req    : Request \cup {NoRequest},
     serial : Nat,
     ids    : [zone : ObjectId, loc : ObjectId, rec : ObjectId],
     rev    : 0..MaxRevision]

EventRow ==
    [rev : 1..MaxRevision, zid : ObjectId, req : Request, serial : Nat,
     object : BOOLEAN]

(* The tables, the event log and the requests in progress have their types;*)
(* serials in particular never leave the naturals.                         *)
ApiTypeOK ==
    /\ events \subseteq EventRow
    /\ db \in Tables
    /\ nextRevision \in 1..(MaxRevision + 1)
    /\ api \in [Clients -> ApiState]

(* The schema's keys hold in every committed state although each operation *)
(* resolves its ids outside its transaction: rows have a resource, a       *)
(* parent, and a name that is unique under the parent.                     *)
ReferentialIntegrity ==
    /\ Ids(db.zones) \cup Ids(db.locations) \cup Ids(db.records) \subseteq db.resources
    /\ \A l \in db.locations : l.zone \in Ids(db.zones)
    /\ \A r \in db.records : r.loc \in Ids(db.locations)
    /\ \A y, z \in db.zones : y.name = z.name => y = z
    /\ \A k, l \in db.locations : k.zone = l.zone /\ k.name = l.name => k = l
    /\ \A q, r \in db.records : q.loc = r.loc /\ q.type = r.type => q = r

Orphans(d) == d.resources \ (Ids(d.zones) \cup Ids(d.locations) \cup Ids(d.records))

(* Deleting a zone, a location or a record set leaves no row of Resource   *)
(* behind (TestDeleteZone asks resourceExists for each of the three ids),  *)
(* whatever the deletion races with.  Only a zone import does: it deletes  *)
(* the resources of the locations and leaves the record sets to a cascade. *)
OnlyImportsOrphan ==
    [][Orphans(db') \subseteq Orphans(db)
         \/ \E e \in events' \ events : e.req.type = "import_zone"]_apiVars

(* What belongs to a zone: its row, its locations and their record sets.   *)
ZoneTree(d, z) ==
    <<z, LocationsOf(d, z.id), RecordsOf(d, Ids(LocationsOf(d, z.id)))>>

(* A commit changes nothing under a zone that the requesting user does not *)
(* own, although the owner is checked before the transaction and the zone  *)
(* may be deleted and created again by someone else in between.            *)
OnlyOwnZonesChange ==
    [][\A c \in Clients :
         api[c].pc = "open" /\ db' # db /\ api'[c] # api[c] =>
           \A z \in db.zones :
              z.owner # api[c].req.user =>
                 z \in db'.zones /\ ZoneTree(db', z) = ZoneTree(db, z)]_apiVars

(* The row an event speaks of is there with the contents the event         *)
(* carries, or is gone if the event is a deletion.                         *)
Describes(e, d) ==
    LET r  == e.req
        zs == {z \in d.zones : z.name = r.zone}
        ls == {l \in d.locations : l.zone \in Ids(zs) /\ l.name = r.label}
        rs == {x \in d.records : x.loc \in Ids(ls) /\ x.type = r.rtype}
    IN  CASE r.type \in {"add_zone", "update_zone"} ->
               \E z \in zs : z.enabled = r.enabled /\ z.id = e.zid
          [] r.type \in {"add_location", "update_location"} ->
               \E l \in ls : l.enabled = r.enabled
          [] r.type \in {"add_record", "update_record"} ->
               \E x \in rs : x.enabled = r.enabled /\ x.value = r.value
          [] r.type = "delete_zone"     -> zs = {}
          [] r.type = "delete_location" -> ls = {}
          [] r.type = "delete_record"   -> rs = {}
          [] r.type = "import_zone"     ->
               \A x \in r.entries : \E l \in d.locations, y \in d.records :
                  l.zone = e.zid /\ l.name = x[1] /\ y.loc = l.id
                    /\ y.type = x[2] /\ y.value = x[3]

(* The row that an update or a deletion looked up has gone meanwhile: its  *)
(* statements find nothing, which is no error, and the event is inserted.  *)
Missed(d, t) ==
    \/ t.req.type = "delete_zone" /\ ZoneRows(d, t.ids.zone) = {}
    \/ /\ t.req.type \in {"update_location", "delete_location"}
       /\ LocationRows(d, t.ids.loc) = {}
    \/ /\ t.req.type \in {"update_record", "delete_record"}
       /\ RecordRows(d, t.ids.rec) = {}

(* An event in the log is true of the tables it is committed with: the     *)
(* statements of an operation did what its event tells the updater, with   *)
(* any number of requests between its lookups and its transaction.  The    *)
(* one exception is a row that another request has deleted in between; the *)
(* transaction then changes no zone, location or record set.               *)
EventsDescribeRows ==
    [][\A e \in events' \ events :
         \/ Describes(e, db')
         \/ /\ \E c \in Clients : /\ api[c].pc = "open" /\ e = EventOf(api[c])
                                 /\ Missed(db, api[c])
            /\ db'.zones = db.zones /\ db'.locations = db.locations
            /\ db'.records = db.records]_apiVars
=============================================================================

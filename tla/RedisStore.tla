---------------------------- MODULE RedisStore ----------------------------
(***************************************************************************)
(* The part of the Redis key space that holds zone data, and the commands  *)
(* DataHandler.ApplyEvent queues for one event between MULTI and EXEC      *)
(* (internal/storage/data_handler.go, pkg/hiredis/transaction.go).         *)
(*                                                                         *)
(*   zones     the members of "z42:zones"                                  *)
(*   labels    per zone, the members of "z42:zones:<zone>:labels"          *)
(*   kv        the string keys: zone configurations and record sets        *)
(*   rev       "z42:revision", 0 when the key is missing                   *)
(*                                                                         *)
(* The DNSSEC key pairs are written together with a zone's first           *)
(* configuration and never again, so they are not kept apart.              *)
(***************************************************************************)
EXTENDS ZoneEvents

zoneConfigKey(z)              == <<"config", z>>
zoneLocationRRSetKey(z, l, t) == <<"rrset", z, l, t>>

(* Strings with a `*' in them.  No command ever SETs such a key.           *)
zoneWildcard(z)               == <<"zone:*", z>>
zoneLocationsWildcard(z)      == <<"labels:*", z>>
locationWildcard(z, l)        == <<"location:*", z, l>>

EmptyStore ==
    [zones |-> {}, labels |-> [z \in Zones |-> {}], kv |-> << >>, rev |-> 0]

-----------------------------------------------------------------------------
(* The commands of a transaction.                                          *)

SAddZone(st, z)     == [st EXCEPT !.zones = @ \cup {z}]
SRemZone(st, z)     == [st EXCEPT !.zones = @ \ {z}]
SAddLabel(st, z, l) == [st EXCEPT !.labels[z] = @ \cup {l}]
SRemLabel(st, z, l) == [st EXCEPT !.labels[z] = @ \ {l}]

Set(st, key, v) ==
    [st EXCEPT !.kv = [k \in DOMAIN st.kv \cup {key} |->
                         IF k = key THEN v ELSE st.kv[k]]]

(* DEL takes key names, not patterns: it removes the one key it is given.  *)
Del(st, key) ==
    [st EXCEPT !.kv = [k \in DOMAIN st.kv \ {key} |-> st.kv[k]]]

-----------------------------------------------------------------------------
(* One operator per case of ApplyEvent's switch.                           *)

ZoneConfig(e) == [id |-> e.zid, serial |-> e.serial]

ApplyAddZone(st, e) ==
    LET z  == e.req.zone
        s1 == IF e.req.enabled THEN SAddZone(st, z) ELSE st
        s2 == SAddLabel(Del(s1, zoneWildcard(z)), z, Apex)
        s3 == Set(s2, zoneConfigKey(z), ZoneConfig(e))
    IN  Set(s3, zoneLocationRRSetKey(z, Apex, NS), NSValue)

ApplyImportZone(st, e) ==
    LET z    == e.req.zone
        s1   == Del(st, zoneLocationsWildcard(z))
        keys == {zoneLocationRRSetKey(z, x[1], x[2]) : x \in e.req.entries}
        val(k) == (CHOOSE x \in e.req.entries :
                     k = zoneLocationRRSetKey(z, x[1], x[2]))[3]
    IN  [s1 EXCEPT !.labels[z] = @ \cup {x[1] : x \in e.req.entries},
                   !.kv = [k \in DOMAIN s1.kv \cup keys |->
                             IF k \in keys THEN val(k) ELSE s1.kv[k]]]

(* Mutant: an update writes the configuration but not the zone list.       *)
ApplyUpdateZoneUnlisted(st, e) ==
    Set(SAddLabel(st, e.req.zone, Apex), zoneConfigKey(e.req.zone), ZoneConfig(e))

ApplyUpdateZone(st, e) ==
    LET z  == e.req.zone
        s1 == IF e.req.enabled THEN SAddZone(st, z) ELSE SRemZone(st, z)
    IN  Set(SAddLabel(s1, z, Apex), zoneConfigKey(z), ZoneConfig(e))

ApplyDeleteZone(st, e) ==
    Del(SRemZone(st, e.req.zone), zoneWildcard(e.req.zone))

ApplyAddLocation(st, e) ==
    IF e.req.enabled THEN SAddLabel(st, e.req.zone, e.req.label) ELSE st

(* Mutant: disabling a location leaves its label in the set.               *)
ApplyUpdateLocationKeepsLabel(st, e) ==
    IF e.req.enabled THEN SAddLabel(st, e.req.zone, e.req.label) ELSE st

ApplyUpdateLocation(st, e) ==
    IF e.req.enabled THEN SAddLabel(st, e.req.zone, e.req.label)
                     ELSE SRemLabel(st, e.req.zone, e.req.label)

ApplyDeleteLocation(st, e) ==
    Del(SRemLabel(st, e.req.zone, e.req.label),
        locationWildcard(e.req.zone, e.req.label))

RecordKey(e) == zoneLocationRRSetKey(e.req.zone, e.req.label, e.req.rtype)

ApplyAddRecord(st, e) ==
    IF e.req.enabled THEN Set(st, RecordKey(e), e.req.value) ELSE st

ApplyUpdateRecord(st, e) ==
    IF e.req.enabled THEN Set(st, RecordKey(e), e.req.value)
                     ELSE Del(st, RecordKey(e))

ApplyDeleteRecord(st, e) == Del(st, RecordKey(e))

(* The store after EXEC: the event's commands and the new revision.        *)
ApplyEvent(st, e) ==
    LET s == CASE e.req.type = "add_zone"        -> ApplyAddZone(st, e)
               [] e.req.type = "import_zone"     -> ApplyImportZone(st, e)
               [] e.req.type = "update_zone"     -> ApplyUpdateZone(st, e)
               [] e.req.type = "delete_zone"     -> ApplyDeleteZone(st, e)
               [] e.req.type = "add_location"    -> ApplyAddLocation(st, e)
               [] e.req.type = "update_location" -> ApplyUpdateLocation(st, e)
               [] e.req.type = "delete_location" -> ApplyDeleteLocation(st, e)
               [] e.req.type = "add_record"      -> ApplyAddRecord(st, e)
               [] e.req.type = "update_record"   -> ApplyUpdateRecord(st, e)
               [] e.req.type = "delete_record"   -> ApplyDeleteRecord(st, e)
    IN  [zones |-> s.zones, labels |-> s.labels, kv |-> s.kv, rev |-> e.rev]

(* jsoniter.Unmarshal of the Value column into the model of the event: a   *)
(* struct is only read from a JSON object.                                 *)
Decodes(e) == e.object

-----------------------------------------------------------------------------
(* What a resolver finds in the store: the record sets reachable through   *)
(* the zone list, the label set and the record keys.                       *)
Served(st) ==
    {x \in Zones \X Labels \X RTypes \X Values :
        /\ x[1] \in st.zones
        /\ x[2] \in st.labels[x[1]]
        /\ zoneLocationRRSetKey(x[1], x[2], x[3]) \in DOMAIN st.kv
        /\ st.kv[zoneLocationRRSetKey(x[1], x[2], x[3])] = x[4]}

ServedConfigs(st) ==
    {<<z, st.kv[zoneConfigKey(z)]>> :
        z \in {n \in st.zones : zoneConfigKey(n) \in DOMAIN st.kv}}
=============================================================================

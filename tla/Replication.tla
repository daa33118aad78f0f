---------------------------- MODULE Replication ----------------------------
(***************************************************************************)
(* The API's database and the zone updater together: the path a change     *)
(* takes from a REST request to the Redis keys a resolver reads.  The two  *)
(* share the Events table only.                                            *)
(***************************************************************************)
EXTENDS ApiDatabase, ZoneUpdater

vars == <<events, db, nextRevision, api, redis, updater, applied>>

Init == ApiInit /\ UpdaterInit

Next ==
    \/ ApiNext /\ UNCHANGED updaterVars
    \/ UpdaterNext /\ UNCHANGED apiVars

Spec == Init /\ [][Next]_vars

(***************************************************************************)
(* Fairness.  The updater's loop goes on by itself and its supervisor      *)
(* restarts it (WF of its steps, crashes excepted).  Crashes stop          *)
(* happening eventually: without that no event need ever get through.      *)
(* Nothing is assumed of the API: a transaction may stay open for ever.    *)
(***************************************************************************)
UpdaterProgress == GetRevision \/ GetEvents \/ Apply \/ ApplyFatal \/ Sleep \/ Restart

LiveSpec ==
    /\ Spec
    /\ WF_vars(UpdaterProgress /\ UNCHANGED apiVars)
    /\ <>[][~ (Crash /\ ~ ApplyFatal /\ UNCHANGED apiVars)]_vars

-----------------------------------------------------------------------------
UpdaterTypeOK ==
    /\ redis \in [zones : SUBSET Zones, labels : [Zones -> SUBSET Labels],
                   kv : {redis.kv}, rev : 0..MaxRevision]
    /\ updater \in [pc : {"poll", "query", "apply", "down"},
                     revision : 0..MaxRevision, batch : SUBSET events]
    /\ applied \subseteq 1..MaxRevision

(* The variables of the tables, the requests, Redis and the updater have   *)
(* their types; the updater holds committed events only.                   *)
TypeOK == ApiTypeOK /\ UpdaterTypeOK

(* Every change of Redis is the application of one event later than all    *)
(* before it: whatever the updater crashes between, it never applies an    *)
(* event twice and never goes back.                                        *)
AppliedOnceInOrder ==
    [][redis' # redis =>
         /\ redis'.rev > redis.rev
         /\ \E e \in events : /\ e.rev \notin applied
                              /\ redis' = ApplyEvent(redis, e)]_vars

(* Redis never claims a revision it has not been given: the events applied *)
(* are committed ones up to the revision stored.                           *)
RevisionIsApplied ==
    /\ \A r \in applied : r \in Revisions /\ r <= redis.rev
    /\ redis.rev # 0 => redis.rev \in applied

(* Below the revision stored in Redis no committed event is missing.       *)
NothingSkipped == \A e \in events : e.rev <= redis.rev => e.rev \in applied

(* Redis has caught up with the database.                                  *)
CaughtUp == \A e \in events : e.rev <= redis.rev

(* Once caught up, every record set and configuration the API published    *)
(* can be found in Redis with its latest value.                            *)
NothingMissing ==
    CaughtUp => /\ Published(db) \subseteq Served(redis)
                /\ PublishedConfigs(db) \subseteq ServedConfigs(redis)

(* Events that leave keys of location l of zone z behind in Redis: what    *)
(* they delete by pattern is not deleted.  A disabled apex is put back     *)
(* into the label set by the next update of its zone.                      *)
LeavesKeys(e, z, l) ==
    /\ e.req.zone = z
    /\ \/ e.req.type \in {"delete_zone", "import_zone"}
       \/ e.req.type = "delete_location" /\ e.req.label = l
       \/ e.req.type = "update_location" /\ e.req.label = l /\ l = Apex
            /\ ~ e.req.enabled

(* Once caught up, Redis serves no configuration and no record set that    *)
(* the API does not publish, except under names that a deletion or an      *)
(* import (or a disabled apex) has left keys of.                           *)
NothingStale ==
    CaughtUp =>
      /\ ServedConfigs(redis) \subseteq PublishedConfigs(db)
      /\ \A x \in Served(redis) \ Published(db) :
            \E e \in events : LeavesKeys(e, x[1], x[2])

(* Every committed event is applied in the end.                            *)
EventuallyApplied ==
    \A r \in 1..MaxRevision : (r \in Revisions) ~> (r \in applied)

(* With one request in transaction at a time the pipeline is an event      *)
(* stream: published in order, delivered once, in order and without gaps.  *)
Stream == INSTANCE EventStream
            WITH Rev <- 1..MaxRevision, log <- Revisions, done <- applied

(* Commits append to the stream, EXECs deliver from it, and every other    *)
(* step, crashes and restarts included, is a stutter.                      *)
ImplementsStream == Stream!StreamSpec
=============================================================================

---------------------------- MODULE ZoneCache ----------------------------
(***************************************************************************)
(* DataHandler.GetZone (internal/storage/data_handler.go): the cached zone *)
(* that the queries for one zone share, invalidated by the subscription to *)
(* the keys "z42:zones:*".  Every zone has its own entry, call in flight   *)
(* and keys.  The content of a key is the number of times it was written.  *)
(*                                                                         *)
(* ristretto and singleflight are external.  A cache may refuse a new      *)
(* entry and evict any entry; sets and deletions are taken to be in force  *)
(* when they return (ristretto buffers the first set of a key, for less    *)
(* time than the two Redis commands of the next call take).                *)
(***************************************************************************)
EXTENDS Subscription

CONSTANTS
    Queries,        \* queries served at once
    MaxWrites,      \* bound on the writes to the zone's keys
    None            \* no zone: nothing cached, nothing returned

ASSUME CacheAssumption == MaxWrites \in Nat /\ None \notin Nat

VARIABLES
    stored,     \* Redis: versions of the label set and the configuration
    cache,      \* zoneCache's entry
    flight,     \* zoneInflight's call
    query,      \* per query: pc, entry found, version asked for and returned
    served      \* history: the latest version any query has been given

vars == <<sub, stored, cache, flight, query, served>>

NoFlight == [pc |-> "none", labels |-> 0, config |-> None]
Entry(labels, config) == [labels |-> labels, config |-> config, fresh |-> TRUE]
NewQuery == [pc |-> "idle", old |-> None, floor |-> 0, got |-> None]

Init ==
    /\ sub = Unsubscribed
    /\ stored = [labels |-> 0, config |-> 0]
    /\ cache = None
    /\ flight = NoFlight
    /\ query = [q \in Queries |-> NewQuery]
    /\ served = 0

(* The zone updater writes one of the keys, or both in one transaction.    *)
Write ==
    /\ \/ stored' = [stored EXCEPT !.labels = @ + 1] /\ Notify(1)
       \/ stored' = [stored EXCEPT !.config = @ + 1] /\ Notify(1)
       \/ stored' = [stored EXCEPT !.labels = @ + 1, !.config = @ + 1] /\ Notify(2)
    /\ stored'.labels + stored'.config <= MaxWrites
    /\ UNCHANGED <<cache, flight, query, served>>

(* onStart does nothing here.                                              *)
Reconnect ==
    /\ Connect \/ Activate \/ BeginReceive \/ Disconnect
    /\ UNCHANGED <<stored, cache, flight, query, served>>

(* onMessage deletes the cached zone.                                      *)
OnMessage ==
    /\ Receive
    /\ cache' = None
    /\ UNCHANGED <<stored, flight, query, served>>

-----------------------------------------------------------------------------
(* GetZone.                                                                *)

Newest(a, b) == IF a < b THEN b ELSE a

(* The query returns a zone, or nothing.                                   *)
Return(q, floor, zone) ==
    query' = [query EXCEPT ![q] =
        [pc |-> "idle", old |-> None, floor |-> floor,
         got |-> IF zone = None THEN None ELSE zone.labels]]

(* A fresh entry is returned; an expired one is kept in case Redis fails.  *)
Get(q) ==
    /\ query[q].pc = "idle"
    /\ IF cache # None /\ cache.fresh
         THEN /\ Return(q, served, cache)
              /\ served' = Newest(served, cache.labels)
         ELSE /\ query' = [query EXCEPT ![q] =
                    [pc |-> "miss", old |-> cache, floor |-> served, got |-> None]]
              /\ UNCHANGED served
    /\ UNCHANGED <<sub, stored, cache, flight>>

(* zoneInflight.Do: the first caller starts the function, others wait.     *)
Do(q) ==
    /\ query[q].pc = "miss"
    /\ query' = [query EXCEPT ![q].pc = "wait"]
    /\ flight' = IF flight.pc = "none" THEN [NoFlight EXCEPT !.pc = "labels"]
                                       ELSE flight
    /\ UNCHANGED <<sub, stored, cache, served>>

ReadLabels ==
    /\ flight.pc = "labels"
    /\ flight' = [flight EXCEPT !.pc = "config", !.labels = stored.labels]
    /\ UNCHANGED <<sub, stored, cache, query, served>>

(* The call returns nil and every waiting query its expired entry.         *)
ReadLabelsFails ==
    /\ flight.pc = "labels"
    /\ flight' = NoFlight
    /\ query' = [q \in Queries |->
                   IF query[q].pc = "wait"
                     THEN [pc |-> "idle", old |-> None, floor |-> query[q].floor,
                           got |-> IF query[q].old = None THEN None
                                                          ELSE query[q].old.labels]
                     ELSE query[q]]
    /\ UNCHANGED <<sub, stored, cache, served>>

(* The zone is built from the configuration and keys read, or without.     *)
ReadConfig ==
    /\ flight.pc = "config"
    /\ flight' = [flight EXCEPT !.pc = "store", !.config = stored.config]
    /\ UNCHANGED <<sub, stored, cache, query, served>>

ReadConfigFails ==
    /\ flight.pc = "config"
    /\ flight' = [flight EXCEPT !.pc = "store", !.config = None]
    /\ UNCHANGED <<sub, stored, cache, query, served>>

(* Mutant: an expired entry is not replaced.                               *)
SetIfAbsent ==
    /\ flight.pc = "store"
    /\ cache' = IF cache = None THEN Entry(flight.labels, flight.config) ELSE cache
    /\ flight' = [flight EXCEPT !.pc = "return"]
    /\ UNCHANGED <<sub, stored, query, served>>

(* zoneCache.Set: an entry that is there is replaced, a new one may be     *)
(* refused.                                                                *)
SetCache ==
    /\ flight.pc = "store"
    /\ \/ cache' = Entry(flight.labels, flight.config)
       \/ cache = None /\ UNCHANGED cache
    /\ flight' = [flight EXCEPT !.pc = "return"]
    /\ UNCHANGED <<sub, stored, query, served>>

(* The call is forgotten and the waiting queries return its zone.          *)
Answer ==
    /\ flight.pc = "return"
    /\ flight' = NoFlight
    /\ query' = [q \in Queries |->
                   IF query[q].pc = "wait"
                     THEN [pc |-> "idle", old |-> None, floor |-> query[q].floor,
                           got |-> flight.labels]
                     ELSE query[q]]
    /\ served' = Newest(served, flight.labels)
    /\ UNCHANGED <<sub, stored, cache>>

(* Mutant: entries have no timeout.                                        *)
NeverExpires ==
    /\ cache # None
    /\ UNCHANGED vars

(* The entry's CacheTimeout passes.                                        *)
Expire ==
    /\ cache # None
    /\ cache.fresh
    /\ cache' = [cache EXCEPT !.fresh = FALSE]
    /\ UNCHANGED <<sub, stored, flight, query, served>>

Evict ==
    /\ cache # None
    /\ cache' = None
    /\ UNCHANGED <<sub, stored, flight, query, served>>

-----------------------------------------------------------------------------
Call == ReadLabels \/ ReadConfig \/ SetCache \/ Answer

Failure == ReadLabelsFails \/ ReadConfigFails

Next ==
    \/ Write
    \/ Reconnect \/ OnMessage
    \/ \E q \in Queries : Get(q) \/ Do(q)
    \/ Call
    \/ Failure
    \/ Expire \/ Evict

Spec == Init /\ [][Next]_vars

(***************************************************************************)
(* A call in flight is carried out and time passes; nothing is assumed of  *)
(* the subscription, and Redis may fail at any time.                       *)
(***************************************************************************)
CacheLiveSpec ==
    /\ Spec
    /\ WF_vars(Call \/ Failure)
    /\ WF_vars(Expire)

-----------------------------------------------------------------------------
Versions == 0..MaxWrites
Optional(S) == S \cup {None}

CachedZone == [labels : Versions, config : Optional(Versions), fresh : BOOLEAN]

(* The cache, the call in flight, the queries and the subscription have    *)
(* their types: a version in use is one that was stored.                   *)
CacheTypeOK ==
    /\ sub \in SubscriptionType
    /\ stored \in [labels : Versions, config : Versions]
    /\ cache \in Optional(CachedZone)
    /\ flight \in [pc : {"none", "labels", "config", "store", "return"},
                   labels : Versions, config : Optional(Versions)]
    /\ query \in [Queries -> [pc : {"idle", "miss", "wait"}, old : Optional(CachedZone),
                              floor : Versions, got : Optional(Versions)]]
    /\ served \in Versions

(* No query is given an older zone than one that was returned before it    *)
(* began, whatever mixes of hits, shared calls, invalidations, evictions,  *)
(* and expired entries returned because Redis failed.                      *)
MonotoneReads ==
    \A q \in Queries : query[q].got # None => query[q].got >= query[q].floor

(* After a change of the zone's locations, or of its configuration, there  *)
(* comes a time from which nothing older is taken from the cache, also     *)
(* when the invalidation is lost or comes before the entry it should have  *)
(* removed.                                                                *)
CacheEventuallyCurrent ==
    \A v \in 1..MaxWrites :
       /\ (stored.labels >= v) ~>
             [](cache # None /\ cache.fresh => cache.labels >= v)
       /\ (stored.config >= v) ~>
             [](cache # None /\ cache.fresh =>
                  cache.config = None \/ cache.config >= v)
=============================================================================

-------------------------- MODULE ZoneCacheProofs --------------------------
(***************************************************************************)
(* MonotoneReads of ZoneCache, for any number of queries and writes.       *)
(*                                                                         *)
(* The versions are ordered: what queries were given <= what is cached <=  *)
(* what the call in flight has read <= what is stored.  A call that has    *)
(* read holds the only copy that can enter the cache, and while it waits   *)
(* to answer the cache holds its zone or nothing.                          *)
(***************************************************************************)
EXTENDS ZoneCache, TLAPS

(* The call in flight has read the labels.                                 *)
HasRead == flight.pc \in {"config", "store", "return"}

StoredIsNewest ==
    /\ served <= stored.labels
    /\ flight.labels <= stored.labels
    /\ cache # None => cache.labels <= stored.labels

FlightIsNewer ==
    HasRead => /\ served <= flight.labels
               /\ cache # None => cache.labels <= flight.labels

CacheIsServed ==
    cache # None => /\ served <= cache.labels
                    /\ flight.pc = "return" => cache.labels = flight.labels

FloorIsServed ==
    \A q \in Queries :
       /\ query[q].floor <= served
       /\ query[q].old # None => query[q].floor <= query[q].old.labels

VersionOrder ==
    StoredIsNewest /\ FlightIsNewer /\ CacheIsServed /\ FloorIsServed

CacheInv == CacheTypeOK /\ VersionOrder /\ MonotoneReads

-----------------------------------------------------------------------------
(* The subscription keeps its type, whatever the zone's keys do.           *)
LEMMA SubscriptionTyped ==
    ASSUME sub \in SubscriptionType,
           \/ Connect \/ Activate \/ BeginReceive \/ Receive \/ Disconnect
           \/ Notify(1) \/ Notify(2)
    PROVE  sub' \in SubscriptionType
<1> USE DEF SubscriptionType
<1>1. CASE Connect
  BY <1>1 DEF Connect
<1>2. CASE Activate
  BY <1>2 DEF Activate
<1>3. CASE BeginReceive
  BY <1>3 DEF BeginReceive
<1>4. CASE Receive
  BY <1>4 DEF Receive
<1>5. CASE Disconnect
  BY <1>5 DEF Disconnect, Unsubscribed
<1>6. ASSUME NEW n \in Nat, Notify(n) PROVE sub' \in SubscriptionType
  BY <1>6 DEF Notify
<1> QED
  BY <1>1, <1>2, <1>3, <1>4, <1>5, <1>6

(* No version is known before anything is stored.                          *)
LEMMA CacheInvInit == Init => CacheInv
<1> SUFFICES ASSUME Init PROVE CacheInv
  OBVIOUS
<1> USE CacheAssumption DEF Init
<1>1. CacheTypeOK
  BY DEF CacheTypeOK, SubscriptionType, Unsubscribed, NoFlight, NewQuery,
         Versions, Optional
<1>2. VersionOrder
  BY DEF VersionOrder, StoredIsNewest, FlightIsNewer, CacheIsServed,
         FloorIsServed, HasRead, NoFlight, NewQuery
<1>3. MonotoneReads
  BY DEF MonotoneReads, NewQuery
<1> QED
  BY <1>1, <1>2, <1>3 DEF CacheInv

-----------------------------------------------------------------------------
(* Every step keeps the types.                                             *)
LEMMA CacheTypeNext == CacheTypeOK /\ [Next]_vars => CacheTypeOK'
<1> SUFFICES ASSUME CacheTypeOK, [Next]_vars PROVE CacheTypeOK'
  OBVIOUS
<1> USE CacheAssumption DEF CacheTypeOK, Versions, Optional
<1>1. CASE Write
  <2>1. sub' \in SubscriptionType
    BY <1>1, SubscriptionTyped DEF Write
  <2>2. stored' \in [labels : Nat, config : Nat]
    <3>1. CASE stored' = [stored EXCEPT !.labels = @ + 1]
      BY <3>1
    <3>2. CASE stored' = [stored EXCEPT !.config = @ + 1]
      BY <3>2
    <3>3. CASE stored' = [stored EXCEPT !.labels = @ + 1, !.config = @ + 1]
      <4>1. stored.labels + 1 \in Nat /\ stored.config + 1 \in Nat
        OBVIOUS
      <4>2. stored' = [labels |-> stored.labels + 1, config |-> stored.config + 1]
        BY <3>3
      <4> QED
        BY <4>1, <4>2
    <3> QED
      BY <1>1, <3>1, <3>2, <3>3 DEF Write
  <2>3. stored'.labels + stored'.config <= MaxWrites
    BY <1>1 DEF Write
  <2>4. stored' \in [labels : 0..MaxWrites, config : 0..MaxWrites]
    BY <2>2, <2>3
  <2> QED
    BY <1>1, <2>1, <2>4 DEF Write
<1>2. CASE Reconnect \/ OnMessage
  <2>1. sub' \in SubscriptionType
    BY <1>2, SubscriptionTyped DEF Reconnect, OnMessage
  <2> QED
    BY <1>2, <2>1 DEF Reconnect, OnMessage
<1>3. ASSUME NEW q \in Queries, Get(q) PROVE CacheTypeOK'
  <2>1. CASE cache # None /\ cache.fresh
    BY <1>3, <2>1 DEF Get, Return, Newest, CachedZone
  <2>2. CASE ~ (cache # None /\ cache.fresh)
    BY <1>3, <2>2 DEF Get
  <2> QED
    BY <2>1, <2>2
<1>4. ASSUME NEW q \in Queries, Do(q) PROVE CacheTypeOK'
  BY <1>4 DEF Do, NoFlight
<1>5. CASE ReadLabels
  BY <1>5 DEF ReadLabels
<1>6. CASE ReadConfig
  BY <1>6 DEF ReadConfig
<1>7. CASE SetCache
  <2>1. Entry(flight.labels, flight.config) \in CachedZone
    BY DEF Entry, CachedZone
  <2> QED
    BY <1>7, <2>1 DEF SetCache
<1>8. CASE Answer
  BY <1>8 DEF Answer, NoFlight, Newest
<1>9. CASE ReadLabelsFails
  <2>1. ASSUME NEW q \in Queries
        PROVE  query'[q] \in [pc : {"idle", "miss", "wait"}, old : Optional(CachedZone),
                               floor : Versions, got : Optional(Versions)]
    BY <1>9 DEF ReadLabelsFails, CachedZone
  <2>2. query' = [q \in Queries |-> query'[q]]
    BY <1>9 DEF ReadLabelsFails
  <2> QED
    BY <1>9, <2>1, <2>2 DEF ReadLabelsFails, NoFlight
<1>10. CASE ReadConfigFails
  BY <1>10 DEF ReadConfigFails
<1>11. CASE Expire
  BY <1>11 DEF Expire, CachedZone
<1>12. CASE Evict
  BY <1>12 DEF Evict
<1>13. CASE UNCHANGED vars
  BY <1>13 DEF vars
<1> QED
  BY <1>1, <1>2, <1>3, <1>4, <1>5, <1>6, <1>7, <1>8, <1>9, <1>10, <1>11, <1>12,
     <1>13 DEF Next, Call, Failure

-----------------------------------------------------------------------------
(* Every step keeps the versions in order and answers in order.            *)
LEMMA VersionOrderNext ==
    CacheInv /\ [Next]_vars => VersionOrder' /\ MonotoneReads'
<1> SUFFICES ASSUME CacheInv, [Next]_vars PROVE VersionOrder' /\ MonotoneReads'
  OBVIOUS
<1>t. /\ CacheTypeOK /\ CacheTypeOK'
      /\ StoredIsNewest /\ FlightIsNewer /\ CacheIsServed /\ FloorIsServed
      /\ MonotoneReads
  BY CacheTypeNext DEF CacheInv, VersionOrder
<1>n. /\ served \in Nat /\ stored.labels \in Nat /\ flight.labels \in Nat
      /\ cache # None => cache.labels \in Nat
      /\ \A q \in Queries : /\ query[q].floor \in Nat
                            /\ query[q].old # None => query[q].old.labels \in Nat
                            /\ query[q].got # None => query[q].got \in Nat
  BY <1>t, CacheAssumption DEF CacheTypeOK, Versions, Optional, CachedZone
<1> USE DEF VersionOrder, StoredIsNewest, FlightIsNewer, CacheIsServed, FloorIsServed,
            MonotoneReads, HasRead
<1>1. CASE Write
  <2>1. stored'.labels \in {stored.labels, stored.labels + 1}
    BY <1>1, <1>t DEF Write, CacheTypeOK
  <2> QED
    BY <1>1, <2>1, <1>t, <1>n DEF Write
<1>2. CASE Reconnect
  BY <1>2, <1>t DEF Reconnect
<1>3. CASE OnMessage \/ Evict
  BY <1>3, <1>t DEF OnMessage, Evict
<1>4. ASSUME NEW q \in Queries, Get(q) PROVE VersionOrder' /\ MonotoneReads'
  <2>1. CASE cache # None /\ cache.fresh
    <3>1. served' = cache.labels
      BY <1>4, <2>1, <1>t, <1>n DEF Get, Newest
    <3>2. query' = [query EXCEPT ![q] = [pc |-> "idle", old |-> None, floor |-> served,
                                          got |-> cache.labels]]
      BY <1>4, <2>1 DEF Get, Return
    <3>3. query \in [Queries -> [pc : {"idle", "miss", "wait"}, old : Optional(CachedZone),
                                 floor : Versions, got : Optional(Versions)]]
      BY <1>t DEF CacheTypeOK
    <3>4. \A r \in Queries \ {q} : query'[r] = query[r]
      BY <3>2, <3>3
    <3>5. query'[q].floor = served /\ query'[q].old = None /\ query'[q].got = cache.labels
      BY <3>2, <3>3
    <3>6. FloorIsServed' /\ MonotoneReads'
      BY <2>1, <3>1, <3>4, <3>5, <1>t, <1>n
    <3> QED
      BY <1>4, <2>1, <3>1, <3>6, <1>t, <1>n DEF Get
  <2>2. CASE ~ (cache # None /\ cache.fresh)
    <3>1. query' = [query EXCEPT ![q] = [pc |-> "miss", old |-> cache, floor |-> served,
                                          got |-> None]]
      BY <1>4, <2>2 DEF Get
    <3>2. query \in [Queries -> [pc : {"idle", "miss", "wait"}, old : Optional(CachedZone),
                                 floor : Versions, got : Optional(Versions)]]
      BY <1>t DEF CacheTypeOK
    <3>3. \A r \in Queries \ {q} : query'[r] = query[r]
      BY <3>1, <3>2
    <3>4. query'[q].floor = served /\ query'[q].old = cache /\ query'[q].got = None
      BY <3>1, <3>2
    <3>5. UNCHANGED <<stored, cache, flight, served>>
      BY <1>4, <2>2 DEF Get
    <3> QED
      BY <3>3, <3>4, <3>5, <1>t, <1>n
  <2> QED
    BY <2>1, <2>2
<1>5. ASSUME NEW q \in Queries, Do(q) PROVE VersionOrder' /\ MonotoneReads'
  <2>1. \A r \in Queries : /\ query'[r].floor = query[r].floor
                           /\ query'[r].old = query[r].old
                           /\ query'[r].got = query[r].got
    BY <1>5, <1>t DEF Do, CacheTypeOK
  <2>2. \/ flight' = flight
        \/ flight'.pc = "labels" /\ flight'.labels = 0
    BY <1>5 DEF Do, NoFlight
  <2>3. UNCHANGED <<stored, cache, served>>
    BY <1>5 DEF Do
  <2>4. FloorIsServed' /\ MonotoneReads'
    BY <2>1, <2>3, <1>t
  <2>5. StoredIsNewest' /\ FlightIsNewer' /\ CacheIsServed'
    BY <2>2, <2>3, <1>t, <1>n
  <2> QED
    BY <2>4, <2>5
<1>6. CASE ReadLabels
  <2>1. flight'.pc = "config" /\ flight'.labels = stored.labels
    BY <1>6, <1>t DEF ReadLabels, CacheTypeOK
  <2> QED
    BY <1>6, <2>1, <1>t, <1>n DEF ReadLabels
<1>7. CASE ReadConfig \/ ReadConfigFails
  <2>1. flight.pc = "config" /\ flight'.pc = "store" /\ flight'.labels = flight.labels
    BY <1>7, <1>t DEF ReadConfig, ReadConfigFails, CacheTypeOK
  <2> QED
    BY <1>7, <2>1, <1>t DEF ReadConfig, ReadConfigFails
<1>8. CASE SetCache
  <2>1. flight.pc = "store" /\ flight'.pc = "return" /\ flight'.labels = flight.labels
    BY <1>8, <1>t DEF SetCache, CacheTypeOK
  <2>2. cache' # None => cache'.labels = flight.labels
    BY <1>8 DEF SetCache, Entry
  <2> QED
    BY <1>8, <2>1, <2>2, <1>t, <1>n DEF SetCache
<1>9. CASE Answer
  <2>1. flight.pc = "return" /\ flight'.pc = "none" /\ flight'.labels = 0
    BY <1>9 DEF Answer, NoFlight
  <2>2. served' = flight.labels
    BY <1>9, <2>1, <1>t, <1>n DEF Answer, Newest
  <2>3. \A q \in Queries : \/ query'[q] = query[q]
                           \/ /\ query'[q].floor = query[q].floor
                              /\ query'[q].old = None
                              /\ query'[q].got = flight.labels
    BY <1>9 DEF Answer
  <2>4. FloorIsServed' /\ MonotoneReads'
    BY <2>1, <2>2, <2>3, <1>t, <1>n
  <2> QED
    BY <1>9, <2>1, <2>2, <2>4, <1>t, <1>n DEF Answer
<1>10. CASE ReadLabelsFails
  <2>1. flight'.pc = "none" /\ flight'.labels = 0
    BY <1>10 DEF ReadLabelsFails, NoFlight
  <2>2. \A q \in Queries : \/ query'[q] = query[q]
                           \/ /\ query'[q].floor = query[q].floor
                              /\ query'[q].old = None
                              /\ query'[q].got = IF query[q].old = None THEN None
                                                 ELSE query[q].old.labels
    BY <1>10 DEF ReadLabelsFails
  <2>3. FloorIsServed' /\ MonotoneReads'
    BY <1>10, <2>2, <1>t, <1>n DEF ReadLabelsFails
  <2> QED
    BY <1>10, <2>1, <2>3, <1>t, <1>n DEF ReadLabelsFails
<1>11. CASE Expire
  <2>1. cache # None /\ cache'.labels = cache.labels
    BY <1>11, <1>t DEF Expire, CacheTypeOK, Optional, CachedZone
  <2> QED
    BY <1>11, <2>1, <1>t DEF Expire
<1>12. CASE UNCHANGED vars
  BY <1>12, <1>t DEF vars
<1> QED
  BY <1>1, <1>2, <1>3, <1>4, <1>5, <1>6, <1>7, <1>8, <1>9, <1>10, <1>11, <1>12
  DEF Next, Call, Failure

-----------------------------------------------------------------------------
(* The ordering of versions is an invariant of the cache, whatever fails.  *)
THEOREM CacheInvariance == Spec => []CacheInv
<1>1. CacheInv /\ [Next]_vars => CacheInv'
  BY CacheTypeNext, VersionOrderNext DEF CacheInv
<1> QED
  BY CacheInvInit, <1>1, PTL DEF Spec

(* GetZone never returns an older zone than one that was returned before   *)
(* the query began, for any number of concurrent queries and writes.       *)
THEOREM GetZoneMonotone == Spec => []MonotoneReads
<1>1. CacheInv => MonotoneReads
  BY DEF CacheInv
<1> QED
  BY <1>1, CacheInvariance, PTL
=============================================================================

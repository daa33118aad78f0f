--------------------------- MODULE ZoneListProofs --------------------------
(***************************************************************************)
(* For any number of writes, lost connections and failed loads: the list   *)
(* of zones a resolver matches queries with only moves forward.            *)
(***************************************************************************)
EXTENDS ZoneList, TLAPS

(* The reload loop is the only writer of the list: what it has read and    *)
(* not yet stored is at least as new as the list, and the list is never    *)
(* newer than the key.                                                     *)
LoadedInOrder ==
    /\ zones <= stored
    /\ loop.pc = "store" => zones <= loop.loaded /\ loop.loaded <= stored

ListInv == ListTypeOK /\ LoadedInOrder

LoopType == [pc : {"wait", "load", "store", "unset", "gone"}, loaded : 0..MaxWrites]

(* The first list is no newer than the key.                                *)
LEMMA InitInv == Init => ListInv
<1> SUFFICES ASSUME Init PROVE ListInv
  OBVIOUS
<1>1. sub \in SubscriptionType
  BY DEF Init, Unsubscribed, SubscriptionType
<1>2. 0 \in 0..MaxWrites /\ zones <= stored /\ zones \in 0..MaxWrites
  BY ListAssumption DEF Init
<1> QED BY <1>1, <1>2 DEF Init, ListInv, ListTypeOK, LoadedInOrder

(* The subscription's own steps keep its type.                             *)
LEMMA SubscriptionSteps ==
    ASSUME sub \in SubscriptionType,
           \/ Notify(1) \/ Connect \/ Activate \/ BeginReceive \/ Receive \/ Disconnect
           \/ sub' = Unsubscribed \/ sub' = sub
    PROVE  sub' \in SubscriptionType
<1>1. CASE Notify(1)
  BY <1>1 DEF Notify, SubscriptionType
<1>2. CASE Connect \/ Activate \/ BeginReceive
  BY <1>2 DEF Connect, Activate, BeginReceive, SubscriptionType
<1>3. CASE Receive
  BY <1>3 DEF Receive, SubscriptionType
<1>4. CASE Disconnect \/ sub' = Unsubscribed \/ sub' = sub
  <2>1. Unsubscribed \in SubscriptionType
    BY DEF Unsubscribed, SubscriptionType
  <2> QED BY <1>4, <2>1 DEF Disconnect
<1> QED BY <1>1, <1>2, <1>3, <1>4

(* Writing the key, notifications and the steps of ShutDown.               *)
LEMMA OutsideSteps ==
    ASSUME ListInv,
           \/ Write \/ Reconnect \/ OnStart \/ OnMessage \/ ForcedReload
           \/ ShutDown \/ SubscriberQuits \/ SubscriberDone
    PROVE  ListInv' /\ zones' = zones
<1>1. sub \in SubscriptionType /\ loop \in LoopType /\ stored \in 0..MaxWrites
  BY DEF ListInv, ListTypeOK, LoopType
<1>2. sub' \in SubscriptionType
  BY <1>1, SubscriptionSteps
  DEF Write, Reconnect, OnStart, OnMessage, ForcedReload, ShutDown, SubscriberQuits, SubscriberDone
<1>3. loop' = loop /\ zones' = zones
  BY DEF Write, Reconnect, OnStart, OnMessage, ForcedReload, ShutDown, SubscriberQuits, SubscriberDone
<1>4. stored' \in 0..MaxWrites /\ stored <= stored'
  BY <1>1, ListAssumption
  DEF Write, Reconnect, OnStart, OnMessage, ForcedReload, ShutDown, SubscriberQuits, SubscriberDone
<1>5. modified' \in BOOLEAN
  BY DEF ListInv, ListTypeOK, Write, Reconnect, OnStart, OnMessage, ForcedReload, ShutDown,
         SubscriberQuits, SubscriberDone
<1>6. quit' \in {"no", "closed", "told", "waiting", "stuck", "done"}
  BY DEF ListInv, ListTypeOK, Write, Reconnect, OnStart, OnMessage, ForcedReload, ShutDown,
         SubscriberQuits, SubscriberDone
<1>7. ListTypeOK'
  BY <1>2, <1>3, <1>4, <1>5, <1>6 DEF ListInv, ListTypeOK
<1>8. LoadedInOrder'
  BY <1>1, <1>3, <1>4 DEF ListInv, ListTypeOK, LoadedInOrder, LoopType
<1> QED BY <1>3, <1>7, <1>8 DEF ListInv

(* The steps of the loop: only StoreZones writes the list, with what       *)
(* LoadZones read after the last time it did.                              *)
LEMMA LoopSteps ==
    ASSUME ListInv,
           \/ ReloadTick \/ LoadZones \/ LoadZonesFails \/ StoreZones \/ UnSet \/ LoopQuit
    PROVE  ListInv' /\ zones' >= zones
<1>1. loop \in LoopType /\ stored \in 0..MaxWrites /\ zones \in 0..MaxWrites
  BY DEF ListInv, ListTypeOK, LoopType
<1>2. sub' = sub /\ stored' = stored
  BY DEF ReloadTick, LoadZones, LoadZonesFails, StoreZones, UnSet, LoopQuit
<1>3. /\ modified' \in BOOLEAN
      /\ quit' \in {"no", "closed", "told", "waiting", "stuck", "done"}
  BY DEF ListInv, ListTypeOK, ReloadTick, LoadZones, LoadZonesFails, StoreZones, UnSet, LoopQuit
<1>4. CASE StoreZones
  <2>1. zones' = loop.loaded /\ zones <= loop.loaded /\ loop.loaded <= stored
    BY <1>4 DEF StoreZones, ListInv, LoadedInOrder
  <2>2. loop' \in LoopType /\ loop'.pc = "unset"
    BY <1>1, <1>4 DEF StoreZones, LoopType
  <2>3. zones' \in 0..MaxWrites /\ zones' >= zones
    BY <1>1, <2>1 DEF LoopType
  <2> QED BY <1>2, <1>3, <2>1, <2>2, <2>3 DEF ListInv, ListTypeOK, LoadedInOrder, LoopType
<1>5. CASE LoadZones
  <2>1. loop' = [pc |-> "store", loaded |-> stored] /\ zones' = zones
    BY <1>5 DEF LoadZones
  <2>2. loop' \in LoopType /\ loop'.loaded = stored
    BY <1>1, <2>1 DEF LoopType
  <2> QED BY <1>1, <1>2, <1>3, <2>1, <2>2 DEF ListInv, ListTypeOK, LoadedInOrder, LoopType
<1>6. CASE ReloadTick \/ LoadZonesFails \/ UnSet \/ LoopQuit
  <2>1. loop' \in LoopType /\ loop'.pc # "store" /\ zones' = zones
    BY <1>1, <1>6 DEF ReloadTick, LoadZonesFails, UnSet, LoopQuit, LoopType
  <2> QED BY <1>1, <1>2, <1>3, <2>1 DEF ListInv, ListTypeOK, LoadedInOrder, LoopType
<1> QED BY <1>4, <1>5, <1>6

(* Every step keeps the invariant and moves the list forward or not at     *)
(* all.                                                                    *)
LEMMA NextInv == ListInv /\ [Next]_vars => ListInv' /\ [zones' >= zones]_vars
<1>1. ASSUME ListInv, UNCHANGED vars PROVE ListInv'
  BY <1>1 DEF vars, ListInv, ListTypeOK, LoadedInOrder
<1>2. ASSUME ListInv, Next PROVE ListInv' /\ zones' >= zones
  <2>1. zones \in Nat
    BY <1>2 DEF ListInv, ListTypeOK
  <2> QED BY <1>2, <2>1, OutsideSteps, LoopSteps DEF Next
<1> QED BY <1>1, <1>2

(* The loop and the subscription keep their types, and what was loaded is  *)
(* never older than the list.                                              *)
THEOREM ListInvariance == Spec => []ListInv
BY InitInv, NextInv, PTL DEF Spec

(* The list is never replaced by an older one, whatever notifications,     *)
(* failures and reloads come between.                                      *)
THEOREM ListMovesForward == Spec => ListNeverOlder
BY ListInvariance, NextInv, PTL DEF Spec, ListNeverOlder
=============================================================================

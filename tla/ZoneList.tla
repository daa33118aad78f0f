----------------------------- MODULE ZoneList -----------------------------
(***************************************************************************)
(* The list of zones in a resolver: the goroutine of DataHandler.Start     *)
(* that reloads it when the subscription to "z42:zones" has set a flag     *)
(* (internal/storage/data_handler.go).  The content of the key is the      *)
(* number of times it was written.                                         *)
(***************************************************************************)
EXTENDS Subscription

CONSTANT MaxWrites      \* bound on the writes to the key

ASSUME ListAssumption == MaxWrites \in Nat

VARIABLES
    stored,     \* Redis: the version of the key
    loop,       \* the reload loop: pc and the version it has read
    modified,   \* the flag
    zones,      \* dh.zones: the version queries are matched with
    quit        \* how far ShutDown has come

vars == <<sub, stored, loop, modified, zones, quit>>

(* Start has called LoadZones, which may have failed and left the list     *)
(* empty (0).                                                              *)
Init ==
    /\ sub = Unsubscribed
    /\ stored \in 0..MaxWrites
    /\ loop = [pc |-> "wait", loaded |-> 0]
    /\ modified = FALSE
    /\ zones \in {0, stored}
    /\ quit = "no"

(* The zone updater adds a zone to the set or removes one.                 *)
Write ==
    /\ stored < MaxWrites
    /\ stored' = stored + 1
    /\ Notify(1)
    /\ UNCHANGED <<loop, modified, zones, quit>>

(* SubscribeEvent's own loop opens connections until it has taken the      *)
(* request to quit.                                                        *)
Reconnect ==
    /\ \/ Activate
       \/ quit \in {"no", "closed", "told"} /\ (Connect \/ Disconnect)
    /\ UNCHANGED <<stored, loop, modified, zones, quit>>

OnStart ==
    /\ BeginReceive
    /\ modified' = TRUE
    /\ UNCHANGED <<stored, loop, zones, quit>>

OnMessage ==
    /\ Receive
    /\ modified' = TRUE
    /\ UNCHANGED <<stored, loop, zones, quit>>

-----------------------------------------------------------------------------
(* The select loop.                                                        *)

(* reloadTicker, with modified set.                                        *)
ReloadTick ==
    /\ loop.pc = "wait"
    /\ modified
    /\ loop' = [loop EXCEPT !.pc = "load"]
    /\ UNCHANGED <<sub, stored, modified, zones, quit>>

(* LoadZones: SMEMBERS, then dh.zones.Store.                               *)
LoadZones ==
    /\ loop.pc = "load"
    /\ loop' = [pc |-> "store", loaded |-> stored]
    /\ UNCHANGED <<sub, stored, modified, zones, quit>>

(* Mutant: the error is not looked at and an empty list is stored.         *)
LoadZonesFailsUnnoticed ==
    /\ loop.pc = "load"
    /\ loop' = [pc |-> "store", loaded |-> 0]
    /\ UNCHANGED <<sub, stored, modified, zones, quit>>

(* An error leaves the list as it is.                                      *)
LoadZonesFails ==
    /\ loop.pc = "load"
    /\ loop' = [loop EXCEPT !.pc = "unset"]
    /\ UNCHANGED <<sub, stored, modified, zones, quit>>

StoreZones ==
    /\ loop.pc = "store"
    /\ zones' = loop.loaded
    /\ loop' = [loop EXCEPT !.pc = "unset"]
    /\ UNCHANGED <<sub, stored, modified, quit>>

(* modified.UnSet, whatever has been notified since and even if the load   *)
(* failed.                                                                 *)
UnSet ==
    /\ loop.pc = "unset"
    /\ modified' = FALSE
    /\ loop' = [loop EXCEPT !.pc = "wait"]
    /\ UNCHANGED <<sub, stored, zones, quit>>

(* Mutant: there is no forced reload.                                      *)
NoForcedReload == loop.pc = "wait" /\ UNCHANGED vars

(* forceReloadTicker.                                                      *)
ForcedReload ==
    /\ loop.pc = "wait"
    /\ modified' = TRUE
    /\ UNCHANGED <<sub, stored, loop, zones, quit>>

-----------------------------------------------------------------------------
(* ShutDown: close(dh.quit), then quitWG.Wait.                             *)

ShutDown ==
    /\ quit = "no"
    /\ quit' = "closed"
    /\ UNCHANGED <<sub, stored, loop, modified, zones>>

(* Mutant: the loop returns without a word to the subscriber.              *)
LoopQuitsAlone ==
    /\ loop.pc = "wait"
    /\ quit = "closed"
    /\ loop' = [loop EXCEPT !.pc = "gone"]
    /\ UNCHANGED <<sub, stored, modified, zones, quit>>

(* The loop sees dh.quit, hands the WaitGroup to the subscriber through a  *)
(* buffered channel and returns.                                           *)
LoopQuit ==
    /\ loop.pc = "wait"
    /\ quit = "closed"
    /\ loop' = [loop EXCEPT !.pc = "gone"]
    /\ quit' = "told"
    /\ UNCHANGED <<sub, stored, modified, zones>>

(* SubscribeEvent unsubscribes if it has a connection and waits for the    *)
(* receiver in either case: without one, nobody ever writes to done.       *)
SubscriberQuits ==
    /\ quit = "told"
    /\ quit' = IF sub.client = "down" THEN "stuck" ELSE "waiting"
    /\ UNCHANGED <<sub, stored, loop, modified, zones>>

(* The receiver ends, by the reply to PUNSUBSCRIBE or by an error.         *)
SubscriberDone ==
    /\ quit = "waiting"
    /\ sub.client = "receiving"
    /\ sub' = Unsubscribed
    /\ quit' = "done"
    /\ UNCHANGED <<stored, loop, modified, zones>>

Next ==
    \/ Write
    \/ Reconnect \/ OnStart \/ OnMessage
    \/ ReloadTick \/ LoadZones \/ LoadZonesFails \/ StoreZones \/ UnSet
    \/ ForcedReload
    \/ ShutDown \/ LoopQuit \/ SubscriberQuits \/ SubscriberDone

Spec == Init /\ [][Next]_vars

(***************************************************************************)
(* The loop's tickers fire, its steps are taken, and Redis answers from    *)
(* some point on.  Nothing is assumed of connections.  A select that finds *)
(* dh.quit closed time after time takes it (strong fairness), and the      *)
(* goroutines of the subscriber run.                                       *)
(***************************************************************************)
ListLiveSpec ==
    /\ Spec
    /\ WF_vars(ReloadTick) /\ WF_vars(LoadZones) /\ WF_vars(StoreZones)
    /\ WF_vars(UnSet) /\ WF_vars(ForcedReload)
    /\ <>[][~ LoadZonesFails]_vars
    /\ SF_vars(LoopQuit) /\ WF_vars(SubscriberQuits)
    /\ WF_vars(OnStart) /\ WF_vars(SubscriberDone)

-----------------------------------------------------------------------------
(* The loop's state and the subscription have their types: no message is   *)
(* received that was not sent.                                             *)
ListTypeOK ==
    /\ sub \in SubscriptionType
    /\ stored \in 0..MaxWrites
    /\ loop \in [pc : {"wait", "load", "store", "unset", "gone"}, loaded : 0..MaxWrites]
    /\ modified \in BOOLEAN
    /\ zones \in 0..MaxWrites
    /\ quit \in {"no", "closed", "told", "waiting", "stuck", "done"}

(* Every change of the zone list reaches the queries in the end, also when *)
(* its notification is lost or wiped out by UnSet, unless the resolver is  *)
(* shut down.                                                              *)
ListEventuallyCurrent ==
    \A v \in 1..MaxWrites : (stored >= v) ~> (zones >= v \/ quit # "no")

(* A zone that was served and is still listed is never dropped by a late   *)
(* reload: the list only moves forward.                                    *)
ListNeverOlder == [][zones' >= zones]_vars

(* ShutDown returns, wherever the loop and the subscriber are when it is   *)
(* called, unless the subscriber is between two connections when it takes  *)
(* the request: then it waits for a receiver that does not exist.          *)
StopsWhenConnected ==
    (quit # "no") ~> (quit = "done" \/ (quit = "stuck" /\ sub.client = "down"))
=============================================================================

---------------------------- MODULE HealthCheck ---------------------------
(***************************************************************************)
(* internal/healthcheck with the items internal/storage keeps in Redis for *)
(* it: Transfer copies the health check configuration of the records into  *)
(* items, the loop of Start queues the items that are due, the workers     *)
(* check them and write them back, ShutDown stops all of them.             *)
(*                                                                         *)
(* An item (one per host and address) is its status, the part of its       *)
(* configuration that matters here, whether checkInterval has passed since *)
(* LastCheck, and whether its key has a time to live.                      *)
(***************************************************************************)
EXTENDS JobPool, Integers

CONSTANTS
    Keys,           \* hosts and addresses records may have; at a time there may be none
    Dead,           \* those whose address never answers
    Configs,        \* health check configurations of records
    MaxChanges      \* bound on the changes of records

(* listed: there is such a location in a zone.  Only there a check is on.  *)
ConfigType == [listed : BOOLEAN, enable : BOOLEAN, protocol : {"http", "other"}, up : Nat, down : Int]

ASSUME HealthAssumption ==
    /\ Keys # {} /\ Dead \subseteq Keys
    /\ Configs \subseteq ConfigType /\ \A c \in Configs : c.enable => c.listed
    /\ MaxChanges \in Nat

VARIABLES
    record,     \* the configuration in the records
    changes,    \* changes of records so far
    items,      \* Redis: z42:healthcheck:*
    check,      \* per job: the item to be checked, as it was read
    loop,       \* the loop of Start: pc and the keys it goes through
    transfer,   \* Transfer: pc, the locations left in this pass, its variables
    life        \* of the checker: running, then the steps of ShutDown

itemVars == <<record, changes, items>>
vars == <<jobVars, itemVars, check, loop, transfer, life>>

NoItem == [present |-> FALSE, protocol |-> "http", up |-> 0, down |-> 0,
           status |-> 0, due |-> FALSE, ttl |-> FALSE]

ItemType == [present : BOOLEAN, protocol : {"http", "other"}, up : Nat, down : Int,
             status : Int, due : BOOLEAN, ttl : BOOLEAN]

(* The item Transfer makes of a record: never checked, hence due.          *)
NewItem(c) == [present |-> TRUE, protocol |-> c.protocol, up |-> c.up, down |-> c.down,
               status |-> 0, due |-> TRUE, ttl |-> FALSE]

NoCheck == [key |-> CHOOSE k \in Keys : TRUE, item |-> NoItem]

(* Transfer between two locations.                                         *)
Between(pc, left) == [pc |-> pc, left |-> left, key |-> CHOOSE k \in Keys : TRUE,
                      cfg |-> CHOOSE c \in Configs : TRUE]

Init ==
    /\ JobPoolInit
    /\ record \in [Keys -> Configs]
    /\ changes = 0
    /\ items = [k \in Keys |-> NoItem]
    /\ check = [j \in Jobs |-> NoCheck]
    /\ loop = [pc |-> "new", keys |-> {}]
    /\ transfer = Between("new", {})
    /\ life = "running"

(* Start runs the dispatcher and Transfer, then enters its loop.           *)
Start ==
    /\ OpenPool
    /\ loop' = [loop EXCEPT !.pc = "keys"]
    /\ transfer' = [transfer EXCEPT !.pc = "next"]
    /\ UNCHANGED <<itemVars, check, life>>

-----------------------------------------------------------------------------
(* The records and Redis' own clock.                                       *)

UpdateRecord(k, c) ==
    /\ changes < MaxChanges
    /\ record[k] # c
    /\ record' = [record EXCEPT ![k] = c]
    /\ changes' = changes + 1
    /\ UNCHANGED <<jobVars, items, check, loop, transfer, life>>

(* checkInterval passes.                                                   *)
Elapse(k) ==
    /\ items[k].present /\ ~ items[k].due
    /\ items' = [items EXCEPT ![k].due = TRUE]
    /\ UNCHANGED <<jobVars, record, changes, check, loop, transfer, life>>

(* updateInterval passes without a refresh.                                *)
Expire(k) ==
    /\ items[k].ttl
    /\ items' = [items EXCEPT ![k] = NoItem]
    /\ UNCHANGED <<jobVars, record, changes, check, loop, transfer, life>>

-----------------------------------------------------------------------------
(* Access to the items: GET turns a positive down count into a negative    *)
(* one, SET writes the whole item and drops its time to live.              *)

NormalDown(d) == IF d > 0 THEN -d ELSE d

GetHealthcheckItem(k) ==
    [items[k] EXCEPT !.down = NormalDown(@), !.due = FALSE, !.ttl = FALSE]

SetHealthcheckItem(k, item) == items' = [items EXCEPT ![k] = item]

(* Mutant: an item that exists is never replaced.                          *)
KeepItem(item, c) == item.present

ItemsEqual(item, c) ==
    item.present /\ item.protocol = c.protocol /\ item.up = c.up /\ item.down = c.down

-----------------------------------------------------------------------------
(* Transfer goes through the locations again and again.  With none at all  *)
(* it lists them again at once, and does nothing else.                     *)

Locations == {k \in Keys : record[k].listed}

(* The locations left in this pass, or those of the next one.              *)
Pass == IF transfer.left = {} THEN Locations ELSE transfer.left

(* A location: its records are read, unless the reads fail.                *)
TransferLocation(k) ==
    /\ transfer.pc = "next"
    /\ k \in Pass
    /\ transfer' = IF record[k].enable
                   THEN [pc |-> "get", left |-> Pass \ {k}, key |-> k, cfg |-> record[k]]
                   ELSE Between("next", Pass \ {k})
    /\ UNCHANGED <<jobVars, itemVars, check, loop, life>>

TransferGet ==
    /\ transfer.pc = "get"
    /\ transfer' = [transfer EXCEPT !.pc =
            IF ItemsEqual(GetHealthcheckItem(transfer.key), transfer.cfg)
            THEN "expire" ELSE "set"]
    /\ UNCHANGED <<jobVars, itemVars, check, loop, life>>

TransferSet ==
    /\ transfer.pc = "set"
    /\ SetHealthcheckItem(transfer.key, NewItem(transfer.cfg))
    /\ transfer' = [transfer EXCEPT !.pc = "expire"]
    /\ UNCHANGED <<jobVars, record, changes, check, loop, life>>

TransferExpire ==
    /\ transfer.pc = "expire"
    /\ items' = [items EXCEPT ![transfer.key].ttl = items[transfer.key].present]
    /\ transfer' = Between("next", transfer.left)
    /\ UNCHANGED <<jobVars, record, changes, check, loop, life>>

(* Redis fails: a location is skipped, an item that cannot be read is      *)
(* written anew, a write is not noticed to have failed.                    *)
TransferFails ==
    /\ \/ /\ transfer.pc = "next"
          /\ \E k \in Pass : transfer' = [transfer EXCEPT !.left = Pass \ {k}]
       \/ /\ transfer.pc = "get"
          /\ transfer' = [transfer EXCEPT !.pc = "set"]
       \/ /\ transfer.pc = "set"
          /\ transfer' = [transfer EXCEPT !.pc = "expire"]
       \/ /\ transfer.pc = "expire"
          /\ transfer' = Between("next", transfer.left)
    /\ UNCHANGED <<jobVars, itemVars, check, loop, life>>

(* h.quit is looked at before every location, and nowhere else.            *)
TransferQuit ==
    /\ transfer.pc = "next"
    /\ Pass # {}
    /\ life = "quit"
    /\ transfer' = [transfer EXCEPT !.pc = "done"]
    /\ UNCHANGED <<jobVars, itemVars, check, loop, life>>

-----------------------------------------------------------------------------
(* The loop of Start: the keys are listed before the wait for the tick,    *)
(* the items read after it.                                                *)

GetActiveHealthcheckItems ==
    /\ loop.pc = "keys"
    /\ loop' = [pc |-> "select", keys |-> {k \in Keys : items[k].present}]
    /\ UNCHANGED <<jobVars, itemVars, check, transfer, life>>

Tick ==
    /\ loop.pc = "select"
    /\ loop' = [loop EXCEPT !.pc = "items"]
    /\ UNCHANGED <<jobVars, itemVars, check, transfer, life>>

Idle == {j \in Jobs : job[j] = "none"}

QueueItem(k) ==
    /\ loop.pc = "items"
    /\ k \in loop.keys
    /\ loop' = [loop EXCEPT !.keys = @ \ {k}]
    /\ items[k].present /\ items[k].due
    /\ \E j \in Jobs :
          /\ QueueJob(j)
          /\ check' = [check EXCEPT ![j] = [key |-> k, item |-> GetHealthcheckItem(k)]]
    /\ UNCHANGED <<itemVars, transfer, life>>

(* An item that is gone, was checked lately, or finds no slot.             *)
SkipItem(k) ==
    /\ loop.pc = "items"
    /\ k \in loop.keys
    /\ items[k].present /\ items[k].due => Idle = {}
    /\ loop' = [loop EXCEPT !.keys = @ \ {k}]
    /\ UNCHANGED <<jobVars, itemVars, check, transfer, life>>

ItemsDone ==
    /\ loop.pc = "items"
    /\ loop.keys = {}
    /\ loop' = [loop EXCEPT !.pc = "keys"]
    /\ UNCHANGED <<jobVars, itemVars, check, transfer, life>>

(* The list or an item cannot be read.                                     *)
LoopFails ==
    /\ \/ /\ loop.pc = "keys"
          /\ loop' = [pc |-> "select", keys |-> {}]
       \/ /\ loop.pc = "items"
          /\ \E k \in loop.keys : loop' = [loop EXCEPT !.keys = @ \ {k}]
    /\ UNCHANGED <<jobVars, itemVars, check, transfer, life>>

LoopQuit ==
    /\ loop.pc = "select"
    /\ life = "quit"
    /\ loop' = [loop EXCEPT !.pc = "done"]
    /\ UNCHANGED <<jobVars, itemVars, check, transfer, life>>

-----------------------------------------------------------------------------
(* The handler: check the address, count, write the item back.             *)

statusDown(s, down) ==
    IF s <= 0 THEN (IF s - 1 < down THEN down ELSE s - 1) ELSE -1

statusUp(s, up) ==
    IF s >= 0 THEN (IF s + 1 > up THEN up ELSE s + 1) ELSE 1

(* What httpCheck and pingCheck can find; another protocol is not checked  *)
(* and counts as success.                                                  *)
Outcomes(k, protocol) ==
    IF protocol = "other" THEN {TRUE} ELSE IF k \in Dead THEN {FALSE} ELSE BOOLEAN

Checked(item, ok) ==
    [item EXCEPT !.status = IF ok THEN statusUp(@, item.up) ELSE statusDown(@, item.down)]

(* Mutant: only the counters are written, into whatever item is there.     *)
HandleIntoPresentItem(j) ==
    LET c == check[j] IN
    /\ EndJob(j)
    /\ \E ok \in Outcomes(c.key, c.item.protocol) :
          items' = [items EXCEPT ![c.key].status = Checked(c.item, ok).status]
    /\ check' = [check EXCEPT ![j] = NoCheck]
    /\ UNCHANGED <<record, changes, loop, transfer, life>>

HandleHealthCheck(j) ==
    LET c == check[j] IN
    /\ EndJob(j)
    /\ \E ok \in Outcomes(c.key, c.item.protocol) :
          SetHealthcheckItem(c.key, Checked(c.item, ok))
    /\ check' = [check EXCEPT ![j] = NoCheck]
    /\ UNCHANGED <<record, changes, loop, transfer, life>>

(* The SET fails: the result is lost.                                      *)
HandleFails(j) ==
    /\ EndJob(j)
    /\ check' = [check EXCEPT ![j] = NoCheck]
    /\ UNCHANGED <<itemVars, loop, transfer, life>>

-----------------------------------------------------------------------------
(* ShutDown: Stop and wait, then close h.quit and wait for both loops,     *)
(* whether or not Start was called.                                        *)

BeginShutDown ==
    /\ life = "running"
    /\ ClosePool
    /\ life' = "stop"
    /\ UNCHANGED <<itemVars, check, loop, transfer>>

(* Mutant: h.quit is closed only when both loops have ended.               *)
CloseQuitLate ==
    /\ life = "stop"
    /\ pool.closed
    /\ loop.pc = "done" /\ transfer.pc = "done"
    /\ life' = "quit"
    /\ UNCHANGED <<jobVars, itemVars, check, loop, transfer>>

CloseQuit ==
    /\ life = "stop"
    /\ pool.closed
    /\ life' = "quit"
    /\ UNCHANGED <<jobVars, itemVars, check, loop, transfer>>

EndShutDown ==
    /\ life = "quit"
    /\ loop.pc = "done" /\ transfer.pc = "done"
    /\ life' = "down"
    /\ UNCHANGED <<jobVars, itemVars, check, loop, transfer>>

-----------------------------------------------------------------------------
TransferStep ==
    TransferGet \/ TransferSet \/ TransferExpire \/ TransferQuit
    \/ \E k \in Keys : TransferLocation(k)

LoopStep ==
    GetActiveHealthcheckItems \/ Tick \/ ItemsDone \/ LoopQuit
    \/ \E k \in Keys : QueueItem(k) \/ SkipItem(k)

(* The pool's own steps.                                                   *)
PoolBegins(j) == BeginJob(j) /\ UNCHANGED <<itemVars, check, loop, transfer, life>>

PoolEnds == PoolClosed /\ UNCHANGED <<itemVars, check, loop, transfer, life>>

RedisFails == TransferFails \/ LoopFails \/ \E j \in Jobs : HandleFails(j)

(* The steps in which Redis answers and a closing pool begins no job.      *)
Works ==
    \/ Start
    \/ \E k \in Keys : Elapse(k) \/ Expire(k) \/ \E c \in Configs : UpdateRecord(k, c)
    \/ TransferStep \/ LoopStep \/ PoolEnds
    \/ \E j \in Jobs : (PoolBegins(j) /\ ~ pool.quit) \/ HandleHealthCheck(j)
    \/ BeginShutDown \/ CloseQuit \/ EndShutDown

Next == Works \/ RedisFails \/ \E j \in Jobs : PoolBegins(j)

Spec == Init /\ [][Next]_vars

(***************************************************************************)
(* Goroutines run, tickers fire, checks time out, a select between quit    *)
(* and a tick is random, and Redis answers from some point on.  Of the     *)
(* pool only what JobPool promises: EveryJobBegins, and ClosingEnds, hence *)
(* that a closing pool begins no job from some point on.  Nothing says     *)
(* that Start is called: cmd/healthchecker never does.                     *)
(***************************************************************************)
HealthFairSpec ==
    /\ Spec
    /\ WF_vars(TransferStep) /\ WF_vars(LoopStep)
    /\ SF_vars(TransferQuit) /\ SF_vars(LoopQuit)
    /\ \A j \in Jobs : WF_vars(PoolBegins(j) /\ ~ pool.quit)
    /\ WF_vars(PoolEnds)
    /\ \A j \in Jobs : WF_vars(HandleHealthCheck(j))
    /\ WF_vars(CloseQuit) /\ WF_vars(EndShutDown)
    /\ <>[][Works]_vars

-----------------------------------------------------------------------------
HealthTypeOK ==
    /\ JobPoolType
    /\ record \in [Keys -> Configs]
    /\ changes \in 0..MaxChanges
    /\ items \in [Keys -> ItemType]
    /\ check \in [Jobs -> [key : Keys, item : ItemType]]
    /\ loop \in [pc : {"new", "keys", "select", "items", "done"}, keys : SUBSET Keys]
    /\ transfer \in [pc : {"new", "next", "get", "set", "expire", "done"},
                     left : SUBSET Keys, key : Keys, cfg : Configs]
    /\ life \in {"running", "stop", "quit", "down"}

Coherent(k, item) ==
    /\ item.status <= (IF item.up < 1 THEN 1 ELSE item.up)
    /\ item.status >= (IF NormalDown(item.down) > -1 THEN -1 ELSE NormalDown(item.down))
    /\ k \in Dead /\ item.protocol = "http" => item.status <= 0

(* An item's status always belongs to the configuration stored with it: it *)
(* lies between that configuration's counts and counts no check made with  *)
(* another protocol, although Transfer replaces items while old copies of  *)
(* them are being checked.                                                 *)
StatusFitsItem ==
    /\ \A k \in Keys : Coherent(k, items[k])
    /\ \A j \in Jobs : Coherent(check[j].key, check[j].item)

Current(k) ==
    record[k].enable => /\ items[k].present /\ items[k].protocol = record[k].protocol
                        /\ items[k].up = record[k].up
                        /\ NormalDown(items[k].down) = NormalDown(record[k].down)

(* Once Start is called, a changed configuration reaches the item again    *)
(* and again, although a check that began before can put the old one back. *)
ItemsFollowRecords == \A k \in Keys : []<>(Current(k) \/ life # "running" \/ ~ pool.run)

(* ShutDown returns (the pool's workers finish their checks and both loops *)
(* see h.quit) on two conditions.  Start is called before or meanwhile:    *)
(* otherwise the dispatcher that should answer Stop is not there, and that *)
(* is how cmd/healthchecker uses it.  And there are locations: Transfer    *)
(* looks at h.quit only when it comes to one (healthcheck.go:332), so that *)
(* without any it goes round for ever and ShutDown waits for it.           *)
ShutDownCompletes ==
    <>pool.run /\ []<>(Locations # {}) => (life = "stop" ~> life = "down")
=============================================================================

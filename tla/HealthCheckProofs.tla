-------------------------- MODULE HealthCheckProofs ------------------------
(***************************************************************************)
(* For any addresses, configurations and number of checks under way at     *)
(* once: an item's status belongs to the configuration stored with it.     *)
(***************************************************************************)
EXTENDS HealthCheck, TLAPS

(* What is being checked has been read by GetHealthcheckItem, which makes  *)
(* its down count a negative one.  Without this a check could set the      *)
(* status of an address that does not answer to a positive number.         *)
ChecksNormal == \A j \in Jobs : check[j].item.down <= 0

HealthInv == HealthTypeOK /\ StatusFitsItem /\ ChecksNormal

CheckType == [key : Keys, item : ItemType]
LoopType == [pc : {"new", "keys", "select", "items", "done"}, keys : SUBSET Keys]
TransferType == [pc : {"new", "next", "get", "set", "expire", "done"},
                 left : SUBSET Keys, key : Keys, cfg : Configs]

-----------------------------------------------------------------------------
(* The defaults exist: there is an address, and it has a configuration.    *)
LEMMA Defaults ==
    /\ (CHOOSE k \in Keys : TRUE) \in Keys
    /\ Configs # {} => (CHOOSE c \in Configs : TRUE) \in Configs
BY HealthAssumption

(* A missing item, and one that Transfer makes of a record.                *)
LEMMA FreshItems ==
    /\ NoItem \in ItemType /\ \A k \in Keys : Coherent(k, NoItem)
    /\ NoCheck \in CheckType /\ NoCheck.key \in Keys /\ NoCheck.item = NoItem
    /\ NoItem.down = 0
    /\ \A c \in Configs : NewItem(c) \in ItemType /\ \A k \in Keys : Coherent(k, NewItem(c))
<1>1. NoItem \in ItemType /\ NoItem.down = 0
  BY DEF NoItem, ItemType
<1>2. \A k \in Keys : Coherent(k, NoItem)
  BY DEF NoItem, Coherent, NormalDown
<1>3. NoCheck \in CheckType /\ NoCheck.key \in Keys /\ NoCheck.item = NoItem
  BY <1>1, Defaults DEF NoCheck, CheckType
<1>4. \A c \in Configs : NewItem(c) \in ItemType
  BY HealthAssumption DEF NewItem, ItemType, ConfigType
<1>5. ASSUME NEW c \in Configs, NEW k \in Keys PROVE Coherent(k, NewItem(c))
  <2>1. /\ NewItem(c).status = 0 /\ NewItem(c).up \in Nat /\ NewItem(c).down \in Int
    BY HealthAssumption DEF NewItem, ConfigType
  <2> QED BY <2>1 DEF Coherent, NormalDown
<1> QED BY <1>1, <1>2, <1>3, <1>4, <1>5

(* Reading an item keeps its status and normalizes its down count.         *)
LEMMA ReadItem ==
    ASSUME HealthInv, NEW k \in Keys
    PROVE  /\ GetHealthcheckItem(k) \in ItemType /\ GetHealthcheckItem(k).down <= 0
           /\ Coherent(k, GetHealthcheckItem(k))
<1> DEFINE g == GetHealthcheckItem(k)
<1>1. items[k] \in ItemType /\ Coherent(k, items[k])
  BY DEF HealthInv, HealthTypeOK, StatusFitsItem
<1>2. NormalDown(items[k].down) \in Int /\ NormalDown(items[k].down) <= 0
      /\ NormalDown(NormalDown(items[k].down)) = NormalDown(items[k].down)
  BY <1>1 DEF NormalDown, ItemType
<1>3. /\ g \in ItemType
      /\ g.status = items[k].status /\ g.up = items[k].up /\ g.protocol = items[k].protocol
      /\ g.down = NormalDown(items[k].down)
  BY <1>1, <1>2 DEF GetHealthcheckItem, ItemType
<1> QED BY <1>1, <1>2, <1>3 DEF Coherent

(* A check counts up or down within the bounds of the configuration it was *)
(* made with, and never finds that an address answers that does not.       *)
LEMMA CheckedItem ==
    ASSUME NEW k \in Keys, NEW item \in ItemType, item.down <= 0, Coherent(k, item),
           NEW ok \in Outcomes(k, item.protocol)
    PROVE  Checked(item, ok) \in ItemType /\ Coherent(k, Checked(item, ok))
<1> DEFINE s == IF ok THEN statusUp(item.status, item.up) ELSE statusDown(item.status, item.down)
           c == Checked(item, ok)
<1>1. item.status \in Int /\ item.up \in Nat /\ item.down \in Int
  BY DEF ItemType
<1>2. s \in Int
  BY <1>1 DEF statusUp, statusDown
<1>3. c \in ItemType /\ c.status = s /\ c.up = item.up /\ c.down = item.down
      /\ c.protocol = item.protocol
  BY <1>2 DEF Checked, ItemType
<1>4. NormalDown(item.down) = item.down
  BY <1>1 DEF NormalDown
<1>5. s <= (IF item.up < 1 THEN 1 ELSE item.up)
  BY <1>1 DEF statusUp, statusDown
<1>6. s >= (IF item.down > -1 THEN -1 ELSE item.down)
  BY <1>1, <1>4 DEF statusUp, statusDown, Coherent
<1>7. k \in Dead /\ item.protocol = "http" => s <= 0
  <2> SUFFICES ASSUME k \in Dead, item.protocol = "http" PROVE s <= 0
    OBVIOUS
  <2>1. ok = FALSE /\ item.status <= 0
    BY DEF Outcomes, Coherent
  <2> QED BY <1>1, <2>1 DEF statusDown
<1> QED BY <1>3, <1>4, <1>5, <1>6, <1>7 DEF Coherent

(* Without items, checks and running loops the invariant holds.            *)
LEMMA InitInv == Init => HealthInv
<1> SUFFICES ASSUME Init PROVE HealthInv
  OBVIOUS
<1>1. Configs # {}
  BY HealthAssumption DEF Init
<1>2. transfer \in TransferType /\ loop \in LoopType
  BY <1>1, Defaults DEF Init, Between, TransferType, LoopType
<1>3. JobPoolType
  BY DEF Init, JobPoolInit, JobPoolType
<1>4. /\ items \in [Keys -> ItemType] /\ check \in [Jobs -> CheckType]
      /\ \A k \in Keys : items[k] = NoItem
      /\ \A j \in Jobs : check[j].item = NoItem /\ check[j].key \in Keys
  BY FreshItems DEF Init
<1>5. HealthTypeOK
  BY <1>2, <1>3, <1>4, HealthAssumption DEF Init, HealthTypeOK, CheckType, TransferType, LoopType
<1>6. StatusFitsItem /\ ChecksNormal
  BY <1>4, FreshItems DEF StatusFitsItem, ChecksNormal
<1> QED BY <1>5, <1>6 DEF HealthInv

-----------------------------------------------------------------------------
(* The pool's operations keep its type.                                    *)
LEMMA PoolStepsType ==
    ASSUME JobPoolType,
           \/ \E j \in Jobs : QueueJob(j) \/ BeginJob(j) \/ EndJob(j)
           \/ OpenPool \/ ClosePool \/ PoolClosed \/ UNCHANGED jobVars
    PROVE  JobPoolType'
<1>1. CASE \E j \in Jobs : QueueJob(j) \/ BeginJob(j) \/ EndJob(j)
  BY <1>1 DEF JobPoolType, QueueJob, BeginJob, EndJob
<1>2. CASE OpenPool \/ ClosePool \/ PoolClosed
  BY <1>2 DEF JobPoolType, OpenPool, ClosePool, PoolClosed
<1>3. CASE UNCHANGED jobVars
  BY <1>3 DEF JobPoolType, jobVars
<1> QED BY <1>1, <1>2, <1>3

(* Steps that neither write an item nor begin or end a check.              *)
LEMMA OtherSteps ==
    ASSUME HealthInv, UNCHANGED <<items, check>>, JobPoolType',
           record' \in [Keys -> Configs], changes' \in 0..MaxChanges,
           loop' \in LoopType, transfer' \in TransferType,
           life' \in {"running", "stop", "quit", "down"}
    PROVE  HealthInv'
<1>1. HealthTypeOK'
  BY DEF HealthInv, HealthTypeOK, LoopType, TransferType
<1>2. StatusFitsItem' /\ ChecksNormal'
  BY DEF HealthInv, StatusFitsItem, ChecksNormal, Coherent
<1> QED BY <1>1, <1>2 DEF HealthInv

(* A step that writes item x to key k.                                     *)
LEMMA ItemWritten ==
    ASSUME HealthInv, NEW k \in Keys, NEW x \in ItemType, Coherent(k, x),
           items' = [items EXCEPT ![k] = x], UNCHANGED <<record, changes, loop, life>>,
           transfer' \in TransferType, JobPoolType',
           check' \in [Jobs -> CheckType],
           \A j \in Jobs : check'[j] = check[j] \/ check'[j] = NoCheck
    PROVE  HealthInv'
<1>1. items \in [Keys -> ItemType] /\ check \in [Jobs -> CheckType]
  BY DEF HealthInv, HealthTypeOK, CheckType
<1>2. /\ items' \in [Keys -> ItemType] /\ items'[k] = x
      /\ \A l \in Keys : l # k => items'[l] = items[l]
  BY <1>1
<1>3. HealthTypeOK'
  BY <1>2 DEF HealthInv, HealthTypeOK, CheckType, TransferType
<1>4. \A l \in Keys : Coherent(l, items'[l])
  BY <1>2 DEF HealthInv, StatusFitsItem
<1>5. \A j \in Jobs : Coherent(check'[j].key, check'[j].item) /\ check'[j].item.down <= 0
  BY FreshItems DEF HealthInv, StatusFitsItem, ChecksNormal
<1> QED BY <1>3, <1>4, <1>5 DEF HealthInv, StatusFitsItem, ChecksNormal

(* The types a step starts from.                                           *)
LEMMA Types ==
    ASSUME HealthInv
    PROVE  /\ JobPoolType /\ record \in [Keys -> Configs] /\ changes \in 0..MaxChanges
           /\ items \in [Keys -> ItemType] /\ check \in [Jobs -> CheckType]
           /\ loop \in LoopType /\ transfer \in TransferType
           /\ life \in {"running", "stop", "quit", "down"}
           /\ Configs # {}
<1>1. /\ JobPoolType /\ record \in [Keys -> Configs] /\ changes \in 0..MaxChanges
      /\ items \in [Keys -> ItemType] /\ check \in [Jobs -> CheckType]
      /\ loop \in LoopType /\ transfer \in TransferType
      /\ life \in {"running", "stop", "quit", "down"}
  BY DEF HealthInv, HealthTypeOK, CheckType, LoopType, TransferType
<1>2. Configs # {}
  BY <1>1, HealthAssumption
<1> QED BY <1>1, <1>2

(* Transfer writes an item with status 0 for a changed configuration,      *)
(* which fits whatever configuration it is, and otherwise leaves the items *)
(* alone.                                                                  *)
LEMMA TransferSteps ==
    ASSUME HealthInv, TransferStep \/ TransferFails
    PROVE  HealthInv'
<1>1. /\ JobPoolType /\ record \in [Keys -> Configs] /\ changes \in 0..MaxChanges
      /\ items \in [Keys -> ItemType] /\ check \in [Jobs -> CheckType]
      /\ loop \in LoopType /\ transfer \in TransferType
      /\ life \in {"running", "stop", "quit", "down"}
  BY Types
<1>2. \A left \in SUBSET Keys : Between("next", left) \in TransferType
  BY Types, Defaults DEF Between, TransferType
<1>3. ASSUME NEW pc \in {"set", "expire", "done", "next"}, transfer' = [transfer EXCEPT !.pc = pc]
      PROVE  transfer' \in TransferType
  BY <1>1, <1>3 DEF TransferType
<1>4. transfer.key \in Keys /\ transfer.cfg \in Configs /\ transfer.left \in SUBSET Keys
  BY <1>1 DEF TransferType
<1>5. CASE TransferGet \/ TransferQuit \/ TransferFails \/ \E k \in Keys : TransferLocation(k)
  <2>1. UNCHANGED <<jobVars, itemVars, check, loop, life>>
    BY <1>5 DEF TransferGet, TransferQuit, TransferFails, TransferLocation
  <2>2. transfer' \in TransferType
    <3>1. CASE TransferGet \/ TransferQuit
      BY <1>3, <3>1 DEF TransferGet, TransferQuit
    <3>2. CASE TransferFails
      <4>1. CASE \E left \in SUBSET Keys : transfer' = [transfer EXCEPT !.left = left]
        BY <1>1, <4>1 DEF TransferType
      <4>2. CASE transfer' = Between("next", transfer.left)
        BY <1>2, <1>4, <4>2
      <4>3. CASE transfer' = [transfer EXCEPT !.pc = "set"] \/ transfer' = [transfer EXCEPT !.pc = "expire"]
        BY <1>3, <4>3
      <4>4. Pass \in SUBSET Keys
        BY <1>4 DEF Pass, Locations
      <4> QED BY <1>4, <3>2, <4>1, <4>2, <4>3, <4>4 DEF TransferFails
    <3>3. CASE \E k \in Keys : TransferLocation(k)
      <4>1. PICK k \in Keys : TransferLocation(k)
        BY <3>3
      <4>2. Pass \ {k} \in SUBSET Keys /\ record[k] \in Configs
        BY <1>1, <1>4 DEF Pass, Locations
      <4>3. \/ transfer' = [pc |-> "get", left |-> Pass \ {k}, key |-> k, cfg |-> record[k]]
            \/ transfer' = Between("next", Pass \ {k})
        BY <4>1 DEF TransferLocation
      <4> QED BY <1>2, <4>2, <4>3 DEF TransferType
    <3> QED BY <1>5, <3>1, <3>2, <3>3
  <2>3. JobPoolType'
    BY <1>1, <2>1, PoolStepsType
  <2> QED BY <1>1, <2>1, <2>2, <2>3, OtherSteps DEF itemVars
<1>6. CASE TransferSet
  <2>1. /\ items' = [items EXCEPT ![transfer.key] = NewItem(transfer.cfg)]
        /\ transfer' = [transfer EXCEPT !.pc = "expire"]
        /\ UNCHANGED <<jobVars, record, changes, check, loop, life>>
    BY <1>6 DEF TransferSet, SetHealthcheckItem
  <2>2. transfer' \in TransferType /\ JobPoolType'
    BY <1>1, <1>3, <2>1, PoolStepsType
  <2> QED BY <1>1, <1>4, <2>1, <2>2, FreshItems, ItemWritten
<1>7. CASE TransferExpire
  <2> DEFINE k == transfer.key
             x == [items[k] EXCEPT !.ttl = items[k].present]
  <2>1. /\ items' = [items EXCEPT ![k].ttl = items[k].present]
        /\ transfer' = Between("next", transfer.left)
        /\ UNCHANGED <<jobVars, record, changes, check, loop, life>>
    BY <1>7 DEF TransferExpire
  <2>2. items' = [items EXCEPT ![k] = x]
    BY <2>1
  <2>3. items[k] \in ItemType /\ Coherent(k, items[k])
    BY <1>1, <1>4 DEF HealthInv, StatusFitsItem
  <2>4. /\ x \in ItemType /\ x.status = items[k].status /\ x.up = items[k].up
        /\ x.down = items[k].down /\ x.protocol = items[k].protocol
    BY <2>3 DEF ItemType
  <2>5. Coherent(k, x)
    BY <2>3, <2>4 DEF Coherent
  <2>6. transfer' \in TransferType /\ JobPoolType'
    BY <1>1, <1>2, <1>4, <2>1, PoolStepsType
  <2> HIDE DEF x
  <2> QED BY <1>1, <1>4, <2>1, <2>2, <2>4, <2>5, <2>6, ItemWritten
<1> QED BY <1>5, <1>6, <1>7 DEF TransferStep

(* Steps of Redis and the users.                                           *)
LEMMA EnvironmentSteps ==
    ASSUME HealthInv, NEW k \in Keys,
           Elapse(k) \/ Expire(k) \/ \E c \in Configs : UpdateRecord(k, c)
    PROVE  HealthInv'
<1>1. /\ JobPoolType /\ record \in [Keys -> Configs] /\ changes \in 0..MaxChanges
      /\ items \in [Keys -> ItemType] /\ check \in [Jobs -> CheckType]
      /\ loop \in LoopType /\ transfer \in TransferType
      /\ life \in {"running", "stop", "quit", "down"}
  BY Types
<1>2. JobPoolType'
  BY <1>1, PoolStepsType DEF Elapse, Expire, UpdateRecord
<1>3. CASE \E c \in Configs : UpdateRecord(k, c)
  <2>1. record' \in [Keys -> Configs] /\ changes' \in 0..MaxChanges
    BY <1>1, <1>3, HealthAssumption DEF UpdateRecord
  <2> QED BY <1>1, <1>2, <1>3, <2>1, OtherSteps DEF UpdateRecord
<1>4. CASE Expire(k)
  BY <1>1, <1>2, <1>4, FreshItems, ItemWritten DEF Expire
<1>5. CASE Elapse(k)
  <2> DEFINE x == [items[k] EXCEPT !.due = TRUE]
  <2>1. items' = [items EXCEPT ![k] = x]
    BY <1>5 DEF Elapse
  <2>2. items[k] \in ItemType /\ Coherent(k, items[k])
    BY <1>1 DEF HealthInv, StatusFitsItem
  <2>3. /\ x \in ItemType /\ x.status = items[k].status /\ x.up = items[k].up
        /\ x.down = items[k].down /\ x.protocol = items[k].protocol
    BY <2>2 DEF ItemType
  <2>4. Coherent(k, x)
    BY <2>2, <2>3 DEF Coherent
  <2> HIDE DEF x
  <2> QED BY <1>1, <1>2, <1>5, <2>1, <2>3, <2>4, ItemWritten DEF Elapse
<1> QED BY <1>3, <1>4, <1>5

(* The check loop queues items as GetHealthcheckItem returns them, with a  *)
(* down count that is not positive.                                        *)
LEMMA LoopSteps ==
    ASSUME HealthInv, LoopStep \/ LoopFails
    PROVE  HealthInv'
<1>1. /\ JobPoolType /\ record \in [Keys -> Configs] /\ changes \in 0..MaxChanges
      /\ items \in [Keys -> ItemType] /\ check \in [Jobs -> CheckType]
      /\ loop \in LoopType /\ transfer \in TransferType
      /\ life \in {"running", "stop", "quit", "down"}
  BY Types
<1>2. loop' \in LoopType
  <2>1. CASE GetActiveHealthcheckItems \/ Tick \/ ItemsDone \/ LoopQuit
    BY <1>1, <2>1 DEF GetActiveHealthcheckItems, Tick, ItemsDone, LoopQuit, LoopType
  <2>2. CASE LoopFails \/ \E k \in Keys : QueueItem(k) \/ SkipItem(k)
    BY <1>1, <2>2 DEF LoopFails, QueueItem, SkipItem, LoopType
  <2> QED BY <2>1, <2>2 DEF LoopStep
<1>3. CASE ~ \E k \in Keys : QueueItem(k)
  <2>1. UNCHANGED <<jobVars, itemVars, check, transfer, life>>
    BY <1>3 DEF LoopStep, LoopFails, GetActiveHealthcheckItems, Tick, ItemsDone, LoopQuit, SkipItem
  <2>2. JobPoolType'
    BY <1>1, <2>1, PoolStepsType
  <2> QED BY <1>1, <1>2, <2>1, <2>2, OtherSteps DEF itemVars
<1>4. CASE \E k \in Keys : QueueItem(k)
  <2>1. PICK k \in Keys : QueueItem(k)
    BY <1>4
  <2>2. PICK j \in Jobs :
          /\ QueueJob(j)
          /\ check' = [check EXCEPT ![j] = [key |-> k, item |-> GetHealthcheckItem(k)]]
    BY <2>1 DEF QueueItem
  <2> DEFINE new == [key |-> k, item |-> GetHealthcheckItem(k)]
  <2>3. UNCHANGED <<itemVars, transfer, life>> /\ JobPoolType'
    BY <1>1, <2>1, <2>2, PoolStepsType DEF QueueItem
  <2>4. /\ GetHealthcheckItem(k) \in ItemType /\ GetHealthcheckItem(k).down <= 0
        /\ Coherent(k, GetHealthcheckItem(k))
    BY ReadItem
  <2>5. new \in CheckType /\ new.key = k /\ new.item = GetHealthcheckItem(k)
    BY <2>4 DEF CheckType
  <2>6. /\ check' \in [Jobs -> CheckType] /\ check'[j] = new
        /\ \A i \in Jobs : i # j => check'[i] = check[i]
    BY <1>1, <2>2, <2>5
  <2>7. HealthTypeOK'
    BY <1>1, <1>2, <2>3, <2>6 DEF HealthTypeOK, itemVars, CheckType, LoopType, TransferType
  <2>8. \A i \in Jobs : Coherent(check'[i].key, check'[i].item) /\ check'[i].item.down <= 0
    <3> SUFFICES ASSUME NEW i \in Jobs
                 PROVE  Coherent(check'[i].key, check'[i].item) /\ check'[i].item.down <= 0
      OBVIOUS
    <3>1. CASE i = j
      BY <2>4, <2>5, <2>6, <3>1
    <3>2. CASE i # j
      BY <2>6, <3>2 DEF HealthInv, StatusFitsItem, ChecksNormal
    <3> QED BY <3>1, <3>2
  <2>9. \A l \in Keys : Coherent(l, items'[l])
    BY <2>3 DEF HealthInv, StatusFitsItem, itemVars
  <2> QED BY <2>7, <2>8, <2>9 DEF HealthInv, StatusFitsItem, ChecksNormal
<1> QED BY <1>3, <1>4

(* The end of a check, whether its result can be written or not.           *)
LEMMA HandlerSteps ==
    ASSUME HealthInv, NEW j \in Jobs, HandleHealthCheck(j) \/ HandleFails(j)
    PROVE  HealthInv'
<1>1. /\ JobPoolType /\ record \in [Keys -> Configs] /\ changes \in 0..MaxChanges
      /\ items \in [Keys -> ItemType] /\ check \in [Jobs -> CheckType]
      /\ loop \in LoopType /\ transfer \in TransferType
      /\ life \in {"running", "stop", "quit", "down"}
  BY Types
<1>2. /\ EndJob(j) /\ check' = [check EXCEPT ![j] = NoCheck]
      /\ UNCHANGED <<record, changes, loop, transfer, life>>
  BY DEF HandleHealthCheck, HandleFails, itemVars
<1>3. JobPoolType'
  BY <1>1, <1>2, PoolStepsType
<1>4. /\ check' \in [Jobs -> CheckType]
      /\ \A i \in Jobs : check'[i] = check[i] \/ check'[i] = NoCheck
  BY <1>1, <1>2, FreshItems
<1> DEFINE k == check[j].key
           item == check[j].item
<1>5. k \in Keys /\ item \in ItemType /\ item.down <= 0 /\ Coherent(k, item)
  BY <1>1 DEF HealthInv, StatusFitsItem, ChecksNormal, CheckType
<1>6. CASE HandleHealthCheck(j)
  <2>1. PICK ok \in Outcomes(k, item.protocol) : items' = [items EXCEPT ![k] = Checked(item, ok)]
    BY <1>6 DEF HandleHealthCheck, SetHealthcheckItem
  <2>2. Checked(item, ok) \in ItemType /\ Coherent(k, Checked(item, ok))
    BY <1>5, CheckedItem
  <2> QED BY <1>1, <1>2, <1>3, <1>4, <1>5, <2>1, <2>2, ItemWritten
<1>7. CASE HandleFails(j)
  <2>1. items' = items
    BY <1>7 DEF HandleFails, itemVars
  <2>2. HealthTypeOK'
    BY <1>1, <1>2, <1>3, <1>4, <2>1 DEF HealthTypeOK, CheckType, LoopType, TransferType
  <2>3. \A i \in Jobs : Coherent(check'[i].key, check'[i].item) /\ check'[i].item.down <= 0
    BY <1>4, FreshItems DEF HealthInv, StatusFitsItem, ChecksNormal
  <2>4. \A l \in Keys : Coherent(l, items'[l])
    BY <2>1 DEF HealthInv, StatusFitsItem
  <2> QED BY <2>2, <2>3, <2>4 DEF HealthInv, StatusFitsItem, ChecksNormal
<1> QED BY <1>6, <1>7

(* Start, ShutDown and the pool's own steps.                               *)
LEMMA LifeSteps ==
    ASSUME HealthInv,
           \/ Start \/ PoolEnds \/ BeginShutDown \/ CloseQuit \/ EndShutDown
           \/ \E j \in Jobs : PoolBegins(j)
    PROVE  HealthInv'
<1>1. /\ JobPoolType /\ record \in [Keys -> Configs] /\ changes \in 0..MaxChanges
      /\ loop \in LoopType /\ transfer \in TransferType
      /\ life \in {"running", "stop", "quit", "down"}
  BY Types
<1>2. UNCHANGED <<itemVars, check>>
  BY DEF Start, PoolEnds, BeginShutDown, CloseQuit, EndShutDown, PoolBegins
<1>3. JobPoolType'
  BY <1>1, PoolStepsType DEF Start, PoolEnds, BeginShutDown, CloseQuit, EndShutDown, PoolBegins
<1>4. /\ loop' \in LoopType /\ transfer' \in TransferType
      /\ life' \in {"running", "stop", "quit", "down"}
  BY <1>1 DEF Start, PoolEnds, BeginShutDown, CloseQuit, EndShutDown, PoolBegins, LoopType, TransferType
<1> QED BY <1>1, <1>2, <1>3, <1>4, OtherSteps DEF itemVars

(* Every step of the health checker, its pool and its environment keeps    *)
(* the invariant.                                                          *)
LEMMA NextInv == HealthInv /\ [Next]_vars => HealthInv'
<1> SUFFICES ASSUME HealthInv, [Next]_vars PROVE HealthInv'
  OBVIOUS
<1>1. CASE UNCHANGED vars
  <2>1. JobPoolType'
    BY <1>1, Types, PoolStepsType DEF vars
  <2> QED BY <1>1, <2>1, Types, OtherSteps DEF vars, itemVars
<1>2. CASE Works
  BY <1>2, LifeSteps, EnvironmentSteps, TransferSteps, LoopSteps, HandlerSteps DEF Works
<1>3. CASE RedisFails \/ \E j \in Jobs : PoolBegins(j)
  BY <1>3, LifeSteps, TransferSteps, LoopSteps, HandlerSteps DEF RedisFails
<1> QED BY <1>1, <1>2, <1>3 DEF Next

(* The inductive invariant holds in every reachable state.                 *)
THEOREM Invariance == Spec => []HealthInv
BY InitInv, NextInv, PTL DEF Spec

(* The items, the checks under way and the two loops keep their types.     *)
THEOREM HealthTypeCorrect == Spec => []HealthTypeOK
BY Invariance, PTL DEF HealthInv

(* An item's status belongs to the configuration stored with it, however   *)
(* Transfer, the checks and the time to live of items overtake each other. *)
THEOREM StatusBelongsToItem == Spec => []StatusFitsItem
BY Invariance, PTL DEF HealthInv
=============================================================================

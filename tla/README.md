# A TLA+ development of z42

z42 is an authoritative DNS server whose zones are edited through a REST API,
kept in MySQL, copied to Redis by an updater process and served from Redis by
resolvers. This directory holds TLA+ models of that system, the TLC runs that
check them, and TLAPS proofs of the results that hold for every size of the
system. `PROJECT.json` ties every definition to source lines, every property to
the run that checks it and to a mutation of the code that breaks it.

## 1. Inventory

| Component | Source | State | Operations |
|---|---|---|---|
| API database | `internal/api/database` | tables Resource, Zone, UserZone, SOA, Location, RecordSet, Events (AUTO_INCREMENT `Revision`) | add, update, delete zone / location / record set, import zone; `GetEvents` |
| REST zone handlers | `internal/api/handlers/zone` | none of their own | one handler per operation; `updateZone` reads the SOA serial first |
| Accounts, API keys | `internal/api/handlers/auth`, `internal/api/database` | User, Verification, APIKeys | sign up, verify, recover, reset, login, keys |
| Zone updater | `cmd/zone_updater` | the revision read and the batch fetched, in memory only | poll, query, apply, sleep; any error is `zap.Fatal` |
| Redis zone store, write side | `internal/storage/data_handler.go` (`ApplyEvent`), `pkg/hiredis/transaction.go` | `z42:zones`, label sets, configurations, record sets, `z42:revision` | one MULTI/EXEC per event |
| Redis zone store, read side | `internal/storage/data_handler.go` | zone list (radix tree), zone cache, record cache, calls in flight | reload loop, `FindZone`, `GetZone`, `getRRSet`, invalidation |
| Redis client | `pkg/hiredis` | connection pool, one connection per subscription | commands, transactions, `SubscribeEvent`, streams |
| Resolver | `internal/resolver`, `internal/types/zone.go` | per request only | `FindLocation`, CNAME/ANAME chains, delegation, response filters |
| DNS cookies | `internal/resolver/cookie.go` | none: the cookie carries its time | check, renew, copy |
| Health checker | `internal/healthcheck`, `internal/storage/stat_handler.go` | items with expiry and status counters in Redis | `Transfer`, check loop, `HandleHealthCheck`, `ShutDown` |
| Worker pool | `pkg/workerpool` | job queue, idle workers, quit channels | dispatch, queue, stop |
| Rate limiter | `pkg/ratelimit` | one leaky bucket per client | `CanHandle` |
| Upstream cache | `internal/upstream` | response cache, list of connections | `Query` |
| DNSSEC, geo routing, record types, mail, reCAPTCHA, logging, servers, tools | `internal/dnssec`, `internal/geotools`, `pkg/geoip`, `internal/types`, ... | none that lasts | conversions, cryptography, I/O |

How they interact. A REST request runs one MySQL transaction whose last
statement inserts a row into `Events`. The updater shares that table with the
API and nothing else: every second it reads the revision stored in Redis, asks
for the next 100 events and executes each in one MULTI/EXEC together with its
revision. Resolvers share Redis with the updater: keyspace notifications set a
flag in the reload loop and delete entries of the zone and record caches.
A resolver passes a request through the rate limiter, the cookie check and
`HandleRequest`, which reads Redis record set by record set and asks an upstream
server when an ANAME leaves the zone. The health checker copies configurations
from the records into items, checks them with a worker pool and writes them
back; nothing else in the repository's programs reads them.

What is hard. Requests interleave between the queries that resolve ids and the
transaction that uses them. Revisions are drawn at insert and become visible at
commit. The updater may die between any two steps and knows only what Redis
tells it. Notifications are lost while a subscription is down, and race with the
reads whose results they should invalidate. One DNS answer is made of several
reads, each of which may fail or see a later version. Checks write back items
that were replaced meanwhile. Buckets, upstream calls and pool channels are
shared by goroutines that may be anywhere when another one acts, or when
everything is told to stop. `PROJECT.json` lists these hazards
with the line where each bites.

What makes the parts correct.

- *API database*: keys and owners stay right although ids are looked up outside
  the transaction; an event says what its transaction did.
- *Updater*: every committed event is applied once and in order, and in the end.
- *Redis store*: when it has caught up, it serves what is published, and nothing
  else but keys known to be left behind.
- *Read side*: a change becomes visible eventually with whatever notifications
  are lost, and no query is answered from an older zone than a query before it.
- *Resolver*: every request is answered, by a chain of records that starts at the
  name asked, with the location DNS prescribes; a failure is not a denial.
- *Accounts*: a code does what it was drawn for, to the user it was drawn for;
  keys and codes end with their users and zones.
- *Health checker*: a status belongs to the configuration it is stored with, and
  changed configurations are taken up; a shutdown ends.
- *Worker pool*: a job is handled once, none is forgotten, none runs after `Stop`.
- *Limiter, upstream cache, cookies*: the rate is held, nothing outlives its TTL
  in the upstream cache, a client that returns its cookie is not turned away.

## 2. Modules

| Module | Models | Kind |
|---|---|---|
| `ZoneEvents` | request and event records of `database/types.go`; the variable `events` | vocabulary |
| `ApiDatabase` | the write path of the API over MySQL | component |
| `RedisStore` | the key space and `ApplyEvent` | operators |
| `ZoneUpdater` | the loop of `cmd/zone_updater` | component |
| `Replication` | `ApiDatabase` and `ZoneUpdater` sharing `events` | composition |
| `EventStream` | what replication promises | abstract specification |
| `Subscription` | `SubscribeEvent` and Redis's notifications | component |
| `ZoneList` | the reload loop of `DataHandler.Start` over a `Subscription` | composition |
| `ZoneCache` | `GetZone` and its invalidation over a `Subscription` | composition |
| `Accounts` | users, one-time codes, login, API keys | component |
| `ZoneTree` | `FindZone`, `NewZone`, `FindLocation`, and what RFC 4592 says instead | operators |
| `AddressSelection` | geo filters and `orderIps`, and what they promise | operators |
| `Resolver` | `HandleRequest` with `findANAME` and `findCAA` | component |
| `Clock` | the time the next three share | component |
| `RateLimiter`, `Upstream`, `Cookies` | `CanHandle`, `Query`, the life of a cookie | components |
| `Edge` | a request of a resolver through these three | composition |
| `JobPool` | what a worker pool promises | abstract specification |
| `WorkerPool` | dispatcher and workers; implements `JobPool` | component |
| `HealthCheck` | the health checker over a `JobPool` | composition |
| `ReplicationProofs` (with `ApiDatabase`), `AccountsProofs`, `ZoneListProofs`, `ZoneCacheProofs`, `ResolverProofs` (with `ZoneTree` and `AddressSelection`), `EdgeProofs` (with the limiter), `HealthCheckProofs`, `WorkerPoolProofs` | theorems about the module they are named for | proofs |
| `MC...` | one per component that is run: instances for TLC | model checking |

Definitions under a comment that begins with "Mutant" are wrong on
purpose: each replaces the definition below it, to show that a property would
notice.

### ApiDatabase

`db` is a record of four sets of rows. An operation takes these steps:
`ReadZone` (only `PUT /zones/:zone_name`: reads the serial and adds one),
`LookUp` (ids and owner, each query on its own in the code and one step here),
`Exec` (all statements; they wait for locks, and the last one draws the
revision), and `Commit` or `Rollback`. Failed lookups and statements end the
request (`LookUpFails`, `ExecFails`). Nothing is visible to others between
`Exec` and `Commit`, so the effect of the statements (`AddZone` ...
`DeleteRecordSet`) is computed at `Commit`; the locks held meanwhile make sure
that the rows have not changed. A lookup that fails before anything was read
leaves every variable as it was and is not an action.

MySQL is external. The model has what the code relies on: InnoDB's row and
foreign-key locks until the end of a transaction, unique keys, cascading
deletes as in `scripts/schema-final.sql`, and an AUTO_INCREMENT that is never
given back. Object ids are UUIDs in the code; here an id contains the revision
of the event that created the row, so ids are unique as UUIDs are.
Record values, SOA fields other than the serial, privileges and
the name server check are abstracted or left out. `InitialSerial` stands for
the date of creation followed by 00.

The sets of requests in `ZoneEvents` are what the handlers hand to the database
once a request is bound, its names are present and its record type is known;
an import always has the name servers of the apex replaced by the configured
ones, as an assumption on `Imports` says.

### RedisStore and ZoneUpdater

One operator per case of the switch in `ApplyEvent`, built from one operator per
command. `Del` removes the key it is given, as Redis does: the patterns the code
passes to it are keys that nobody sets. `Decodes` is false for the event of a
deleted zone, whose value is a JSON string and not an object.
`Served` is what `FindZone`, `GetZone` and `getRRSet` can reach: the zone is
listed, the label is in its set and the record key exists.

`updater` has a pc, the revision read and the batch; `Crash` can happen
anywhere, and `Restart` forgets everything. A crash after an EXEC whose reply is
lost is `Apply` followed by `Crash`. `applied` is a history variable.

### Subscription, ZoneList, ZoneCache

`Subscription` keeps the client's and the server's side of a connection apart:
`PSUBSCRIBE` is sent without waiting for the answer, so `onStart` may run before
or after the server begins to send. Messages not received are lost with the
connection. In `ZoneList` and `ZoneCache` the content of a key is the number of
times it was written. `SMEMBERS` is one step (it is a series of SSCANs of 100
in the code).

`ZoneList`: the flag is set by the subscription and by the forced reload; the
loop reads the flag, reads the key, stores the list and clears the flag, in
separate steps, with the race the source marks `TODO: fix race`. `ShutDown` may
come at any moment; `quit` follows the request from `close(dh.quit)` through the
loop to `SubscribeEvent`, which waits for its receiver even when it has none
(`stuck`).

`ZoneCache`: several queries for one zone, the singleflight call they share, the
two reads of that call, the entry with its timeout, and ristretto's freedom to
refuse and evict. A query that finds an expired entry falls back on it if Redis
fails. ristretto buffers the first `Set` of a key; the model takes it to be in
force before the next call has made its two reads.

### Accounts

A request's pc lies between the queries it makes: the code is looked up
(`LookupCode`), the transaction uses it (`Verify`, `ResetPassword`, or
`RollBack`), the mail goes out last (`SendMail`, `MailFails`). Codes are drawn
once; `issued` remembers for whom and for what. Requests only carry codes that
were mailed. The foreign keys of `User`, `Verification`, `APIKeys` and
`UserZone` are those of `scripts/schema-final.sql`. Passwords are compared, not
hashed; the zones of this module are ids and owners only.

### ZoneTree, AddressSelection, Resolver

A name is its labels from the top down. `FindLocation` works on the tree
`NewZone` builds; `NameExists` and `Synthesized` say what RFC 4592 says without
one. `Resolver` has one action per stretch of `HandleRequest` between two reads,
named for what it decides. A read returns the record set, nothing, or `Failed`.
`Publish` edits a record set or the zone list in between; the zone itself is the
snapshot that `GetZone` returned. Flattening, DNSSEC (a flag, with the NSEC that
denies), delegation with glue and DS, CAA's climb (with its dropped errors, noted
in `failed`), ANAME inside and outside the
zone are all there. Random choices (weights, rotation) are sets of outcomes.
`orderIps` walks from the index drawn to the end and on from the start; the
model says which index comes k-th on that walk (`After`, `Nth`) instead of
looping.
TTLs, signatures and the data of most types are left out, and so are the
health statuses: `filter` does not consult them.

### Clock, RateLimiter, Upstream, Cookies, Edge

Times are small numbers of one clock. `RateLimiter` splits `CanHandle` into
finding the bucket and charging it under its lock, or making one without a lock.
`charged`, `since` and `spent` are history: a window that may begin at any time.
`Upstream` has the cache, the shared call, and the servers in turn with the write
of the one that answered into the first place. An answer is the sequence of its
records' TTLs. The cache keeps it for the smallest of them (`MinTtl`); the reply of
the exchange keeps the TTLs it came with, and `ttl` is the one of the first record,
which `findANAME` takes. A hit writes the time left into the records, which a
caller who was given the same records may not have read yet (`Holds`). `Cookies` are the three operators
of `cookie.go` on the time a cookie was made; `Edge` has a client that keeps the
cookie of the last response that reached it, with responses lost or overtaken.

### JobPool, WorkerPool, HealthCheck

`WorkerPool` models channels by what blocks: a job waits in its goroutine for
the queue, then for a worker's channel, then for that worker. `JobPool` is what
remains for a user of it: jobs wait, run once, and a closed pool is one whose
running jobs have ended. `HealthCheck` is written over `JobPool`, so that its own
races can be checked: `Transfer` reads an item, writes it and sets its expiry in
three steps; the loop reads items and queues the due ones; a job writes back the
item as it was read, with its new status. `Keys` are the locations there may be;
which of them there are is part of the records (`listed`, `Locations`), and may be
none. `ShutDown` may come before `Start`, or without it.

## 3. Runs

| Run | Instance | What it shows |
|---|---|---|
| `replication_serial` | one client, one zone, all ten operations, 4 events, batches of 2, crashes anywhere | `TypeOK`, `NothingSkipped`, `RevisionIsApplied`, `AppliedOnceInOrder`, `NothingMissing`, `NothingStale`, refinement `ImplementsStream` |
| `replication_live` | one client, the operations on single rows that can be applied, 4 events, under `LiveSpec` | `EventuallyApplied` once crashes stop |
| `api_concurrent` | two users, two clients, one zone name, all operations, 4 revisions | `ReferentialIntegrity`, `OnlyOwnZonesChange`, `OnlyImportsOrphan`, `EventsDescribeRows` |
| `accounts` | two requests at once, 2 users ever, 3 codes, 2 zones | `PendingHasCode`, `OnlyTheRightCode`, `CodesDontVanish`, `KeysFollowOwners`, `NoOrphans` |
| `zone_list` | 3 writes, any connection losses and failed loads, a shutdown | `ListEventuallyCurrent`, `ListNeverOlder`, `StopsWhenConnected` |
| `zone_cache` | two queries, 2 writes | `MonotoneReads`, `CacheEventuallyCurrent` |
| `resolver` | a zone of 18 locations in three configurations, some 100 questions, 30 address sets for 16 clients, one edit, any failed reads | `EveryRequestAnswered`, `AnswerIsChain`, `FailureIsNotDenial`, `LookupIsRight`, `SelectionKeepsPromise` |
| `edge` | two requests at once, time up to 4, limiter, cookies and upstream each enabled by itself | `RateHeld`, `BucketHolds`, `FreshReplies`, `CookieStaysGood`, `EveryRequestReplied` |
| `health` | one address, four configurations (one without the location), one change of them, two jobs, `Start` and `ShutDown` in any order | `StatusFitsItem`, `ItemsFollowRecords`, `ShutDownCompletes` |
| `pool` | two workers, three jobs, a queue of one | `OneOfferPerWorker`, refinement `ImplementsJobPool`, `EveryJobHandled`, `StopReturns` |
| `replication_skip` | two clients, two zones, 3 events | **violated**: `NothingSkipped` |
| `replication_delete_zone` | add and delete one zone, under `LiveSpec` | **violated**: `EventuallyApplied` |

What some of these properties say, and why not more:

- `NothingStale`: what a Redis that has caught up serves is published, or was
  served by a location that a committed event left keys of: `delete_zone`,
  `import_zone`, `delete_location` and the disabling of an apex (`LeavesKeys`).
  The zone configurations served are always published ones.
- `EventsDescribeRows`: when a transaction commits, its event is true of the tables,
  unless the row it was about had gone since the lookup (`Missed`). Then the
  statements change no zone, location or record set, and the event is logged all
  the same.
- `FailureIsNotDenial`: not for CAA, where only a denial of the name is excluded,
  and with NOERROR at the signed apex. Both are the code's doing (below).
- `FreshReplies`: what the cache gives out ends with the shortest TTL of its
  records. The uncached reply ends with the TTL of its first record, whatever the
  others say.
- `ShutDownCompletes`: on the conditions that `Start` is called and that there are
  locations again and again. Without either `ShutDown` hangs (below).

### Bounds

`MaxRevision` bounds the events. Four suffice for a zone, a location, a record
set and one change of any of them, and for a batch of two to be full, partly
applied and refetched. Two clients are all a race between a lookup and a
transaction, or between two commits, needs. One zone name with two users is
where ownership could be confused, and where a row looked up can be gone, or
another of its name there, when the transaction runs; two zones are where commits are independent
and can overtake each other. Two labels include the apex, which the code treats
apart. Two queries are a leader and a follower of a shared call, and two writes
let an entry be stale by one and by two versions; `zone_list` allows three writes
so that one can be lost, one wiped out by `UnSet` and one seen.

`accounts`: two users are enough for a code to reach the wrong one, three codes
for one to be replaced while another is in use. `resolver`: `MaxLoop` is 3
instead of 10, the chains are up to three long and the loops any length; one
edit falls between any two reads. `edge`: a burst of 1 and an expiry of 2 let a
bucket fill, drain and be forgotten before time 4; cookies are renewed at age 1
and refused after 2, as the code does at 30 and 60 minutes; the three concerns
share nothing but the clock, which is why each is run by itself. `health`:
two jobs can hold two copies of one item, the third configuration has the
unknown protocol and the positive down count the code treats apart, the fourth
makes the only location come and go. `pool`: the
third job waits for a place in the queue while the second waits for a worker.

The deadlock check is off where behaviours end: by the bound on revisions
(`api_concurrent`) or on time (`edge`), by a request that has been answered
(`resolver`), by a shutdown (`zone_list`, `health`, `pool`) and, in `accounts`,
when all ids are used up. The others check it.

### Fairness

`LiveSpec`: the updater's loop has no other condition than its calls returning,
and `docker-compose.yml` restarts the process on failure, so its steps together
are weakly fair. Crashes stop eventually: with a crash before every EXEC no
event need get through. The API is not fair at all.
`ListLiveSpec`: tickers fire and the loop's goroutine runs (weak fairness of its
steps), and loads stop failing eventually. `CacheLiveSpec`: a call in flight
comes to an end, with or without an error, and time passes. Neither assumes
anything of the subscription: it may be down for ever, which is why these
properties rest on the forced reload and on the cache timeout. For
`StopsWhenConnected` a `select` that finds `dh.quit` ready again and again takes
it, since Go picks at random (strong fairness).
`ResolverSpec`, `EdgeSpec`: a handler goes on, since reads, exchanges and locks
all end; nothing is assumed of clients, edits or time. `PoolFairSpec`:
goroutines run, handlers return, channels serve their waiters in turn and
`select` is random. `HealthFairSpec`: the same for the checker's loops once `Start`
is called (which nothing promises: `cmd/healthchecker` does not), of the
pool only what `WorkerPool` was shown to provide, and Redis answers from some
point on.

### Findings

- **`replication_skip`.** A transaction that draws revision 1 and commits after
  the one with revision 2 is invisible when the updater reads 2; the query
  `Revision > 2` never returns it. Theorem `InOrderNothingSkipped` says that
  this is the only way to skip one.
- **`replication_delete_zone`.** `DeleteZone` logs the zone's name where
  `ApplyEvent` decodes a struct. The updater exits on that event after every
  restart.

### Also seen while modelling

These follow from the same models and are why some runs restrict their
requests or their number of clients, or why a property has an exception:

Replication and API

- Deleting a location passes `locationWildcard`, a pattern, to a plain DEL
  (`data_handler.go:747`): its record sets remain and are served again when the
  location is created again. An import does not remove what it replaces for the
  same reason (`data_handler.go:678`), and `UpdateZone` brings a disabled apex
  label back (`data_handler.go:708`). `NothingStale` names these as the only
  sources of stale keys.
- Two updates of a zone may read the same serial and both publish the next one
  (`handlers/zone/handlers.go:198`). Nothing in the code prevents it, and no
  property is stated about serials.
- A row may be deleted between the lookup and the transaction: `UpdateRecordSet`
  then changes no row and logs an event all the same (`db.go:515`), which
  `EventsDescribeRows` states as its exception.
- An import leaves the Resource rows of the record sets it replaces
  (`internal.go:149`); `OnlyImportsOrphan` states that nothing else does.
- A sign-up whose mail fails leaves a user without a code; the email cannot sign
  up again (`auth/handlers.go:169`).

Read side

- A zone whose configuration cannot be read is cached without it for the whole
  timeout (`data_handler.go:228`), a signed zone unsigned. `getRRSet` compares
  the clock with the timeout (`data_handler.go:296`) and its callers drop the
  copy it returns with an error: the record cache never answers.
- `ShutDown` hangs when a subscriber is between connections (`hiredis.go:452`).

Resolver

- A malformed cookie is answered with FORMERR, and the request then handled and
  answered once more (`handler.go:76-78`).
- At the apex of a signed zone `addNSec` turns the SERVFAIL of an ANAME into
  NOERROR (`handler.go:720`).
- `findCAA` drops errors (`handler.go:585`, `TODO` at `handler.go:398`): a failed
  read gives an empty NOERROR or the CAA set of a name further up.
- SOA and DNSKEY are answered with the apex's records at any existing name; a
  flattened CNAME to a delegation gives DS and NS under the target's name.
- Data below a delegation is still served; the host of a name server outside the
  zone gets glue from a wildcard at the root of the zone; an ANAME target below
  an existing name is answered with that name's addresses (`CEMatch`).
- With the filter `asn+country` a client of unknown country undoes the match by
  ASN.

Edge

- Requests that miss the cache together each make a bucket and keep it as long
  as they hold it: the rate is held once per concurrent request only, which is
  what `RateHeld` says. A burst larger than the rate lets a bucket be forgotten
  before it is empty; a rate of 0 panics, one above 60000 limits nothing.
- `connections[0], c = c, connections[0]` (`upstream.go:86`) writes the server
  that answered into the first place and drops the one that was there for good.
- The reply of an exchange keeps the TTLs it came with (`upstream.go:96`) and
  `findANAME` takes the first record's (`handler.go:648`): an address of 30 s
  behind a CNAME of 300 s is given out for 300 s by those who waited for the call,
  and for at most 30 s by those who find it in the cache.
- A TTL of 0 is kept for ten minutes, the cache's default, and `FreshReplies`
  counts it as that.

Health checker

- SET drops the expiry `Transfer` gave an item (`stat_handler.go:85`):
  `healthcheck_test.go:475-476` expects items of removed records to vanish. An
  item with a positive down count is rewritten by every pass of `Transfer`. An
  unknown protocol counts as up.
- `TrimLeft` with a cutset mutilates the key of an invalidation
  (`stat_handler.go:44`). `Transfer` does not see `quit` while there is no zone
  or location (`healthcheck.go:328-336`), and `ShutDown` waits for it.
  `cmd/healthchecker` never calls `Start`, so its `Stop` hangs when the checker is
  enabled.

## 4. Proofs

Every theorem is checked by `tlapm` for all values of the constants (clients,
users, names, values, batch sizes, queries, workers, jobs, times) that satisfy
the assumptions the modules declare: the bounds are natural numbers
(`ApiAssumption`, `AccountsAssumption`, `ListAssumption`, `CacheAssumption`,
`HorizonAssumption`, `LimiterAssumption`, `UpstreamAssumption`), a batch, a queue
and a pool are not empty (`BatchAssumption`, `PoolAssumption`), a cookie is
renewed before it ends (`CookieAssumption`), configurations have the fields of
the code's struct (`HealthAssumption`), requests are callers (`EdgeAssumption`),
an import contains the apex's name servers (`VocabularyAssumption`), and names
are sequences of labels and a record set is of its type's kind, as the structs of
`dns_types.go` are (`ResolverAssumption`). All of them are evaluated by the runs.
The inductive invariants were checked by TLC on the runs' instances before they
were proved.

Hypotheses are stated in theorems where the code does not give more:

- `CommitsInOrder`, that no open transaction has a smaller revision than a
  committed event. With two clients it can fail, and then `NothingSkipped` does
  (run `replication_skip`).
- `NobodyMisses`, that a transaction finds the rows its ids were looked up for. A
  transaction that does not logs an event that is not true (`EventsDescribeRows`),
  and Redis follows the event.
- `OneAtATime`, one client of the API, which gives both. Nothing in the code
  serializes requests; the theorems say what a deployment gains by doing so.
- For `RateHeld`: finitely many requests at once, and the cache keeps a bucket
  until it is empty (`MaxTime + TimeStep <= Expiry`). The code keeps a bucket for
  a minute and charges 60000 / rate ms a request, so this is burst + 1 <= rate,
  which nothing in the configuration checks.

`ReplicationProofs`, the API's part

- `TablesInvariance`: `ApiSpec => []TablesInv`, for any number of clients. The
  keys of the schema alone are not inductive: a commit applies statements whose
  ids were looked up any number of commits ago. `TablesInv` adds that ids are
  born once, with the revision of the transaction that inserts them (`AllBorn`);
  that the ids a request remembers name at most the rows it looked up, present
  or not (`TxFits`); that the statements of an open transaction would still
  succeed (`TxReady`); and that no two open transactions hold conflicting
  locks (`TxLocks`). The work is one lemma per statement
  (what it does to the tables) and one per pair of lock and statement (a commit
  does not make another open transaction's statements fail).
- `TablesStayConsistent`, `DeletionsLeaveNoOrphans`, `OthersZonesAreSafe`:
  `ReferentialIntegrity`, `OnlyImportsOrphan`, `OnlyOwnZonesChange`. The last
  rests on ids not being used again: a zone of the same name that somebody else
  creates after the lookup has another id, and the statements miss it.
- `EventsAreTrue`: `ApiSpec => EventsDescribeRows`, for any number of clients. The
  names a request was made for are those of the rows its ids belong to, as long
  as these exist (part of `IdsFit`), so a transaction either meets the very rows
  its event is about or changes nothing.

`ReplicationProofs`, the pipeline

- `Invariance`: `Spec => []Inv`. `Inv` adds to the types that a revision belongs
  to one event or one open transaction and is below the counter, that a client
  beyond its lookup serves a request, and that the updater is in step: after
  `GetRevision` it knows Redis's revision, and what it fetched is later. Without
  the last part `AppliedOnceInOrder` is not inductive: a batch fetched before a
  crash could be applied after the restart.
- `TypeCorrect`, `RevisionSound`, `AppliedOnce`: `TypeOK`, `RevisionIsApplied`,
  `AppliedOnceInOrder`, with any number of concurrent requests.
- `InOrderNothingSkipped`: `Spec /\ []CommitsInOrder => []NothingSkipped`, where
  `CommitsInOrder` says that no open transaction has a smaller revision than a
  committed event. The invariant `Gapless` adds that the updater's batch is a
  prefix of the events it has not applied.
- `SerialNothingSkipped`, `SerialImplementsStream`: one request at a time gives
  `CommitsInOrder`, hence `NothingSkipped` and the refinement of `EventStream`.
- `PipelineKeepsApi`: `Spec => ApiSpec`, by which everything proved of the API
  holds in the pipeline.
- `InOrderNothingMissing`, `InOrderNothingStale`: what a Redis that has caught up
  serves, for any number of clients and all ten operations, under `CommitsInOrder`
  and `NobodyMisses`; `SerialMirror`: both, one request at a time.
  `Mirrors(d, st, E)` relates tables and store: every enabled row has its key with
  its latest value, and every key has an enabled row unless an event of `E` has
  left keys of its location (`LeftBy`).
  `MirrorStep` shows, operation by operation, that committing an event to the
  tables and executing it in Redis keeps this relation. The two happen at
  different times with any number of events between them, so the invariant
  `WillMirror` is about the future of the store: there is one store for every
  event still pending, the first made from Redis, each from the one before it,
  and the last mirrors the tables. A commit adds one at the end, `Apply` takes
  one off the front. (The stores are an existential and not a recursive replay:
  the provers have no induction over data.)

`AccountsProofs`

- `Invariance`: `Spec => []AccountsInv`, for any number of requests. A request
  looks a code, a user or a zone up in one step and uses it in a later one, so
  the five properties are not inductive without `RequestsAreSound`: what a
  request remembers is true of the code or zone even if the row has gone.
  This in turn needs that ids are drawn in order and not reused (`IdsAreDrawn`)
  and that the rows agree with what was issued, one activation code per user
  (`CodesAreIssued`).
- From it `PendingUsersHaveCodes`, `KeysAreTheOwners`, `TablesHaveNoOrphans`,
  `UnusedCodesStay` and `CodesDoWhatTheyAreFor`: all properties of the run.

`ZoneListProofs`, `ZoneCacheProofs`

- `ListMovesForward`: `Spec => ListNeverOlder`. What the loop has read and not
  stored yet lies between the list and the key: nothing else stores a list.
- `GetZoneMonotone`: `Spec => []MonotoneReads`. The invariant orders the
  versions: served <= cached <= read by the call in flight <= stored, and while a
  call waits to answer the cache holds its zone or nothing. The fallback on
  expired entries is sound because an entry was at least as new as everything
  served when the query found it.

`ResolverProofs`

- `FindLocationIsRight`: for every set of locations and every name of the zone,
  the search in the tree `NewZone` builds says what `NameExists` and
  `Synthesized` say without a tree. Both sides speak of longest prefixes; that
  one exists is shown from the well-ordering of the naturals (`LeastNatural`,
  `GreatestNatural`) where a recursion over labels would need induction. The
  closest encloser is the longest key of the tree because `NewZone` adds every
  ancestor of a location.
- `FilterKeepsPromise`: for every address record set, every client and every
  draw, `filter` returns a good selection. The rank of an index on the walk of
  `orderIps` is injective on the white indexes and below their number, so it
  takes each value once (finite cardinalities in place of induction): `Nth` is
  defined, and no address is given twice.
- `ResolverInvariant`: `ResolverSpec => []ResolverInv`, by one lemma per action.
  The properties are about the response, and not inductive: what they promise is
  settled by reads many steps, and possibly an edit, earlier. `ResolverInv` says
  what holds while the handler is on its way. Nothing in the context denies
  anything yet (`Open`); the CNAMEs in it lead from the name asked to the current
  name, or the chain is flattened and the name asked is real (`OnTheWay`); at the
  end of the chain the current name is real (`Arrived`); what the handler holds
  is a record set of the type asked, or nothing while an ANAME is followed. Once
  the loop is left, the four promises hold of the context (`SendOK`), and the
  response is the context (`Written`).
- From it `AnswerIsAlwaysChain`, `FailureIsNeverDenial`, `LookupIsAlwaysRight`
  and `SelectionAlwaysKeepsPromise`: all safety properties of the run, for every
  zone, request, edit and failure, and for every `MaxLoop`. The exceptions in
  `AnswerIsChain` and `FailureIsNotDenial` are those the code makes (section 3).
  `GoodSelection` is about sets that hold no address twice: of two equal
  addresses one cannot tell which was given.

`EdgeProofs`

- `LimiterHoldsRate` and, within the whole path of a request, `EdgeHoldsRate`:
  `BucketHolds`. The invariant `LimiterInv` bounds what was charged by what the
  bucket holds plus what has drained since the window began, and says that a
  bucket holds at most `MaxTime + TimeStep`. `BucketHolds` alone is not
  inductive: it allows a bucket that was charged to the limit and holds nothing.
- `ClientHeldToRate`, `EdgeHeldToRate`: `RateHeld`, what all buckets of a client
  together let through. Requests that miss together make a bucket each, and the
  cache forgets buckets. The invariant `RateInv` keeps account of it: what was
  spent in the window is still in buckets that count, has drained, or was in a
  bucket that no longer matters, whose share of the bound is then free; every
  bucket that counts was paid for by a request that may make no other while it
  holds this one (`Covers`). The sums over buckets are cardinalities of sets of
  units (`UnitsOf`), so that the finite set theorems of the library do the
  adding.
- `RepliesAreFresh`: `FreshReplies`. The invariant `UpstreamInv` says of every
  cache entry that it expires no later than the TTL of any of its records, or the
  default where one was 0, allows.
- `CookiesStayGood`: `CookieStaysGood`. The invariant `CookieInv` bounds the age
  of every cookie at the time it was given out or confirmed by `Renewal`, in
  the client's jar, in requests and in responses on their way.

`HealthCheckProofs`

- `StatusBelongsToItem`: `StatusFitsItem`, over the abstract `JobPool`. A check
  holds a copy of its item until it writes it back, and the property is about
  these copies too. The invariant adds that their down counts are not positive
  (`ChecksNormal`), as `GetHealthcheckItem` returns them: otherwise a check could
  set the status of an address that does not answer to a positive number.

`WorkerPoolProofs`

- `WorkersOfferedOnce`: `OneOfferPerWorker`, and `PoolRefinesJobPool`:
  `Spec => ImplementsJobPool`. The invariant `PoolInv`: a worker waits if and
  only if its channel is in the pool or with a goroutine that took it, once
  (`OfferInv`); the queue holds each queued job once (`QueueInv`); a worker and
  the job it handles know of each other (`HandleInv`); the workers before the
  one `Dispatch` waits for have ended (`StopInv`, without which the pool could
  be closed while a job runs).

Only model-checked:

- the liveness properties `EventuallyApplied`, `ListEventuallyCurrent`,
  `StopsWhenConnected`, `CacheEventuallyCurrent`, `EveryRequestAnswered`,
  `EveryRequestReplied`, `ItemsFollowRecords`, `ShutDownCompletes`,
  `EveryJobHandled` and `StopReturns`: the prover has no rules for fairness or
  ENABLED.

Every safety invariant and action property of the passing runs is stated by a
theorem, and so are both refinements: under `CommitsInOrder` and `NobodyMisses` or
under `OneAtATime` where the hypotheses above say so, `ImplementsStream` among them.

## 5. Not modelled

What would come next: `exportZone`, which pages through the locations by offset
while they may be deleted.

Not modelled: DNSSEC signing, geo distances and record conversions (functions of
one message, over bytes and floating point), mail, reCAPTCHA, logging, server
wiring and tools (I/O without a protocol), the reads of the API (they change
nothing), `FilterHealthcheck` and the statistics reads (no program calls them),
the record cache (it never answers), and the wrap of cookie times in 2106.

## 6. Running

    tlc -workers 2 -config Replication_serial.cfg MCReplication
    tlapm ReplicationProofs.tla

`PROJECT.json` lists module and configuration of every run. `replication_serial`
and `edge` take about two minutes, `health` one and a half, `replication_live`,
`zone_cache` and `resolver` about one, the others less. The proofs take some minutes each from
nothing, `ReplicationProofs` and `ResolverProofs` longest.

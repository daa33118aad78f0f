---------------------------- MODULE ZoneUpdater ----------------------------
(***************************************************************************)
(* cmd/zone_updater: the process that copies the API's events to Redis.    *)
(*                                                                         *)
(* The loop of main() reads the revision from Redis, asks MySQL for the    *)
(* next batch of events, applies them one by one and sleeps.  An error of  *)
(* any call is zap.Fatal: the process exits and its supervisor starts it   *)
(* again.  ApplyEvent is one MULTI/EXEC, so the data and the revision of   *)
(* an event reach Redis together or not at all; a crash can fall between   *)
(* any two steps, and after an EXEC whose reply was lost.                  *)
(*                                                                         *)
(* The slice GetEvents returns is ordered by revision and read from front  *)
(* to back: it is a set here, of which the smallest revision comes next.   *)
(***************************************************************************)
EXTENDS RedisStore

CONSTANT BatchSize      \* main calls GetEvents with a count of 100

ASSUME BatchAssumption == BatchSize \in Nat \ {0}

VARIABLES
    redis,          \* the zone data in Redis
    updater,        \* the process: pc, the revision read, the events fetched
    applied         \* history: revisions of the events executed in Redis

updaterVars == <<redis, updater, applied>>

Started == [pc |-> "poll", revision |-> 0, batch |-> {}]

UpdaterInit ==
    /\ redis = EmptyStore
    /\ updater = Started
    /\ applied = {}

(* dh.GetRevision: a missing key counts as 0.                              *)
GetRevision ==
    /\ updater.pc = "poll"
    /\ updater' = [updater EXCEPT !.pc = "query", !.revision = redis.rev]
    /\ UNCHANGED <<redis, applied>>

(* Mutant: the query starts one revision too late.                         *)
NewerOffByOne(revision) == {e \in events : e.rev > revision + 1}

(* SELECT ... WHERE Revision > ? ORDER BY Revision LIMIT 0, 100: of the    *)
(* committed events beyond the revision, the first BatchSize.              *)
Newer(revision) == {e \in events : e.rev > revision}

(* Mutant: the query has a LIMIT and no ORDER BY.                          *)
IsBatchUnordered(batch, newer) ==
    /\ Cardinality(batch) <= BatchSize
    /\ batch = newer \/ Cardinality(batch) = BatchSize

IsBatch(batch, newer) ==
    /\ \A e \in batch : \A f \in newer \ batch : e.rev < f.rev
    /\ Cardinality(batch) <= BatchSize
    /\ batch = newer \/ Cardinality(batch) = BatchSize

GetEvents ==
    /\ updater.pc = "query"
    /\ \E batch \in SUBSET Newer(updater.revision) :
          /\ IsBatch(batch, Newer(updater.revision))
          /\ updater' = [updater EXCEPT !.pc = "apply", !.batch = batch]
    /\ UNCHANGED <<redis, applied>>

(* The head of the slice.                                                  *)
IsNext(e) == e \in updater.batch /\ \A f \in updater.batch : e.rev <= f.rev

(* Mutants: SET revision is not part of the MULTI, and the process dies    *)
(* between the two, with the revision stored first or last.                *)
ApplyRevisionFirst ==
    /\ updater.pc = "apply"
    /\ \E e \in updater.batch :
          /\ IsNext(e)
          /\ Decodes(e)
          /\ \/ redis' = ApplyEvent(redis, e) /\ applied' = applied \cup {e.rev}
             \/ redis' = [redis EXCEPT !.rev = e.rev] /\ UNCHANGED applied
          /\ updater' = [updater EXCEPT !.batch = @ \ {e}]

ApplyRevisionLast ==
    /\ updater.pc = "apply"
    /\ \E e \in updater.batch :
          /\ IsNext(e)
          /\ Decodes(e)
          /\ \/ redis' = ApplyEvent(redis, e) /\ applied' = applied \cup {e.rev}
             \/ redis' = [ApplyEvent(redis, e) EXCEPT !.rev = redis.rev]
                 /\ UNCHANGED applied
          /\ updater' = [updater EXCEPT !.batch = @ \ {e}]

Apply ==
    /\ updater.pc = "apply"
    /\ \E e \in updater.batch :
          /\ IsNext(e)
          /\ Decodes(e)
          /\ redis' = ApplyEvent(redis, e)
          /\ applied' = applied \cup {e.rev}
          /\ updater' = [updater EXCEPT !.batch = @ \ {e}]

(* ApplyEvent returns the Unmarshal error before it touches Redis.         *)
ApplyFatal ==
    /\ updater.pc = "apply"
    /\ \E e \in updater.batch : IsNext(e) /\ ~ Decodes(e)
    /\ updater' = [updater EXCEPT !.pc = "down"]
    /\ UNCHANGED <<redis, applied>>

(* time.Sleep(time.Second), then the next round.                           *)
Sleep ==
    /\ updater.pc = "apply"
    /\ updater.batch = {}
    /\ updater' = [updater EXCEPT !.pc = "poll"]
    /\ UNCHANGED <<redis, applied>>

(* MySQL or Redis fails a call, or the process is killed.                  *)
Crash ==
    /\ updater.pc # "down"
    /\ updater' = [updater EXCEPT !.pc = "down"]
    /\ UNCHANGED <<redis, applied>>

Restart ==
    /\ updater.pc = "down"
    /\ updater' = Started
    /\ UNCHANGED <<redis, applied>>

UpdaterNext ==
    \/ GetRevision
    \/ GetEvents
    \/ Apply
    \/ ApplyFatal
    \/ Sleep
    \/ Crash
    \/ Restart
=============================================================================

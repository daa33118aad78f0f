------------------------------ MODULE JobPool -----------------------------
(***************************************************************************)
(* What pkg/workerpool promises its user: a queued job is begun once and   *)
(* handled, also while the pool closes; a pool that is closed runs none.   *)
(* A job is one of a fixed set of slots, free again when it was handled.   *)
(* The pool has no such limit: Queue starts a goroutine per job.           *)
(***************************************************************************)
EXTENDS Naturals

CONSTANT Jobs       \* bound: jobs that are under way at once

VARIABLES
    job,            \* per slot: none, waiting or running
    pool            \* Run was called, Stop was called, Stop can return

jobVars == <<job, pool>>

JobPoolType ==
    /\ job \in [Jobs -> {"none", "waiting", "running"}]
    /\ pool \in [run : BOOLEAN, quit : BOOLEAN, closed : BOOLEAN]

JobPoolInit ==
    /\ job = [j \in Jobs |-> "none"]
    /\ pool = [run |-> FALSE, quit |-> FALSE, closed |-> FALSE]

OpenPool ==
    /\ ~ pool.run
    /\ pool' = [pool EXCEPT !.run = TRUE]
    /\ UNCHANGED job

QueueJob(j) ==
    /\ job[j] = "none"
    /\ job' = [job EXCEPT ![j] = "waiting"]
    /\ UNCHANGED pool

BeginJob(j) ==
    /\ pool.run /\ ~ pool.closed
    /\ job[j] = "waiting"
    /\ job' = [job EXCEPT ![j] = "running"]
    /\ UNCHANGED pool

EndJob(j) ==
    /\ job[j] = "running"
    /\ job' = [job EXCEPT ![j] = "none"]
    /\ UNCHANGED pool

ClosePool ==
    /\ ~ pool.quit
    /\ pool' = [pool EXCEPT !.quit = TRUE]
    /\ UNCHANGED job

PoolClosed ==
    /\ pool.run /\ pool.quit /\ ~ pool.closed
    /\ \A j \in Jobs : job[j] # "running"
    /\ pool' = [pool EXCEPT !.closed = TRUE]
    /\ UNCHANGED job

JobPoolNext ==
    \/ \E j \in Jobs : QueueJob(j) \/ BeginJob(j) \/ EndJob(j)
    \/ OpenPool \/ ClosePool \/ PoolClosed

JobPoolSpec == JobPoolInit /\ [][JobPoolNext]_jobVars

(* While jobs end, every job of an open pool is begun, and a pool that ran *)
(* is closed.                                                              *)
EveryJobBegins ==
    \A j \in Jobs : (pool.run /\ job[j] = "waiting") ~> (job[j] = "running" \/ pool.quit)

ClosingEnds == (pool.run /\ pool.quit) ~> pool.closed
=============================================================================

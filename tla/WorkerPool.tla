---------------------------- MODULE WorkerPool ----------------------------
(***************************************************************************)
(* pkg/workerpool: a dispatcher that hands jobs to idle workers, and its   *)
(* Stop.  It implements JobPool, which its user HealthCheck is built on.   *)
(***************************************************************************)
EXTENDS Naturals, Sequences

CONSTANTS
    MaxWorkers,         \* workers added to the dispatcher
    MaxWaitingJobs,     \* capacity of the channel JobQueue
    Jobs                \* bound: jobs that are under way at once

ASSUME PoolAssumption ==
    /\ MaxWorkers \in Nat \ {0}
    /\ MaxWaitingJobs \in Nat \ {0}
    /\ 0 \notin Jobs

VARIABLES
    dispatcher,     \* Dispatch: pc, the worker it waits for, d.quit closed
    worker,         \* per worker: pc, its job (0: none), w.quit closed
    goroutine,      \* per job: where it is, and the worker it is meant for
    jobQueue,       \* d.JobQueue
    workerPool      \* d.WorkerPool: workers that wait for a job

vars == <<dispatcher, worker, goroutine, jobQueue, workerPool>>

Workers == 1..MaxWorkers

PoolTypeOK ==
    /\ dispatcher \in [pc : {"new", "select", "stopping", "stopped"},
                       at : 0..MaxWorkers, quit : BOOLEAN]
    /\ worker \in [Workers -> [pc : {"new", "register", "select", "handle", "done"},
                               job : Jobs \cup {0}, quit : BOOLEAN]]
    /\ goroutine \in [Jobs -> [pc : {"none", "queue", "queued", "take", "send", "handled"},
                               to : 0..MaxWorkers]]
    /\ jobQueue \in Seq(Jobs)
    /\ workerPool \in Seq(Workers)

Init ==
    /\ dispatcher = [pc |-> "new", at |-> 0, quit |-> FALSE]
    /\ worker = [w \in Workers |-> [pc |-> "new", job |-> 0, quit |-> FALSE]]
    /\ goroutine = [j \in Jobs |-> [pc |-> "none", to |-> 0]]
    /\ jobQueue = <<>>
    /\ workerPool = <<>>

Run ==
    /\ dispatcher.pc = "new"
    /\ dispatcher' = [dispatcher EXCEPT !.pc = "select"]
    /\ worker' = [w \in Workers |-> [worker[w] EXCEPT !.pc = "register"]]
    /\ UNCHANGED <<goroutine, jobQueue, workerPool>>

-----------------------------------------------------------------------------
(* Queue starts a goroutine, which sends the job when the channel has room.*)
Queue(j) ==
    /\ goroutine[j].pc = "none"
    /\ goroutine' = [goroutine EXCEPT ![j].pc = "queue"]
    /\ UNCHANGED <<dispatcher, worker, jobQueue, workerPool>>

Enqueue(j) ==
    /\ goroutine[j].pc = "queue"
    /\ Len(jobQueue) < MaxWaitingJobs
    /\ jobQueue' = Append(jobQueue, j)
    /\ goroutine' = [goroutine EXCEPT ![j].pc = "queued"]
    /\ UNCHANGED <<dispatcher, worker, workerPool>>

(* Dispatch starts a goroutine for the job, which waits for a worker ...   *)
DispatchJob ==
    /\ dispatcher.pc = "select"
    /\ jobQueue # <<>>
    /\ goroutine' = [goroutine EXCEPT ![Head(jobQueue)].pc = "take"]
    /\ jobQueue' = Tail(jobQueue)
    /\ UNCHANGED <<dispatcher, worker, workerPool>>

TakeWorker(j) ==
    /\ goroutine[j].pc = "take"
    /\ workerPool # <<>>
    /\ goroutine' = [goroutine EXCEPT ![j] = [pc |-> "send", to |-> Head(workerPool)]]
    /\ workerPool' = Tail(workerPool)
    /\ UNCHANGED <<dispatcher, worker, jobQueue>>

(* ... and sends it the job over an unbuffered channel.                    *)
Deliver(j) ==
    LET w == goroutine[j].to IN
    /\ goroutine[j].pc = "send"
    /\ worker[w].pc = "select"
    /\ worker' = [worker EXCEPT ![w].pc = "handle", ![w].job = j]
    /\ goroutine' = [goroutine EXCEPT ![j].pc = "handled"]
    /\ UNCHANGED <<dispatcher, jobQueue, workerPool>>

(* Mutant: a worker offers its channel again after it was told to quit.    *)
RegisterTwice(w) ==
    /\ worker[w].pc \in {"register", "select"}
    /\ Len(workerPool) < MaxWorkers
    /\ workerPool' = Append(workerPool, w)
    /\ worker' = [worker EXCEPT ![w].pc = "select"]
    /\ UNCHANGED <<dispatcher, goroutine, jobQueue>>

(* The worker's loop: it offers its channel, then waits for a job or quit. *)
Register(w) ==
    /\ worker[w].pc = "register"
    /\ Len(workerPool) < MaxWorkers
    /\ workerPool' = Append(workerPool, w)
    /\ worker' = [worker EXCEPT ![w].pc = "select"]
    /\ UNCHANGED <<dispatcher, goroutine, jobQueue>>

(* Mutant: a worker ends with its first job.                               *)
HandledLast(w) ==
    /\ worker[w].pc = "handle"
    /\ goroutine' = [goroutine EXCEPT ![worker[w].job] = [pc |-> "none", to |-> 0]]
    /\ worker' = [worker EXCEPT ![w].pc = "done", ![w].job = 0]
    /\ UNCHANGED <<dispatcher, jobQueue, workerPool>>

(* The handler returns.                                                    *)
Handled(w) ==
    /\ worker[w].pc = "handle"
    /\ goroutine' = [goroutine EXCEPT ![worker[w].job] = [pc |-> "none", to |-> 0]]
    /\ worker' = [worker EXCEPT ![w].pc = "register", ![w].job = 0]
    /\ UNCHANGED <<dispatcher, jobQueue, workerPool>>

WorkerQuit(w) ==
    /\ worker[w].pc = "select"
    /\ worker[w].quit
    /\ worker' = [worker EXCEPT ![w].pc = "done"]
    /\ UNCHANGED <<dispatcher, goroutine, jobQueue, workerPool>>

-----------------------------------------------------------------------------
(* Stop closes d.quit and waits for Dispatch.                              *)
Stop ==
    /\ ~ dispatcher.quit
    /\ dispatcher' = [dispatcher EXCEPT !.quit = TRUE]
    /\ UNCHANGED <<worker, goroutine, jobQueue, workerPool>>

(* Mutant: the first worker is waited for but not told.                    *)
StopWorkersUntold ==
    /\ dispatcher.pc = "select"
    /\ dispatcher.quit
    /\ dispatcher' = [dispatcher EXCEPT !.pc = "stopping", !.at = 1]
    /\ UNCHANGED <<worker, goroutine, jobQueue, workerPool>>

(* Dispatch stops its workers one after the other, each when its handler   *)
(* has returned.  What is still queued is dropped.                         *)
StopWorkers ==
    /\ dispatcher.pc = "select"
    /\ dispatcher.quit
    /\ dispatcher' = [dispatcher EXCEPT !.pc = "stopping", !.at = 1]
    /\ worker' = [worker EXCEPT ![1].quit = TRUE]
    /\ UNCHANGED <<goroutine, jobQueue, workerPool>>

(* Mutant: w.quit is closed without waiting for the worker.                *)
StopNextUnawaited ==
    /\ dispatcher.pc = "stopping"
    /\ \/ /\ dispatcher.at < MaxWorkers
          /\ dispatcher' = [dispatcher EXCEPT !.at = @ + 1]
          /\ worker' = [worker EXCEPT ![dispatcher.at + 1].quit = TRUE]
       \/ /\ dispatcher.at = MaxWorkers
          /\ dispatcher' = [dispatcher EXCEPT !.pc = "stopped"]
          /\ UNCHANGED worker
    /\ UNCHANGED <<goroutine, jobQueue, workerPool>>

StopNext ==
    /\ dispatcher.pc = "stopping"
    /\ worker[dispatcher.at].pc = "done"
    /\ \/ /\ dispatcher.at < MaxWorkers
          /\ dispatcher' = [dispatcher EXCEPT !.at = @ + 1]
          /\ worker' = [worker EXCEPT ![dispatcher.at + 1].quit = TRUE]
       \/ /\ dispatcher.at = MaxWorkers
          /\ dispatcher' = [dispatcher EXCEPT !.pc = "stopped"]
          /\ UNCHANGED worker
    /\ UNCHANGED <<goroutine, jobQueue, workerPool>>

Next ==
    \/ Run \/ Stop \/ DispatchJob \/ StopWorkers \/ StopNext
    \/ \E j \in Jobs : Queue(j) \/ Enqueue(j) \/ TakeWorker(j) \/ Deliver(j)
    \/ \E w \in Workers : Register(w) \/ Handled(w) \/ WorkerQuit(w)

Spec == Init /\ [][Next]_vars

(***************************************************************************)
(* Goroutines run, handlers return (checks have a timeout), Go's channels  *)
(* serve waiting goroutines in order, and a select takes each ready case   *)
(* with the same probability.                                              *)
(***************************************************************************)
PoolFairSpec ==
    /\ Spec
    /\ \A j \in Jobs : /\ SF_vars(Enqueue(j)) /\ SF_vars(TakeWorker(j))
                       /\ WF_vars(Deliver(j))
    /\ \A w \in Workers : /\ WF_vars(Register(w)) /\ WF_vars(Handled(w))
                          /\ SF_vars(WorkerQuit(w))
    /\ WF_vars(DispatchJob) /\ SF_vars(StopWorkers) /\ WF_vars(StopNext)

-----------------------------------------------------------------------------
(* The jobs that are being sent to worker w, and its places in the pool.   *)
Holders(w) == {j \in Jobs : goroutine[j].pc = "send" /\ goroutine[j].to = w}

Offers(w) == {i \in 1..Len(workerPool) : workerPool[i] = w}

(* A worker is offered once: its channel is in WorkerPool or held by one   *)
(* goroutine while the worker waits (or has quit), and by none while it    *)
(* works, so that no worker gets two jobs and none is forgotten.           *)
OneOfferPerWorker ==
    \A w \in Workers :
        IF worker[w].pc \in {"select", "done"}
        THEN \/ Holders(w) = {} /\ \E i \in Offers(w) : Offers(w) = {i}
             \/ Offers(w) = {} /\ \E j \in Holders(w) : Holders(w) = {j}
        ELSE Holders(w) = {} /\ Offers(w) = {}

(***************************************************************************)
(* The dispatcher as a JobPool: a job runs while a worker has it.          *)
(***************************************************************************)
jobState == [j \in Jobs |-> CASE goroutine[j].pc = "none" -> "none"
                              [] goroutine[j].pc = "handled" -> "running"
                              [] OTHER -> "waiting"]

poolState == [run |-> dispatcher.pc # "new", quit |-> dispatcher.quit,
              closed |-> dispatcher.pc = "stopped"]

Promise == INSTANCE JobPool WITH job <- jobState, pool <- poolState

(* Each queued job is handled at most once, and no handler runs or is      *)
(* begun once Stop has returned.                                           *)
ImplementsJobPool == Promise!JobPoolSpec

(* Every job is handed to a worker unless the pool is stopped, however     *)
(* many jobs compete for the queue and the workers.                        *)
EveryJobHandled == Promise!EveryJobBegins

(* Stop returns: every worker that was run sees its quit channel, also one *)
(* that goroutines keep sending jobs to.                                   *)
StopReturns == Promise!ClosingEnds
=============================================================================

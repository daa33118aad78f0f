--------------------------- MODULE WorkerPoolProofs ------------------------
(***************************************************************************)
(* For any number of workers and jobs and any capacity of the queue: the   *)
(* dispatcher gives each job to one worker, and implements JobPool.        *)
(***************************************************************************)
EXTENDS WorkerPool, TLAPS

(* Every worker that waits is offered by exactly one holder of its channel.*)
OfferInv ==
    /\ \A i, k \in 1..Len(workerPool) : workerPool[i] = workerPool[k] => i = k
    /\ \A j, k \in Jobs :
          (/\ goroutine[j].pc = "send" /\ goroutine[k].pc = "send"
           /\ goroutine[j].to = goroutine[k].to) => j = k
    /\ \A i \in 1..Len(workerPool), j \in Jobs :
          goroutine[j].pc = "send" => workerPool[i] # goroutine[j].to
    /\ \A w \in Workers :
          worker[w].pc \in {"select", "done"}
            <=> \/ \E i \in 1..Len(workerPool) : workerPool[i] = w
                \/ \E j \in Jobs : goroutine[j].pc = "send" /\ goroutine[j].to = w

(* The queue holds the jobs whose goroutine has sent them, each once.      *)
QueueInv ==
    /\ \A i \in 1..Len(jobQueue) : goroutine[jobQueue[i]].pc = "queued"
    /\ \A i, k \in 1..Len(jobQueue) : jobQueue[i] = jobQueue[k] => i = k

(* A worker and the job it handles know of each other.                     *)
HandleInv ==
    /\ \A w \in Workers : worker[w].pc = "handle" =>
          /\ worker[w].job \in Jobs
          /\ goroutine[worker[w].job].pc = "handled"
          /\ goroutine[worker[w].job].to = w
    /\ \A j \in Jobs : goroutine[j].pc \in {"send", "handled"} => goroutine[j].to \in Workers
    /\ \A j \in Jobs : goroutine[j].pc = "handled" =>
          worker[goroutine[j].to].pc = "handle" /\ worker[goroutine[j].to].job = j

(* The workers before the one that Dispatch waits for have ended.          *)
StopInv ==
    /\ dispatcher.pc = "new" => \A w \in Workers : worker[w].pc = "new"
    /\ dispatcher.pc \in {"stopping", "stopped"} => dispatcher.quit
    /\ dispatcher.pc = "stopping" =>
          /\ dispatcher.at \in Workers
          /\ \A w \in Workers : w < dispatcher.at => worker[w].pc = "done"
    /\ dispatcher.pc = "stopped" => \A w \in Workers : worker[w].pc = "done"

PoolInv == PoolTypeOK /\ OfferInv /\ QueueInv /\ HandleInv /\ StopInv

GoState == [pc : {"none", "queue", "queued", "take", "send", "handled"}, to : 0..MaxWorkers]

WorkerState == [pc : {"new", "register", "select", "handle", "done"},
                job : Jobs \cup {0}, quit : BOOLEAN]

DispatcherState == [pc : {"new", "select", "stopping", "stopped"},
                    at : 0..MaxWorkers, quit : BOOLEAN]

-----------------------------------------------------------------------------
(* Sending to a buffered channel.                                          *)
LEMMA AppendFacts ==
    ASSUME NEW S, NEW s \in Seq(S), NEW x \in S
    PROVE  /\ Append(s, x) \in Seq(S)
           /\ Len(s) \in Nat /\ Len(Append(s, x)) = Len(s) + 1
           /\ \A i \in 1..Len(s) : Append(s, x)[i] = s[i]
           /\ Append(s, x)[Len(s) + 1] = x
OBVIOUS

(* Receiving from it.                                                      *)
LEMMA TailFacts ==
    ASSUME NEW S, NEW s \in Seq(S), s # <<>>
    PROVE  /\ Tail(s) \in Seq(S) /\ Head(s) = s[1] /\ Head(s) \in S
           /\ Len(s) \in Nat /\ Len(s) >= 1 /\ Len(Tail(s)) = Len(s) - 1
           /\ \A i \in 1..Len(Tail(s)) : i + 1 \in 1..Len(s) /\ Tail(s)[i] = s[i + 1]
           /\ \A i \in 1..Len(s) : i = 1 \/ (i - 1 \in 1..Len(Tail(s)) /\ Tail(s)[i - 1] = s[i])
OBVIOUS

(* The type invariant in terms of the sets of states named above.          *)
LEMMA PoolTypes ==
    PoolTypeOK <=> /\ dispatcher \in DispatcherState /\ worker \in [Workers -> WorkerState]
                   /\ goroutine \in [Jobs -> GoState]
                   /\ jobQueue \in Seq(Jobs) /\ workerPool \in Seq(Workers)
BY DEF PoolTypeOK, DispatcherState, WorkerState, GoState

(* A new dispatcher with no workers started and no jobs satisfies the      *)
(* invariant.                                                              *)
LEMMA InitInv == Init => PoolInv
<1> SUFFICES ASSUME Init PROVE PoolInv
  OBVIOUS
<1>1. PoolTypeOK
  <2>1. 0 \in 0..MaxWorkers
    BY PoolAssumption
  <2> QED BY <2>1 DEF Init, PoolTypeOK
<1>2. OfferInv /\ QueueInv /\ HandleInv /\ StopInv
  BY DEF Init, OfferInv, QueueInv, HandleInv, StopInv
<1> QED BY <1>1, <1>2 DEF PoolInv

(* A worker that waits is offered once.                                    *)
LEMMA OfferedOnce == OfferInv => OneOfferPerWorker
<1> SUFFICES ASSUME OfferInv, NEW w \in Workers
             PROVE  IF worker[w].pc \in {"select", "done"}
                    THEN \/ Holders(w) = {} /\ \E i \in Offers(w) : Offers(w) = {i}
                         \/ Offers(w) = {} /\ \E j \in Holders(w) : Holders(w) = {j}
                    ELSE Holders(w) = {} /\ Offers(w) = {}
  BY DEF OneOfferPerWorker
<1>1. CASE \E i \in 1..Len(workerPool) : workerPool[i] = w
  BY <1>1 DEF OfferInv, Holders, Offers
<1>2. CASE \E j \in Jobs : goroutine[j].pc = "send" /\ goroutine[j].to = w
  BY <1>2 DEF OfferInv, Holders, Offers
<1>3. CASE worker[w].pc \notin {"select", "done"}
  BY <1>3 DEF OfferInv, Holders, Offers
<1> QED BY <1>1, <1>2, <1>3 DEF OfferInv

-----------------------------------------------------------------------------
(* A step that moves job j on, without a worker being involved.            *)
LEMMA MovesJob ==
    ASSUME PoolInv, NEW j \in Jobs, NEW pc \in {"queue", "queued", "take"},
           goroutine[j].pc \in {"none", "queue", "queued"},
           goroutine' = [goroutine EXCEPT ![j].pc = pc],
           UNCHANGED <<dispatcher, worker, workerPool>>
    PROVE  /\ goroutine' \in [Jobs -> GoState]
           /\ goroutine'[j].pc = pc
           /\ \A k \in Jobs : k # j => goroutine'[k] = goroutine[k]
           /\ OfferInv' /\ HandleInv' /\ StopInv'
<1>1. goroutine \in [Jobs -> GoState]
  BY PoolTypes DEF PoolInv
<1>2. goroutine' \in [Jobs -> GoState]
  BY <1>1 DEF GoState
<1>3. goroutine'[j].pc = pc /\ \A k \in Jobs : k # j => goroutine'[k] = goroutine[k]
  BY <1>1 DEF GoState
<1>4. \A k \in Jobs : goroutine'[k] = goroutine[k]
                       \/ (/\ goroutine[k].pc \notin {"send", "handled"}
                          /\ goroutine'[k].pc \notin {"send", "handled"})
  BY <1>3
<1>5. OfferInv'
  BY <1>4 DEF PoolInv, OfferInv
<1>6. HandleInv'
  <2>1. \A w \in Workers : worker[w].pc = "handle" =>
           /\ worker[w].job \in Jobs
           /\ goroutine'[worker[w].job].pc = "handled"
           /\ goroutine'[worker[w].job].to = w
    BY <1>4 DEF PoolInv, HandleInv
  <2>2. \A k \in Jobs : goroutine'[k].pc \in {"send", "handled"} => goroutine'[k].to \in Workers
    BY <1>4 DEF PoolInv, HandleInv
  <2>3. \A k \in Jobs : goroutine'[k].pc = "handled" =>
           worker[goroutine'[k].to].pc = "handle" /\ worker[goroutine'[k].to].job = k
    BY <1>4 DEF PoolInv, HandleInv
  <2> QED BY <2>1, <2>2, <2>3 DEF HandleInv
<1> QED BY <1>2, <1>3, <1>5, <1>6 DEF PoolInv, StopInv

(* A job enters the queue once, from a goroutine that had not sent it.     *)
LEMMA QueueSteps ==
    ASSUME PoolInv, NEW j \in Jobs, Queue(j) \/ Enqueue(j)
    PROVE  PoolInv'
<1>1. jobQueue \in Seq(Jobs) /\ goroutine \in [Jobs -> GoState]
  BY PoolTypes DEF PoolInv
<1>2. CASE Queue(j)
  <2>1. /\ goroutine' \in [Jobs -> GoState] /\ OfferInv' /\ HandleInv' /\ StopInv'
        /\ \A k \in Jobs : k # j => goroutine'[k] = goroutine[k]
    BY <1>2, MovesJob DEF Queue
  <2>2. UNCHANGED <<dispatcher, worker, jobQueue, workerPool>> /\ goroutine[j].pc = "none"
    BY <1>2 DEF Queue
  <2>3. PoolTypeOK'
    BY <2>1, <2>2, PoolTypes DEF PoolInv, PoolTypeOK, GoState
  <2>4. QueueInv'
    BY <1>1, <2>1, <2>2 DEF PoolInv, QueueInv
  <2> QED BY <2>1, <2>3, <2>4 DEF PoolInv
<1>3. CASE Enqueue(j)
  <2>1. /\ goroutine' \in [Jobs -> GoState] /\ OfferInv' /\ HandleInv' /\ StopInv'
        /\ goroutine'[j].pc = "queued"
        /\ \A k \in Jobs : k # j => goroutine'[k] = goroutine[k]
    BY <1>3, MovesJob DEF Enqueue
  <2>2. /\ UNCHANGED <<dispatcher, worker, workerPool>> /\ goroutine[j].pc = "queue"
        /\ jobQueue' = Append(jobQueue, j)
    BY <1>3 DEF Enqueue
  <2>3. /\ jobQueue' \in Seq(Jobs) /\ Len(jobQueue) \in Nat /\ Len(jobQueue') = Len(jobQueue) + 1
        /\ \A i \in 1..Len(jobQueue) : jobQueue'[i] = jobQueue[i]
        /\ jobQueue'[Len(jobQueue) + 1] = j
    BY <1>1, <2>2, AppendFacts
  <2>4. PoolTypeOK'
    BY <2>1, <2>2, <2>3 DEF PoolInv, PoolTypeOK, GoState
  <2>5. \A i \in 1..Len(jobQueue) : jobQueue[i] \in Jobs /\ jobQueue[i] # j
    BY <1>1, <2>2 DEF PoolInv, QueueInv
  <2>6. 1..Len(jobQueue') = 1..Len(jobQueue) \cup {Len(jobQueue) + 1}
    BY <2>3
  <2>7. QueueInv'
    BY <2>1, <2>3, <2>5, <2>6 DEF PoolInv, QueueInv
  <2> QED BY <2>1, <2>4, <2>7 DEF PoolInv
<1> QED BY <1>2, <1>3

(* Dispatch takes the first job off the queue, where it is not again, and  *)
(* leaves it to its goroutine.                                             *)
LEMMA DispatchInv ==
    ASSUME PoolInv, DispatchJob
    PROVE  PoolInv'
<1> DEFINE j == Head(jobQueue)
<1>1. jobQueue \in Seq(Jobs) /\ jobQueue # <<>> /\ goroutine \in [Jobs -> GoState]
  BY PoolTypes DEF PoolInv, DispatchJob
<1>2. /\ jobQueue' = Tail(jobQueue) /\ goroutine' = [goroutine EXCEPT ![j].pc = "take"]
      /\ UNCHANGED <<dispatcher, worker, workerPool>>
  BY DEF DispatchJob
<1>3. /\ jobQueue' \in Seq(Jobs) /\ j = jobQueue[1] /\ j \in Jobs
      /\ Len(jobQueue) \in Nat /\ Len(jobQueue) >= 1 /\ Len(jobQueue') = Len(jobQueue) - 1
      /\ \A i \in 1..Len(jobQueue') : i + 1 \in 1..Len(jobQueue) /\ jobQueue'[i] = jobQueue[i + 1]
  BY <1>1, <1>2, TailFacts
<1>4. 1 \in 1..Len(jobQueue) /\ goroutine[j].pc = "queued"
  BY <1>3 DEF PoolInv, QueueInv
<1>5. /\ goroutine' \in [Jobs -> GoState] /\ OfferInv' /\ HandleInv' /\ StopInv'
      /\ \A k \in Jobs : k # j => goroutine'[k] = goroutine[k]
  BY <1>2, <1>3, <1>4, MovesJob
<1>6. \A i \in 1..Len(jobQueue') : jobQueue'[i] \in Jobs /\ jobQueue'[i] # j
  <2> SUFFICES ASSUME NEW i \in 1..Len(jobQueue') PROVE jobQueue'[i] \in Jobs /\ jobQueue'[i] # j
    OBVIOUS
  <2>1. jobQueue[i + 1] = jobQueue'[i] /\ i + 1 \in 1..Len(jobQueue) /\ i + 1 # 1
    BY <1>3
  <2>2. jobQueue[i + 1] # jobQueue[1]
    BY <2>1, <1>4 DEF PoolInv, QueueInv
  <2> QED BY <1>1, <1>3, <2>1, <2>2
<1>7. QueueInv'
  <2>1. \A i \in 1..Len(jobQueue') : goroutine'[jobQueue'[i]].pc = "queued"
    BY <1>3, <1>5, <1>6 DEF PoolInv, QueueInv
  <2>2. \A i, k \in 1..Len(jobQueue') : jobQueue'[i] = jobQueue'[k] => i = k
    BY <1>3 DEF PoolInv, QueueInv
  <2> QED BY <2>1, <2>2 DEF QueueInv
<1>8. PoolTypeOK'
  BY <1>2, <1>3, <1>5 DEF PoolInv, PoolTypeOK, GoState
<1> QED BY <1>5, <1>7, <1>8 DEF PoolInv

(* The worker at the head of the pool is offered by the goroutine instead. *)
LEMMA TakeWorkerInv ==
    ASSUME PoolInv, NEW j \in Jobs, TakeWorker(j)
    PROVE  PoolInv'
<1> DEFINE w == Head(workerPool)
           n == Len(workerPool)
<1>1. /\ workerPool \in Seq(Workers) /\ workerPool # <<>> /\ goroutine \in [Jobs -> GoState]
      /\ jobQueue \in Seq(Jobs) /\ goroutine[j].pc = "take"
  BY PoolTypes DEF PoolInv, TakeWorker
<1>2. /\ workerPool' = Tail(workerPool)
      /\ goroutine' = [goroutine EXCEPT ![j] = [pc |-> "send", to |-> w]]
      /\ UNCHANGED <<dispatcher, worker, jobQueue>>
  BY DEF TakeWorker
<1>3. /\ workerPool' \in Seq(Workers) /\ w = workerPool[1] /\ w \in Workers
      /\ n \in Nat /\ n >= 1 /\ Len(workerPool') = n - 1
      /\ \A i \in 1..Len(workerPool') : i + 1 \in 1..n /\ workerPool'[i] = workerPool[i + 1]
      /\ \A i \in 1..n : i = 1 \/ (i - 1 \in 1..Len(workerPool') /\ workerPool'[i - 1] = workerPool[i])
  BY <1>1, <1>2, TailFacts
<1>4. /\ goroutine'[j].pc = "send" /\ goroutine'[j].to = w
      /\ \A k \in Jobs : k # j => goroutine'[k] = goroutine[k]
      /\ 1 \in 1..n
  BY <1>1, <1>2, <1>3
<1>5. goroutine' \in [Jobs -> GoState]
  BY <1>1, <1>2, <1>3 DEF GoState, Workers
<1>6. PoolTypeOK'
  BY <1>2, <1>3, <1>5 DEF PoolInv, PoolTypeOK, GoState
<1>7. OfferInv'
  <2>1. \A i, k \in 1..Len(workerPool') : workerPool'[i] = workerPool'[k] => i = k
    BY <1>3 DEF PoolInv, OfferInv
  <2>2. \A i \in 1..n, k \in Jobs : goroutine[k].pc = "send" => workerPool[i] # goroutine[k].to
    BY DEF PoolInv, OfferInv
  <2>3. \A i, k \in Jobs :
           (/\ goroutine'[i].pc = "send" /\ goroutine'[k].pc = "send"
            /\ goroutine'[i].to = goroutine'[k].to) => i = k
    BY <1>1, <1>3, <1>4, <2>2 DEF PoolInv, OfferInv
  <2>4. \A i \in 1..Len(workerPool') : workerPool'[i] # w
    <3> SUFFICES ASSUME NEW i \in 1..Len(workerPool') PROVE workerPool'[i] # w
      OBVIOUS
    <3>1. i + 1 \in 1..n /\ i + 1 # 1 /\ workerPool'[i] = workerPool[i + 1]
      BY <1>3
    <3> QED BY <1>3, <1>4, <3>1 DEF PoolInv, OfferInv
  <2>5. \A i \in 1..Len(workerPool'), k \in Jobs :
           goroutine'[k].pc = "send" => workerPool'[i] # goroutine'[k].to
    BY <1>3, <1>4, <2>2, <2>4
  <2>6. \A v \in Workers :
           (\/ \E i \in 1..n : workerPool[i] = v
            \/ \E k \in Jobs : goroutine[k].pc = "send" /\ goroutine[k].to = v)
           <=> (\/ \E i \in 1..Len(workerPool') : workerPool'[i] = v
                \/ \E k \in Jobs : goroutine'[k].pc = "send" /\ goroutine'[k].to = v)
    <3> SUFFICES ASSUME NEW v \in Workers
                 PROVE  (\/ \E i \in 1..n : workerPool[i] = v
                         \/ \E k \in Jobs : goroutine[k].pc = "send" /\ goroutine[k].to = v)
                        <=> (\/ \E i \in 1..Len(workerPool') : workerPool'[i] = v
                             \/ \E k \in Jobs : goroutine'[k].pc = "send" /\ goroutine'[k].to = v)
      OBVIOUS
    <3>1. CASE v = w
      BY <1>3, <1>4, <3>1
    <3>2. CASE v # w
      <4>1. (\E i \in 1..n : workerPool[i] = v) <=> \E i \in 1..Len(workerPool') : workerPool'[i] = v
        BY <1>3, <3>2
      <4>2. \A k \in Jobs : (goroutine[k].pc = "send" /\ goroutine[k].to = v)
                            <=> (goroutine'[k].pc = "send" /\ goroutine'[k].to = v)
        BY <1>1, <1>4, <3>2
      <4> QED BY <4>1, <4>2
    <3> QED BY <3>1, <3>2
  <2>7. \A v \in Workers :
           worker[v].pc \in {"select", "done"}
             <=> \/ \E i \in 1..Len(workerPool') : workerPool'[i] = v
                 \/ \E k \in Jobs : goroutine'[k].pc = "send" /\ goroutine'[k].to = v
    BY <2>6 DEF PoolInv, OfferInv
  <2> QED BY <1>2, <2>1, <2>3, <2>5, <2>7 DEF OfferInv
<1>8. QueueInv'
  <2>1. \A i \in 1..Len(jobQueue) : jobQueue[i] \in Jobs /\ jobQueue[i] # j
    BY <1>1 DEF PoolInv, QueueInv
  <2> QED BY <1>2, <1>4, <2>1 DEF PoolInv, QueueInv
<1>9. HandleInv'
  <2>1. \A v \in Workers : worker[v].pc = "handle" =>
           worker[v].job # j /\ worker[v].job \in Jobs
    BY <1>1 DEF PoolInv, HandleInv
  <2>2. \A v \in Workers : worker[v].pc = "handle" =>
           /\ worker[v].job \in Jobs
           /\ goroutine'[worker[v].job].pc = "handled"
           /\ goroutine'[worker[v].job].to = v
    BY <1>4, <2>1 DEF PoolInv, HandleInv
  <2>3. \A k \in Jobs : goroutine'[k].pc \in {"send", "handled"} => goroutine'[k].to \in Workers
    BY <1>3, <1>4 DEF PoolInv, HandleInv
  <2>4. \A k \in Jobs : goroutine'[k].pc = "handled" =>
           worker[goroutine'[k].to].pc = "handle" /\ worker[goroutine'[k].to].job = k
    BY <1>4 DEF PoolInv, HandleInv
  <2> QED BY <1>2, <2>2, <2>3, <2>4 DEF HandleInv
<1>10. StopInv'
  BY <1>2 DEF PoolInv, StopInv
<1> QED BY <1>6, <1>7, <1>8, <1>9, <1>10 DEF PoolInv

(* The worker a job is sent to is offered by nobody else, and takes it.    *)
LEMMA DeliverInv ==
    ASSUME PoolInv, NEW j \in Jobs, Deliver(j)
    PROVE  PoolInv'
<1> DEFINE w == goroutine[j].to
<1>1. /\ worker \in [Workers -> WorkerState] /\ goroutine \in [Jobs -> GoState]
      /\ jobQueue \in Seq(Jobs)
      /\ goroutine[j].pc = "send" /\ worker[w].pc = "select" /\ w \in Workers
  BY PoolTypes DEF PoolInv, Deliver, HandleInv
<1>2. /\ worker' = [worker EXCEPT ![w].pc = "handle", ![w].job = j]
      /\ goroutine' = [goroutine EXCEPT ![j].pc = "handled"]
      /\ UNCHANGED <<dispatcher, jobQueue, workerPool>>
  BY DEF Deliver
<1>3. /\ worker' \in [Workers -> WorkerState]
      /\ worker'[w].pc = "handle" /\ worker'[w].job = j
      /\ \A v \in Workers : v # w => worker'[v] = worker[v]
  BY <1>1, <1>2 DEF WorkerState
<1>4. /\ goroutine' \in [Jobs -> GoState]
      /\ goroutine'[j].pc = "handled" /\ goroutine'[j].to = w
      /\ \A k \in Jobs : k # j => goroutine'[k] = goroutine[k]
  BY <1>1, <1>2 DEF GoState
<1>5. PoolTypeOK'
  BY <1>2, <1>3, <1>4 DEF PoolInv, PoolTypeOK, WorkerState, GoState
<1>6. OfferInv'
  <2>1. \A i \in 1..Len(workerPool) : workerPool[i] # w
    BY <1>1 DEF PoolInv, OfferInv
  <2>2. \A k \in Jobs : goroutine'[k].pc = "send" =>
           k # j /\ goroutine'[k] = goroutine[k] /\ goroutine[k].to # w
    BY <1>1, <1>4 DEF PoolInv, OfferInv
  <2>3. \A v \in Workers :
           worker'[v].pc \in {"select", "done"}
             <=> \/ \E i \in 1..Len(workerPool) : workerPool[i] = v
                 \/ \E k \in Jobs : goroutine'[k].pc = "send" /\ goroutine'[k].to = v
    <3> SUFFICES ASSUME NEW v \in Workers
                 PROVE  worker'[v].pc \in {"select", "done"}
                         <=> \/ \E i \in 1..Len(workerPool) : workerPool[i] = v
                             \/ \E k \in Jobs : goroutine'[k].pc = "send" /\ goroutine'[k].to = v
      OBVIOUS
    <3>1. CASE v = w
      BY <1>3, <2>1, <2>2, <3>1
    <3>2. CASE v # w
      <4>1. worker'[v] = worker[v]
        BY <1>3, <3>2
      <4>2. \A k \in Jobs : (goroutine[k].pc = "send" /\ goroutine[k].to = v)
                            <=> (goroutine'[k].pc = "send" /\ goroutine'[k].to = v)
        BY <1>4, <3>2
      <4> QED BY <4>1, <4>2 DEF PoolInv, OfferInv
    <3> QED BY <3>1, <3>2
  <2>4. \A i, k \in Jobs :
           (/\ goroutine'[i].pc = "send" /\ goroutine'[k].pc = "send"
            /\ goroutine'[i].to = goroutine'[k].to) => i = k
    BY <2>2 DEF PoolInv, OfferInv
  <2>5. \A i \in 1..Len(workerPool), k \in Jobs :
           goroutine'[k].pc = "send" => workerPool[i] # goroutine'[k].to
    BY <2>2 DEF PoolInv, OfferInv
  <2>6. \A i, k \in 1..Len(workerPool) : workerPool[i] = workerPool[k] => i = k
    BY DEF PoolInv, OfferInv
  <2>7. workerPool' = workerPool
    BY <1>2
  <2> QED BY <2>3, <2>4, <2>5, <2>6, <2>7 DEF OfferInv
<1>7. QueueInv'
  <2>1. \A i \in 1..Len(jobQueue) : jobQueue[i] \in Jobs /\ jobQueue[i] # j
    BY <1>1 DEF PoolInv, QueueInv
  <2> QED BY <1>2, <1>4, <2>1 DEF PoolInv, QueueInv
<1>8. HandleInv'
  <2>1. \A v \in Workers : worker'[v].pc = "handle" =>
           /\ worker'[v].job \in Jobs
           /\ goroutine'[worker'[v].job].pc = "handled"
           /\ goroutine'[worker'[v].job].to = v
    BY <1>1, <1>3, <1>4 DEF PoolInv, HandleInv
  <2>2. \A k \in Jobs : goroutine'[k].pc \in {"send", "handled"} => goroutine'[k].to \in Workers
    BY <1>1, <1>4 DEF PoolInv, HandleInv
  <2>3. \A k \in Jobs : goroutine'[k].pc = "handled" =>
           worker'[goroutine'[k].to].pc = "handle" /\ worker'[goroutine'[k].to].job = k
    BY <1>1, <1>3, <1>4 DEF PoolInv, HandleInv
  <2> QED BY <2>1, <2>2, <2>3 DEF HandleInv
<1>9. StopInv'
  BY <1>1, <1>2, <1>3 DEF PoolInv, StopInv
<1> QED BY <1>5, <1>6, <1>7, <1>8, <1>9 DEF PoolInv

(* A worker whose job is done is in nobody's hands: it offers itself once. *)
LEMMA RegisterInv ==
    ASSUME PoolInv, NEW w \in Workers, Register(w)
    PROVE  PoolInv'
<1> DEFINE n == Len(workerPool)
<1>1. /\ worker \in [Workers -> WorkerState] /\ workerPool \in Seq(Workers)
      /\ worker[w].pc = "register"
  BY PoolTypes DEF PoolInv, Register
<1>2. /\ workerPool' = Append(workerPool, w) /\ worker' = [worker EXCEPT ![w].pc = "select"]
      /\ UNCHANGED <<dispatcher, goroutine, jobQueue>>
  BY DEF Register
<1>3. /\ worker' \in [Workers -> WorkerState] /\ worker'[w].pc = "select"
      /\ \A v \in Workers : v # w => worker'[v] = worker[v]
  BY <1>1, <1>2 DEF WorkerState
<1>4. /\ workerPool' \in Seq(Workers) /\ n \in Nat /\ Len(workerPool') = n + 1
      /\ \A i \in 1..n : workerPool'[i] = workerPool[i]
      /\ workerPool'[n + 1] = w
  BY <1>1, <1>2, AppendFacts
<1>5. 1..Len(workerPool') = 1..n \cup {n + 1}
  BY <1>4
<1>6. /\ \A i \in 1..n : workerPool[i] # w
      /\ \A k \in Jobs : goroutine[k].pc = "send" => goroutine[k].to # w
  BY <1>1 DEF PoolInv, OfferInv
<1>7. PoolTypeOK'
  BY <1>2, <1>3, <1>4 DEF PoolInv, PoolTypeOK, WorkerState
<1>8. OfferInv'
  <2>1. \A i, k \in 1..Len(workerPool') : workerPool'[i] = workerPool'[k] => i = k
    BY <1>4, <1>5, <1>6 DEF PoolInv, OfferInv
  <2>2. \A i \in 1..Len(workerPool'), k \in Jobs :
           goroutine[k].pc = "send" => workerPool'[i] # goroutine[k].to
    BY <1>4, <1>5, <1>6 DEF PoolInv, OfferInv
  <2>3. \A v \in Workers :
           worker'[v].pc \in {"select", "done"}
             <=> \/ \E i \in 1..Len(workerPool') : workerPool'[i] = v
                 \/ \E k \in Jobs : goroutine[k].pc = "send" /\ goroutine[k].to = v
    <3> SUFFICES ASSUME NEW v \in Workers
                 PROVE  worker'[v].pc \in {"select", "done"}
                         <=> \/ \E i \in 1..Len(workerPool') : workerPool'[i] = v
                             \/ \E k \in Jobs : goroutine[k].pc = "send" /\ goroutine[k].to = v
      OBVIOUS
    <3>1. CASE v = w
      BY <1>3, <1>4, <1>5, <3>1
    <3>2. CASE v # w
      <4>1. worker'[v] = worker[v]
        BY <1>3, <3>2
      <4>2. (\E i \in 1..n : workerPool[i] = v) <=> \E i \in 1..Len(workerPool') : workerPool'[i] = v
        BY <1>4, <1>5, <3>2
      <4> QED BY <4>1, <4>2 DEF PoolInv, OfferInv
    <3> QED BY <3>1, <3>2
  <2>4. \A j, k \in Jobs :
           (/\ goroutine[j].pc = "send" /\ goroutine[k].pc = "send"
            /\ goroutine[j].to = goroutine[k].to) => j = k
    BY DEF PoolInv, OfferInv
  <2> QED BY <1>2, <2>1, <2>2, <2>3, <2>4 DEF OfferInv
<1>9. QueueInv'
  BY <1>2 DEF PoolInv, QueueInv
<1>10. HandleInv'
  BY <1>1, <1>2, <1>3 DEF PoolInv, HandleInv
<1>11. StopInv'
  BY <1>1, <1>2, <1>3 DEF PoolInv, StopInv
<1> QED BY <1>7, <1>8, <1>9, <1>10, <1>11 DEF PoolInv

(* A worker whose handler returns lets go of its job and is not offered    *)
(* before it registers again.                                              *)
LEMMA HandledInv ==
    ASSUME PoolInv, NEW w \in Workers, Handled(w)
    PROVE  PoolInv'
<1> DEFINE j == worker[w].job
<1>1. /\ worker \in [Workers -> WorkerState] /\ goroutine \in [Jobs -> GoState]
      /\ jobQueue \in Seq(Jobs) /\ worker[w].pc = "handle"
  BY PoolTypes DEF PoolInv, Handled
<1>2. j \in Jobs /\ goroutine[j].pc = "handled" /\ goroutine[j].to = w
  BY <1>1 DEF PoolInv, HandleInv
<1>3. /\ worker' = [worker EXCEPT ![w].pc = "register", ![w].job = 0]
      /\ goroutine' = [goroutine EXCEPT ![j] = [pc |-> "none", to |-> 0]]
      /\ UNCHANGED <<dispatcher, jobQueue, workerPool>>
  BY DEF Handled
<1>4. /\ worker' \in [Workers -> WorkerState] /\ worker'[w].pc = "register"
      /\ \A v \in Workers : v # w => worker'[v] = worker[v]
  BY <1>1, <1>3 DEF WorkerState
<1>5. /\ goroutine' \in [Jobs -> GoState] /\ goroutine'[j].pc = "none"
      /\ \A k \in Jobs : k # j => goroutine'[k] = goroutine[k]
  BY <1>1, <1>2, <1>3, PoolAssumption DEF GoState
<1>6. PoolTypeOK'
  BY <1>3, <1>4, <1>5 DEF PoolInv, PoolTypeOK, WorkerState, GoState
<1>7. OfferInv'
  <2>1. \A k \in Jobs : goroutine'[k] = goroutine[k]
                         \/ (goroutine'[k].pc # "send" /\ goroutine[k].pc # "send")
    BY <1>2, <1>5
  <2>2. \A v \in Workers : worker'[v].pc \in {"select", "done"} <=> worker[v].pc \in {"select", "done"}
    BY <1>1, <1>4
  <2>3. workerPool' = workerPool
    BY <1>3
  <2>4. OfferInv
    BY DEF PoolInv
  <2> QED BY <2>1, <2>2, <2>3, <2>4 DEF OfferInv
<1>8. QueueInv'
  <2>1. \A i \in 1..Len(jobQueue) : jobQueue[i] \in Jobs /\ jobQueue[i] # j
    BY <1>1, <1>2 DEF PoolInv, QueueInv
  <2> QED BY <1>3, <1>5, <2>1 DEF PoolInv, QueueInv
<1>9. HandleInv'
  <2>1. \A v \in Workers : worker'[v].pc = "handle" => v # w /\ worker[v].job # j
    BY <1>2, <1>4 DEF PoolInv, HandleInv
  <2>2. \A v \in Workers : worker'[v].pc = "handle" =>
           /\ worker'[v].job \in Jobs
           /\ goroutine'[worker'[v].job].pc = "handled"
           /\ goroutine'[worker'[v].job].to = v
    BY <1>4, <1>5, <2>1 DEF PoolInv, HandleInv
  <2>3. \A k \in Jobs : goroutine'[k].pc \in {"send", "handled"} => goroutine'[k].to \in Workers
    BY <1>5 DEF PoolInv, HandleInv
  <2>4. ASSUME NEW k \in Jobs, goroutine'[k].pc = "handled"
        PROVE  worker'[goroutine'[k].to].pc = "handle" /\ worker'[goroutine'[k].to].job = k
    <3>1. k # j /\ goroutine'[k] = goroutine[k]
      BY <1>5, <2>4
    <3>2. /\ goroutine[k].to \in Workers /\ worker[goroutine[k].to].pc = "handle"
          /\ worker[goroutine[k].to].job = k
      BY <2>4, <3>1 DEF PoolInv, HandleInv
    <3>3. goroutine[k].to # w
      BY <3>1, <3>2
    <3> QED BY <1>4, <3>1, <3>2, <3>3
  <2> QED BY <2>2, <2>3, <2>4 DEF HandleInv
<1>10. StopInv'
  BY <1>1, <1>3, <1>4 DEF PoolInv, StopInv
<1> QED BY <1>6, <1>7, <1>8, <1>9, <1>10 DEF PoolInv

(* Steps of the dispatcher, and a worker's last: they change no job, and   *)
(* no worker's place.                                                      *)
LEMMA StopSteps ==
    ASSUME PoolInv, UNCHANGED <<goroutine, jobQueue, workerPool>>,
           dispatcher' \in DispatcherState, worker' \in [Workers -> WorkerState],
           \A w \in Workers :
              /\ worker'[w].pc = worker[w].pc \/ (worker[w].pc = "select" /\ worker'[w].pc = "done")
                  \/ (worker[w].pc = "new" /\ worker'[w].pc = "register")
              /\ worker'[w].job = worker[w].job,
           StopInv'
    PROVE  PoolInv'
<1>1. PoolTypeOK'
  BY DEF PoolInv, PoolTypeOK, DispatcherState, WorkerState
<1>2. OfferInv'
  <2>1. \A v \in Workers : worker'[v].pc \in {"select", "done"} <=> worker[v].pc \in {"select", "done"}
    OBVIOUS
  <2>2. OfferInv /\ goroutine' = goroutine /\ workerPool' = workerPool
    BY DEF PoolInv
  <2> QED BY <2>1, <2>2 DEF OfferInv
<1>3. QueueInv'
  BY DEF PoolInv, QueueInv
<1>4. HandleInv'
  BY DEF PoolInv, HandleInv
<1> QED BY <1>1, <1>2, <1>3, <1>4 DEF PoolInv

(* Starting the workers, and stopping them one after the other.            *)
LEMMA DispatcherInv ==
    ASSUME PoolInv,
           Run \/ Stop \/ StopWorkers \/ StopNext \/ \E w \in Workers : WorkerQuit(w)
    PROVE  PoolInv'
<1>1. dispatcher \in DispatcherState /\ worker \in [Workers -> WorkerState]
  BY PoolTypes DEF PoolInv
<1>2. CASE Run
  <2>1. /\ dispatcher' \in DispatcherState /\ dispatcher'.pc = "select"
        /\ worker' \in [Workers -> WorkerState]
        /\ \A w \in Workers : worker'[w].pc = "register" /\ worker'[w].job = worker[w].job
    BY <1>1, <1>2 DEF Run, DispatcherState, WorkerState
  <2>2. \A w \in Workers : worker[w].pc = "new"
    BY <1>2 DEF Run, PoolInv, StopInv
  <2>3. StopInv'
    BY <2>1 DEF StopInv
  <2> QED BY <1>2, <2>1, <2>2, <2>3, StopSteps DEF Run
<1>3. CASE Stop
  <2>1. dispatcher' \in DispatcherState /\ dispatcher'.pc = dispatcher.pc /\ dispatcher'.at = dispatcher.at
          /\ dispatcher'.quit
    BY <1>1, <1>3 DEF Stop, DispatcherState
  <2>2. StopInv'
    BY <1>3, <2>1 DEF Stop, PoolInv, StopInv
  <2> QED BY <1>1, <1>3, <2>1, <2>2, StopSteps DEF Stop
<1>4. CASE StopWorkers
  <2>1. 1 \in Workers /\ 1 \in 0..MaxWorkers /\ \A w \in Workers : ~ (w < 1)
    BY PoolAssumption DEF Workers
  <2>2. /\ dispatcher' \in DispatcherState /\ dispatcher'.pc = "stopping"
        /\ dispatcher'.at = 1 /\ dispatcher'.quit
    BY <1>1, <1>4, <2>1 DEF StopWorkers, DispatcherState
  <2>3. /\ worker' \in [Workers -> WorkerState]
        /\ \A w \in Workers : worker'[w].pc = worker[w].pc /\ worker'[w].job = worker[w].job
    BY <1>1, <1>4 DEF StopWorkers, WorkerState
  <2>4. StopInv'
    BY <2>1, <2>2 DEF StopInv
  <2> QED BY <1>4, <2>2, <2>3, <2>4, StopSteps DEF StopWorkers
<1>5. CASE StopNext
  <2>0. worker' = worker \/ worker' = [worker EXCEPT ![dispatcher.at + 1].quit = TRUE]
    BY <1>5 DEF StopNext
  <2>1. /\ worker' \in [Workers -> WorkerState]
        /\ \A w \in Workers : worker'[w].pc = worker[w].pc /\ worker'[w].job = worker[w].job
    <3>1. CASE worker' = worker
      BY <1>1, <3>1
    <3>2. CASE worker' = [worker EXCEPT ![dispatcher.at + 1].quit = TRUE]
      <4>1. ASSUME NEW n, worker' = [worker EXCEPT ![n].quit = TRUE]
            PROVE  /\ worker' \in [Workers -> WorkerState]
                   /\ \A w \in Workers : worker'[w].pc = worker[w].pc /\ worker'[w].job = worker[w].job
        BY <1>1, <4>1 DEF WorkerState
      <4> QED BY <3>2, <4>1
    <3> QED BY <2>0, <3>1, <3>2
  <2>2. /\ dispatcher.pc = "stopping" /\ worker[dispatcher.at].pc = "done" /\ dispatcher.quit
        /\ dispatcher.at \in Workers /\ \A w \in Workers : w < dispatcher.at => worker[w].pc = "done"
    BY <1>5 DEF StopNext, PoolInv, StopInv
  <2>3. \A w \in Workers : w <= dispatcher.at => worker[w].pc = "done"
    BY <2>2 DEF Workers
  <2>4. CASE dispatcher' = [dispatcher EXCEPT !.at = @ + 1] /\ dispatcher.at < MaxWorkers
    <3>1. /\ dispatcher' \in DispatcherState /\ dispatcher'.pc = "stopping"
          /\ dispatcher'.at = dispatcher.at + 1 /\ dispatcher'.quit
      BY <1>1, <2>2, <2>4, PoolAssumption DEF DispatcherState, Workers
    <3>2. dispatcher'.at \in Workers /\ \A w \in Workers : w < dispatcher'.at => w <= dispatcher.at
      BY <2>2, <2>4, <3>1, PoolAssumption DEF Workers
    <3>3. StopInv'
      BY <2>1, <2>3, <3>1, <3>2 DEF StopInv
    <3> QED BY <1>5, <2>1, <3>1, <3>3, StopSteps DEF StopNext
  <2>5. CASE dispatcher' = [dispatcher EXCEPT !.pc = "stopped"] /\ dispatcher.at = MaxWorkers
    <3>1. dispatcher' \in DispatcherState /\ dispatcher'.pc = "stopped" /\ dispatcher'.quit
      BY <1>1, <2>2, <2>5 DEF DispatcherState
    <3>2. \A w \in Workers : w <= dispatcher.at
      BY <2>5, PoolAssumption DEF Workers
    <3>3. StopInv'
      BY <2>1, <2>3, <3>1, <3>2 DEF StopInv
    <3> QED BY <1>5, <2>1, <3>1, <3>3, StopSteps DEF StopNext
  <2> QED BY <1>5, <2>4, <2>5 DEF StopNext
<1>6. CASE \E w \in Workers : WorkerQuit(w)
  <2>1. PICK w \in Workers : WorkerQuit(w)
    BY <1>6
  <2>2. /\ worker' \in [Workers -> WorkerState]
        /\ worker[w].pc = "select" /\ worker'[w].pc = "done" /\ worker'[w].job = worker[w].job
        /\ \A v \in Workers : v # w => worker'[v] = worker[v]
    BY <1>1, <2>1 DEF WorkerQuit, WorkerState
  <2>3. \A v \in Workers : worker[v].pc = "done" => worker'[v].pc = "done"
    BY <2>2
  <2>4. dispatcher' = dispatcher /\ dispatcher.pc # "new"
    BY <2>1, <2>2 DEF WorkerQuit, PoolInv, StopInv
  <2>5. StopInv
    BY DEF PoolInv
  <2>6. StopInv'
    BY <2>3, <2>4, <2>5 DEF StopInv
  <2>7. \A v \in Workers : \/ worker'[v].pc = worker[v].pc /\ worker'[v].job = worker[v].job
                           \/ /\ worker[v].pc = "select" /\ worker'[v].pc = "done"
                              /\ worker'[v].job = worker[v].job
    BY <2>2
  <2> QED BY <1>1, <2>1, <2>2, <2>4, <2>6, <2>7, StopSteps DEF WorkerQuit
<1> QED BY <1>2, <1>3, <1>4, <1>5, <1>6

(* Every step of the dispatcher, the workers and the jobs keeps the        *)
(* invariant.                                                              *)
LEMMA NextInv == PoolInv /\ [Next]_vars => PoolInv'
<1>1. ASSUME PoolInv, UNCHANGED vars PROVE PoolInv'
  BY <1>1 DEF vars, PoolInv, PoolTypeOK, OfferInv, QueueInv, HandleInv, StopInv
<1>2. ASSUME PoolInv, Next PROVE PoolInv'
  BY <1>2, DispatcherInv, DispatchInv, QueueSteps, TakeWorkerInv, DeliverInv, RegisterInv,
     HandledInv DEF Next
<1> QED BY <1>1, <1>2

(* The inductive invariant holds in every reachable state.                 *)
THEOREM Invariance == Spec => []PoolInv
BY InitInv, NextInv, PTL DEF Spec

(* However many workers and jobs there are, a waiting worker is offered    *)
(* once and a working one not at all.                                      *)
THEOREM WorkersOfferedOnce == Spec => []OneOfferPerWorker
BY Invariance, OfferedOnce, PTL DEF PoolInv

-----------------------------------------------------------------------------
(* How a step of a job's goroutine shows in the abstract state.            *)
LEMMA JobStateStep ==
    ASSUME PoolInv, NEW j \in Jobs, \A k \in Jobs : k # j => goroutine'[k] = goroutine[k]
    PROVE  jobState' = [jobState EXCEPT ![j] = jobState'[j]]
BY DEF jobState

PoolAs(run, quit, closed) == [run |-> run, quit |-> quit, closed |-> closed]

PoolOf(d) == [run |-> d.pc # "new", quit |-> d.quit, closed |-> d.pc = "stopped"]

(* What a user of the pool sees of each state of the dispatcher.           *)
LEMMA PoolStateIs ==
    ASSUME NEW d \in DispatcherState
    PROVE  /\ d.pc = "new" => PoolOf(d) = PoolAs(FALSE, d.quit, FALSE)
           /\ d.pc \in {"select", "stopping"} => PoolOf(d) = PoolAs(TRUE, d.quit, FALSE)
           /\ d.pc = "stopped" => PoolOf(d) = PoolAs(TRUE, d.quit, TRUE)
<1>1. CASE d.pc = "new"
  <2>1. (d.pc # "new") = FALSE /\ (d.pc = "stopped") = FALSE
    BY <1>1
  <2> QED BY <1>1, <2>1 DEF PoolOf, PoolAs
<1>2. CASE d.pc \in {"select", "stopping"}
  <2>1. (d.pc # "new") = TRUE /\ (d.pc = "stopped") = FALSE
    BY <1>2
  <2> QED BY <1>2, <2>1 DEF PoolOf, PoolAs
<1>3. CASE d.pc = "stopped"
  <2>1. (d.pc # "new") = TRUE /\ (d.pc = "stopped") = TRUE
    BY <1>3
  <2> QED BY <1>3, <2>1 DEF PoolOf, PoolAs
<1> QED BY <1>1, <1>2, <1>3

(* Changing one flag of the abstract pool.                                 *)
LEMMA PoolAsUpdate ==
    ASSUME NEW r \in BOOLEAN, NEW q \in BOOLEAN, NEW c \in BOOLEAN, NEW x \in BOOLEAN
    PROVE  /\ [PoolAs(r, q, c) EXCEPT !.run = x] = PoolAs(x, q, c)
           /\ [PoolAs(r, q, c) EXCEPT !.quit = x] = PoolAs(r, x, c)
           /\ [PoolAs(r, q, c) EXCEPT !.closed = x] = PoolAs(r, q, x)
           /\ PoolAs(r, q, c).run = r /\ PoolAs(r, q, c).quit = q /\ PoolAs(r, q, c).closed = c
BY DEF PoolAs

(* Every step of the pool is a step of JobPool or leaves what JobPool sees *)
(* alone: delivering a job begins it, the return of its handler ends it,   *)
(* and the pool is closed when the last worker has quit.                   *)
LEMMA Refines ==
    ASSUME PoolInv, [Next]_vars
    PROVE  [Promise!JobPoolNext]_(Promise!jobVars)
<1>1. dispatcher \in DispatcherState /\ worker \in [Workers -> WorkerState]
      /\ goroutine \in [Jobs -> GoState] /\ jobQueue \in Seq(Jobs)
  BY PoolTypes DEF PoolInv
<1>d. poolState = PoolOf(dispatcher) /\ poolState' = PoolOf(dispatcher') /\ dispatcher' \in DispatcherState
  <2>1. PoolInv'
    BY NextInv
  <2>2. dispatcher' \in DispatcherState
    BY <2>1 DEF PoolInv, PoolTypeOK, DispatcherState
  <2> QED BY <2>2 DEF poolState, PoolOf
<1> DEFINE Stutter == jobState' = jobState /\ poolState' = poolState
<1>s. Stutter => UNCHANGED Promise!jobVars
  BY DEF Promise!jobVars
<1>2. CASE UNCHANGED vars
  <2>1. Stutter
    BY <1>2 DEF vars, jobState, poolState
  <2> QED BY <1>s, <2>1
<1>3. CASE Run
  <2>1. /\ dispatcher.pc = "new" /\ dispatcher'.pc = "select" /\ dispatcher'.quit = dispatcher.quit
        /\ goroutine' = goroutine
    BY <1>1, <1>3 DEF Run, DispatcherState
  <2>2. poolState = PoolAs(FALSE, dispatcher.quit, FALSE) /\ poolState' = PoolAs(TRUE, dispatcher.quit, FALSE)
    BY <1>1, <1>d, <2>1, PoolStateIs
  <2>3. jobState' = jobState
    BY <2>1 DEF jobState
  <2>4. Promise!OpenPool
    <3>0. dispatcher.quit \in BOOLEAN
      BY <1>1 DEF DispatcherState
    <3>1. [PoolAs(FALSE, dispatcher.quit, FALSE) EXCEPT !.run = TRUE] = PoolAs(TRUE, dispatcher.quit, FALSE)
      BY <3>0, PoolAsUpdate
    <3>2. poolState.run = FALSE /\ poolState' = [poolState EXCEPT !.run = TRUE]
      BY <2>2, <3>0, <3>1, PoolAsUpdate
    <3> QED BY <2>3, <3>2 DEF Promise!OpenPool
  <2> QED BY <2>4 DEF Promise!JobPoolNext
<1>4. CASE Stop
  <2>1. /\ ~ dispatcher.quit /\ dispatcher'.quit = TRUE /\ dispatcher'.pc = dispatcher.pc
        /\ goroutine' = goroutine
    BY <1>1, <1>4 DEF Stop, DispatcherState
  <2>2. \E r \in BOOLEAN, c \in BOOLEAN : /\ poolState = PoolAs(r, FALSE, c) /\ poolState' = PoolAs(r, TRUE, c)
    <3>1. dispatcher.quit = FALSE
      BY <1>1, <2>1 DEF DispatcherState
    <3> QED BY <1>1, <1>d, <2>1, <3>1, PoolStateIs DEF DispatcherState
  <2>3. jobState' = jobState
    BY <2>1 DEF jobState
  <2>4. Promise!ClosePool
    <3>1. PICK r \in BOOLEAN, c \in BOOLEAN : /\ poolState = PoolAs(r, FALSE, c) /\ poolState' = PoolAs(r, TRUE, c)
      BY <2>2
    <3>2. [PoolAs(r, FALSE, c) EXCEPT !.quit = TRUE] = PoolAs(r, TRUE, c)
      BY PoolAsUpdate
    <3>3. poolState.quit = FALSE /\ poolState' = [poolState EXCEPT !.quit = TRUE]
      BY <3>1, <3>2, PoolAsUpdate
    <3> QED BY <2>3, <3>3 DEF Promise!ClosePool
  <2> QED BY <2>4 DEF Promise!JobPoolNext
<1>5. CASE StopWorkers
  <2>1. /\ dispatcher.pc = "select" /\ dispatcher'.pc = "stopping"
        /\ dispatcher'.quit = dispatcher.quit /\ goroutine' = goroutine
    BY <1>1, <1>5 DEF StopWorkers, DispatcherState
  <2>2. Stutter
    BY <2>1 DEF jobState, poolState
  <2> QED BY <1>s, <2>2
<1>6. CASE StopNext
  <2>1. /\ dispatcher.pc = "stopping" /\ dispatcher'.quit = dispatcher.quit /\ dispatcher.quit
        /\ goroutine' = goroutine
    BY <1>1, <1>6 DEF StopNext, DispatcherState, PoolInv, StopInv
  <2>2. CASE dispatcher'.pc = "stopping"
    <3>1. Stutter
      BY <2>1, <2>2 DEF jobState, poolState
    <3> QED BY <1>s, <3>1
  <2>3. CASE dispatcher'.pc # "stopping"
    <3>1. dispatcher'.pc = "stopped" /\ dispatcher.at = MaxWorkers /\ worker[dispatcher.at].pc = "done"
      BY <1>1, <1>6, <2>3 DEF StopNext, DispatcherState
    <3>2. \A w \in Workers : w < MaxWorkers \/ w = MaxWorkers
      BY PoolAssumption DEF Workers
    <3>3. \A w \in Workers : worker[w].pc = "done"
      BY <2>1, <3>1, <3>2 DEF PoolInv, StopInv
    <3>4. \A j \in Jobs : goroutine[j].pc # "handled"
      BY <3>3 DEF PoolInv, HandleInv
    <3>5. \A j \in Jobs : jobState[j] # "running"
      BY <3>4 DEF jobState
    <3>6. jobState' = jobState
      BY <2>1 DEF jobState
    <3>7. poolState = PoolAs(TRUE, TRUE, FALSE) /\ poolState' = PoolAs(TRUE, TRUE, TRUE)
      <4>1. dispatcher.quit = TRUE /\ dispatcher'.quit = TRUE
        BY <1>1, <2>1 DEF DispatcherState
      <4> QED BY <1>1, <1>d, <2>1, <3>1, <4>1, PoolStateIs
    <3>8. Promise!PoolClosed
      <4>1. [PoolAs(TRUE, TRUE, FALSE) EXCEPT !.closed = TRUE] = PoolAs(TRUE, TRUE, TRUE)
        BY PoolAsUpdate
      <4>2. /\ poolState.run = TRUE /\ poolState.quit = TRUE /\ poolState.closed = FALSE
            /\ poolState' = [poolState EXCEPT !.closed = TRUE]
        BY <3>7, <4>1, PoolAsUpdate
      <4> QED BY <3>5, <3>6, <4>2 DEF Promise!PoolClosed
    <3> QED BY <3>8 DEF Promise!JobPoolNext
  <2> QED BY <2>2, <2>3
<1>7. CASE DispatchJob
  <2>1. jobQueue # <<>> /\ goroutine' = [goroutine EXCEPT ![Head(jobQueue)].pc = "take"]
        /\ dispatcher' = dispatcher
    BY <1>7 DEF DispatchJob
  <2>2. Head(jobQueue) = jobQueue[1] /\ Head(jobQueue) \in Jobs /\ 1 \in 1..Len(jobQueue)
    BY <1>1, <2>1, TailFacts
  <2>3. goroutine[Head(jobQueue)].pc = "queued"
    BY <2>2 DEF PoolInv, QueueInv
  <2>4. Stutter
    BY <1>1, <2>1, <2>2, <2>3 DEF jobState, poolState, GoState
  <2> QED BY <1>s, <2>4
<1>8. ASSUME NEW j \in Jobs, Queue(j) PROVE Promise!JobPoolNext
  <2>1. /\ goroutine[j].pc = "none" /\ goroutine'[j].pc = "queue" /\ dispatcher' = dispatcher
        /\ \A k \in Jobs : k # j => goroutine'[k] = goroutine[k]
    BY <1>1, <1>8 DEF Queue, GoState
  <2>2. jobState[j] = "none" /\ jobState'[j] = "waiting" /\ poolState' = poolState
    BY <2>1 DEF jobState, poolState
  <2>3. Promise!QueueJob(j)
    BY <2>1, <2>2, JobStateStep DEF Promise!QueueJob
  <2> QED BY <2>3 DEF Promise!JobPoolNext
<1>9. ASSUME NEW j \in Jobs, Enqueue(j) \/ TakeWorker(j) PROVE Stutter
  <2>1. /\ goroutine[j].pc \in {"queue", "take"} /\ goroutine'[j].pc \in {"queued", "send"}
        /\ dispatcher' = dispatcher
        /\ \A k \in Jobs : k # j => goroutine'[k] = goroutine[k]
    BY <1>1, <1>9 DEF Enqueue, TakeWorker, GoState
  <2> QED BY <2>1 DEF jobState, poolState
<1>10. ASSUME NEW j \in Jobs, Deliver(j) PROVE Promise!JobPoolNext
  <2>1. /\ goroutine[j].pc = "send" /\ goroutine'[j].pc = "handled" /\ dispatcher' = dispatcher
        /\ \A k \in Jobs : k # j => goroutine'[k] = goroutine[k]
        /\ goroutine[j].to \in Workers /\ worker[goroutine[j].to].pc = "select"
    BY <1>1, <1>10 DEF Deliver, GoState, PoolInv, HandleInv
  <2>2. dispatcher.pc # "new" /\ dispatcher.pc # "stopped"
    BY <2>1 DEF PoolInv, StopInv
  <2>3. /\ jobState[j] = "waiting" /\ jobState'[j] = "running" /\ poolState' = poolState
        /\ poolState.run /\ ~ poolState.closed
    BY <2>1, <2>2 DEF jobState, poolState
  <2>4. Promise!BeginJob(j)
    BY <2>1, <2>3, JobStateStep DEF Promise!BeginJob
  <2> QED BY <2>4 DEF Promise!JobPoolNext
<1>11. ASSUME NEW w \in Workers, Handled(w) PROVE Promise!JobPoolNext
  <2> DEFINE j == worker[w].job
  <2>1. j \in Jobs /\ goroutine[j].pc = "handled"
    BY <1>11 DEF Handled, PoolInv, HandleInv
  <2>2. /\ goroutine'[j].pc = "none" /\ dispatcher' = dispatcher
        /\ \A k \in Jobs : k # j => goroutine'[k] = goroutine[k]
    BY <1>1, <1>11, <2>1 DEF Handled
  <2>3. jobState[j] = "running" /\ jobState'[j] = "none" /\ poolState' = poolState
    BY <2>1, <2>2 DEF jobState, poolState
  <2>4. Promise!EndJob(j)
    BY <2>1, <2>2, <2>3, JobStateStep DEF Promise!EndJob
  <2> QED BY <2>1, <2>4 DEF Promise!JobPoolNext
<1>12. ASSUME NEW w \in Workers, Register(w) \/ WorkerQuit(w) PROVE Stutter
  BY <1>12 DEF Register, WorkerQuit, jobState, poolState
<1> QED
  BY <1>s, <1>2, <1>3, <1>4, <1>5, <1>6, <1>7, <1>8, <1>9, <1>10, <1>11, <1>12 DEF Next

(* For any number of workers and jobs the dispatcher keeps the promise of  *)
(* JobPool: a job is begun once, and none once Stop has returned.          *)
THEOREM PoolRefinesJobPool == Spec => ImplementsJobPool
<1>1. Init => Promise!JobPoolInit
  <2> SUFFICES ASSUME Init PROVE Promise!JobPoolInit
    OBVIOUS
  <2>1. jobState = [j \in Jobs |-> "none"]
    BY DEF Init, jobState
  <2>2. dispatcher \in DispatcherState /\ dispatcher.pc = "new" /\ dispatcher.quit = FALSE
    BY PoolAssumption DEF Init, DispatcherState
  <2>3. poolState = PoolOf(dispatcher)
    BY DEF poolState, PoolOf
  <2>4. poolState = [run |-> FALSE, quit |-> FALSE, closed |-> FALSE]
    BY <2>2, <2>3, PoolStateIs DEF PoolAs
  <2> QED BY <2>1, <2>4 DEF Promise!JobPoolInit
<1>2. PoolInv /\ [Next]_vars => [Promise!JobPoolNext]_(Promise!jobVars)
  BY Refines
<1> QED BY <1>1, <1>2, Invariance, PTL DEF Spec, ImplementsJobPool, Promise!JobPoolSpec
=============================================================================

--------------------------- MODULE MCWorkerPool ---------------------------
(* A small instance of WorkerPool for TLC: two workers, three jobs and a   *)
(* queue that holds one of them.                                           *)
EXTENDS WorkerPool
=============================================================================

SPECIFICATION PoolFairSpec
CONSTANTS
  MaxWorkers = 2
  MaxWaitingJobs = 1
  Jobs = {1, 2, 3}
INVARIANTS OneOfferPerWorker
PROPERTIES ImplementsJobPool EveryJobHandled StopReturns
CHECK_DEADLOCK FALSE

CONSTANTS
  NumThreads = 4
  Nobody = Nobody
SPECIFICATION Spec
INVARIANT TypeOK
INVARIANT NoWorkerOutlivesPool
INVARIANT WorkersFindPoolReady
INVARIANT AllWorkersServe
INVARIANT FailureLeaksLittle

CONSTANTS
  NumThreads = 2
  Nobody = Nobody
SPECIFICATION Spec
INVARIANT DestroysQueueInstance

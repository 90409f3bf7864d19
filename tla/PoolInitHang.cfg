CONSTANTS
  NumThreads = 2
  Nobody = Nobody
SPECIFICATION FairSpec
PROPERTY InitReturns

CONSTANTS
  NumThreads = 2
  W = 3
  H = 3
  KernelHalf = 1
  NumWorms = 3
  WormLength = 2
  WormRadius = 1
SPECIFICATION Spec
INVARIANT TypeOK
INVARIANT OutputIsSerial
INVARIANT EveryWormOnce
INVARIANT FreedImagesUnused

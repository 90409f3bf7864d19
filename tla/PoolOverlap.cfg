CONSTANTS
  t1 = t1
  t2 = t2
  Workers = {w1, w2}
  Clients = {c1, c2, c3}
  Tasks = {t1, t2, t3}
  NoTask = NoTask
  QueueSize = 1
  Spawns <- NoSpawns
  Overlap = TRUE
SPECIFICATION FairSpec
PROPERTY ImplementsContract
PROPERTY EarlyTasksFinish
PROPERTY DestroyReturnsUnlessHeldUp

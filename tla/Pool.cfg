CONSTANTS
  t1 = t1
  t2 = t2
  Workers = {w1, w2}
  Clients = {c1, c2, c3}
  Tasks = {t1, t2, t3, t4}
  NoTask = NoTask
  QueueSize = 1
  Spawns <- OneSpawner
  Overlap = FALSE
SPECIFICATION FairSpec
INVARIANT TypeOK
INVARIANT Accounting
INVARIANT OneOwner
INVARIANT NoTaskWithoutWorker
INVARIANT NoSlotWithoutPut
INVARIANT NoWaiterForgotten
INVARIANT FreedWhenQuiet
INVARIANT DestroyRunsEverything
PROPERTY WaitIsBarrier
PROPERTY ImplementsContract
PROPERTY AcceptedTasksFinish
PROPERTY PutAndWaitReturn
PROPERTY DestroyReturns

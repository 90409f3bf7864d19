---------------------------- MODULE PoolInitProofs ----------------------------
(***************************************************************************)
(* Proofs about PoolInit, for any number of threads: whichever step of     *)
(* yatpool_init fails, and wherever the workers are at that moment.        *)
(***************************************************************************)
EXTENDS PoolInit, TLAPS

Base == {"pool", "attr", "conds", "mutex"}
Everything == Base \cup {"threads", "q", "q->data"}

(* What has been acquired at each point of yatpool_init.  Between the      *)
(* creation of the first thread and the last join nothing is released.     *)
HeldByStage ==
  /\ ipc = "pool" => held = {}
  /\ ipc = "threads" => held = Base
  /\ ipc = "queue" => held = Base \cup {"threads"}
  /\ ipc \in {"create", "broadcast", "join", "ok"} =>
       task_queue = "queue" /\ held = Everything
  /\ ipc = "error" /\ task_queue # "queue" => "q->data" \notin held
  /\ ipc = "null" =>
       held \subseteq {"mutex"} \cup (IF task_queue = "null" THEN {"q"} ELSE {})

(* The threads that exist are the first ones, and of these the first ones  *)
(* are joined.                                                             *)
ThreadsInOrder ==
  /\ \A w \in Workers : wpc[w] = "none" <=> w > created
  /\ \A w \in Workers : w <= joined => wpc[w] = "exited"
  /\ ipc \in {"pool", "threads", "queue"} => created = 0
  /\ ipc \in {"error", "null", "undefined"} => joined = created
  /\ ipc = "ok" => created = NumThreads

(* No worker leaves before a creation has failed.                          *)
NobodyLeavesEarly ==
  ipc \in {"create", "ok"} => ~all_done /\ \A w \in Workers : wpc[w] # "exited"

IInv == TypeOK /\ HeldByStage /\ ThreadsInOrder /\ NobodyLeavesEarly

(* yatpool_init starts with nothing.                                       *)
LEMMA IInvInit == Init => IInv
BY InitAssumption
   DEF Init, IInv, TypeOK, HeldByStage, ThreadsInOrder, NobodyLeavesEarly, Workers, Garbage

(* A step of yatpool_init that touches no worker.                          *)
LEMMA MainStep ==
  ASSUME IInv,
         \/ AllocPool \/ AllocPoolFails \/ AllocThreads \/ AllocThreadsFails
         \/ AllocQueue \/ AllocQueueFails \/ CreateThreadFails \/ ReturnPool
         \/ JoinThread \/ JoinEnds \/ ErrorCleanup \/ CleanupOfGarbage
  PROVE  IInv'
<1> USE InitAssumption
    DEF IInv, TypeOK, HeldByStage, ThreadsInOrder, NobodyLeavesEarly, Workers, Garbage,
        Base, Everything
<1>1. CASE AllocPool
  BY <1>1 DEF AllocPool
<1>2. CASE AllocPoolFails
  BY <1>2 DEF AllocPoolFails
<1>3. CASE AllocThreads
  BY <1>3 DEF AllocThreads
<1>4. CASE AllocThreadsFails
  BY <1>4 DEF AllocThreadsFails
<1>5. CASE AllocQueue
  <2>1. held' = Everything
    BY <1>5 DEF AllocQueue
  <2>2. \A w \in Workers : wpc[w] = "none"
    BY <1>5 DEF AllocQueue
  <2>3. TypeOK'
    BY <1>5, <2>1 DEF AllocQueue
  <2>4. HeldByStage' /\ ThreadsInOrder'
    BY <1>5, <2>1, <2>2 DEF AllocQueue
  <2>5. NobodyLeavesEarly'
    BY <1>5, <2>2 DEF AllocQueue
  <2> QED
    BY <2>3, <2>4, <2>5
<1>6. CASE AllocQueueFails
  BY <1>6 DEF AllocQueueFails
<1>7. CASE CreateThreadFails
  BY <1>7 DEF CreateThreadFails
<1>8. CASE ReturnPool
  BY <1>8 DEF ReturnPool
<1>9. CASE JoinThread
  BY <1>9 DEF JoinThread, AllJoined
<1>10. CASE JoinEnds
  BY <1>10 DEF JoinEnds, AllJoined
<1>11. CASE ErrorCleanup
  BY <1>11 DEF ErrorCleanup, ReleasedOnError
<1>12. CASE CleanupOfGarbage
  BY <1>12 DEF CleanupOfGarbage
<1> QED
  BY <1>1, <1>2, <1>3, <1>4, <1>5, <1>6, <1>7, <1>8, <1>9, <1>10, <1>11, <1>12

(* A step that moves one worker, or wakes them.                            *)
LEMMA ThreadStep ==
  ASSUME IInv,
         \/ CreateThread \/ BroadcastShutdown
         \/ \E w \in Workers : WorkerStep(w) \/ SpuriousWakeup(w)
  PROVE  IInv'
<1> USE InitAssumption
    DEF IInv, TypeOK, HeldByStage, ThreadsInOrder, NobodyLeavesEarly, Workers, Garbage,
        initVars
<1>1. CASE CreateThread
  BY <1>1 DEF CreateThread
<1>2. CASE BroadcastShutdown
  BY <1>2 DEF BroadcastShutdown
<1>3. ASSUME NEW w \in Workers, WorkerLock(w)
      PROVE  IInv'
  BY <1>3 DEF WorkerLock
<1>4. ASSUME NEW w \in Workers, WorkerDecidesToSleep(w)
      PROVE  IInv'
  BY <1>4 DEF WorkerDecidesToSleep
<1>5. ASSUME NEW w \in Workers, WorkerSleeps(w)
      PROVE  IInv'
  BY <1>5 DEF WorkerSleeps
<1>6. ASSUME NEW w \in Workers, WorkerExits(w)
      PROVE  IInv'
  BY <1>6 DEF WorkerExits, MayLeave
<1>7. ASSUME NEW w \in Workers, SpuriousWakeup(w)
      PROVE  IInv'
  BY <1>7 DEF SpuriousWakeup
<1> QED
  BY <1>1, <1>2, <1>3, <1>4, <1>5, <1>6, <1>7 DEF WorkerStep

(* Every step keeps the strengthened invariant.                            *)
LEMMA IInvStep == IInv /\ [Next]_vars => IInv'
<1>1. ASSUME IInv, UNCHANGED vars
      PROVE  IInv'
  BY <1>1 DEF IInv, TypeOK, HeldByStage, ThreadsInOrder, NobodyLeavesEarly, vars, initVars
<1> QED
  BY <1>1, MainStep, ThreadStep DEF Next, InitStep, Terminated

(* So it always holds.                                                     *)
LEMMA AlwaysIInv == Spec => []IInv
BY IInvInit, IInvStep, PTL DEF Spec

(* For any number of threads, the mutex belongs to the worker that is      *)
(* between taking and releasing it (yatpool.c:150-168), and to no other.   *)
THEOREM Typing == Spec => []TypeOK
<1>1. IInv => TypeOK
  BY DEF IInv
<1> QED BY AlwaysIInv, <1>1, PTL

(* When yatpool_init returns NULL (yatpool.c:250), no thread that it       *)
(* created is left to touch the pool that it freed.                        *)
THEOREM NobodyOutlives == Spec => []NoWorkerOutlivesPool
<1>1. IInv => NoWorkerOutlivesPool
  BY InitAssumption DEF IInv, TypeOK, ThreadsInOrder, NoWorkerOutlivesPool, Workers
<1> QED BY AlwaysIInv, <1>1, PTL

(* A worker that runs beside yatpool_init finds the queue, the mutex and   *)
(* the conditions it uses (yatpool.c:150-165) set and not released.        *)
THEOREM PoolReady == Spec => []WorkersFindPoolReady
<1>1. IInv => WorkersFindPoolReady
  <2> SUFFICES ASSUME IInv, NEW w \in Workers,
                      wpc[w] \in {"loop", "locked", "sleepy", "asleep"}
               PROVE  /\ task_queue = "queue"
                      /\ {"pool", "conds", "mutex", "q", "q->data"} \subseteq held
    BY DEF WorkersFindPoolReady
  <2>1. w <= created /\ ~(w <= joined)
    BY InitAssumption DEF IInv, TypeOK, ThreadsInOrder, Workers
  <2>2. ipc \in {"create", "broadcast", "join", "ok"}
    BY <2>1, InitAssumption DEF IInv, TypeOK, ThreadsInOrder, Workers
  <2> QED
    BY <2>2 DEF IInv, HeldByStage, Base, Everything
<1> QED BY AlwaysIInv, <1>1, PTL

(* In a pool that yatpool_init returns, all workers are there.             *)
THEOREM WorkersServe == Spec => []AllWorkersServe
<1>1. IInv => AllWorkersServe
  BY InitAssumption DEF IInv, ThreadsInOrder, NobodyLeavesEarly, AllWorkersServe, Workers
<1> QED BY AlwaysIInv, <1>1, PTL

(* When yatpool_init returns NULL (yatpool.c:250), it has released         *)
(* everything but the mutex and a queue structure whose array could not be *)
(* allocated, whichever step failed.  (A failure at yatpool.c:208 ends in  *)
(* undefined behaviour, not in that return.)                               *)
THEOREM LittleLeaks == Spec => []FailureLeaksLittle
<1>1. IInv => FailureLeaksLittle
  BY DEF IInv, HeldByStage, FailureLeaksLittle
<1> QED BY AlwaysIInv, <1>1, PTL
=============================================================================

-------------------------------- MODULE PoolInit --------------------------------
(***************************************************************************)
(* yatpool_init of src/src/yatpool.c: the allocations, the creation of the *)
(* worker threads one by one while the earlier ones already run, and the   *)
(* error path that must undo all of it.                                    *)
(*                                                                         *)
(* The error path writes pool->all_done and broadcasts cond_queue without  *)
(* taking pool->mutex, so here, unlike in YatPool, the workers' stretch of *)
(* code under the mutex is split where the two can meet: after a worker    *)
(* has taken the mutex, and after it has read all_done and decided to      *)
(* sleep.  The unlocked write races with that read; on the machines the    *)
(* library is built for the reader sees the old or the new value.          *)
(*                                                                         *)
(* No task exists before yatpool_init returns, so the queue is empty.      *)
(*                                                                         *)
(* One path has no defined end: without the threads array, the error path  *)
(* frees through pool->task_queue, which nothing has set.  It leads to the *)
(* place "undefined", about which nothing is claimed.                      *)
(***************************************************************************)
EXTENDS Naturals, FiniteSets

CONSTANTS
  NumThreads,  (* the num_threads passed to yatpool_init                   *)
  Nobody       (* the owner of a free mutex                                *)

ASSUME InitAssumption ==
  /\ NumThreads \in Nat \ {0}
  /\ Nobody \notin 1 .. NumThreads

Workers == 1 .. NumThreads

VARIABLES
  ipc,         (* where yatpool_init is                                    *)
  created,     (* i, the number of threads created so far                  *)
  joined,      (* j, the number of threads joined by the error path        *)
  held,        (* what has been allocated or initialised and not released  *)
  task_queue,  (* the pointer pool->task_queue                             *)
  all_done,    (* pool->all_done                                           *)
  mutex,       (* the worker that holds pool->mutex                        *)
  wpc          (* where each worker is                                     *)

initVars == <<ipc, created, joined, held, task_queue>>
vars == <<initVars, all_done, mutex, wpc>>

\* The memory malloc returns is not initialised.
Garbage == "garbage"

Init ==
  /\ ipc = "pool"
  /\ created = 0
  /\ joined = 0
  /\ held = {}
  /\ task_queue = Garbage
  /\ all_done \in BOOLEAN
  /\ mutex = Nobody
  /\ wpc = [w \in Workers |-> "none"]

-----------------------------------------------------------------------------
(* The allocations.  Any of them may fail.                                 *)

AllocPool ==
  /\ ipc = "pool"
  /\ held' = {"pool", "attr", "conds", "mutex"}
  /\ ipc' = "threads"
  /\ UNCHANGED <<created, joined, task_queue, all_done, mutex, wpc>>

AllocPoolFails ==
  /\ ipc = "pool"
  /\ ipc' = "null"
  /\ UNCHANGED <<created, joined, held, task_queue, all_done, mutex, wpc>>

AllocThreads ==
  /\ ipc = "threads"
  /\ held' = held \cup {"threads"}
  /\ ipc' = "queue"
  /\ UNCHANGED <<created, joined, task_queue, all_done, mutex, wpc>>

AllocThreadsFails ==
  /\ ipc = "threads"
  /\ ipc' = "error"
  /\ UNCHANGED <<created, joined, held, task_queue, all_done, mutex, wpc>>

\* taskqueue_init succeeds and the remaining fields are set.
AllocQueue ==
  /\ ipc = "queue"
  /\ held' = held \cup {"q", "q->data"}
  /\ task_queue' = "queue"
  /\ all_done' = FALSE
  /\ ipc' = "create"
  /\ UNCHANGED <<created, joined, mutex, wpc>>

\* taskqueue_init fails at its first or at its second allocation; in the
\* second case it returns without freeing the first.
AllocQueueFails ==
  /\ ipc = "queue"
  /\ \E leak \in {{}, {"q"}} : held' = held \cup leak
  /\ task_queue' = "null"
  /\ ipc' = "error"
  /\ UNCHANGED <<created, joined, all_done, mutex, wpc>>

-----------------------------------------------------------------------------
(* The loop that creates the threads.                                      *)

CreateThread ==
  /\ ipc = "create" /\ created < NumThreads
  /\ created' = created + 1
  /\ wpc' = [wpc EXCEPT ![created + 1] = "loop"]
  /\ UNCHANGED <<ipc, joined, held, task_queue, all_done, mutex>>

\* pool->all_done = true, without the mutex.
CreateThreadFails ==
  /\ ipc = "create" /\ created < NumThreads
  /\ all_done' = TRUE
  /\ ipc' = "broadcast"
  /\ UNCHANGED <<created, joined, held, task_queue, mutex, wpc>>

ReturnPool ==
  /\ ipc = "create" /\ created = NumThreads
  /\ ipc' = "ok"
  /\ UNCHANGED <<created, joined, held, task_queue, all_done, mutex, wpc>>

\* Without the mutex, too.
BroadcastShutdown ==
  /\ ipc = "broadcast"
  /\ wpc' = [w \in Workers |-> IF wpc[w] = "asleep" THEN "loop" ELSE wpc[w]]
  /\ ipc' = "join"
  /\ UNCHANGED <<created, joined, held, task_queue, all_done, mutex>>

\* Mutant: the last thread created is not joined.
AllJoinedOffByOne == joined + 1 >= created

AllJoined == joined = created

JoinThread ==
  /\ ipc = "join" /\ ~AllJoined
  /\ wpc[joined + 1] = "exited"
  /\ joined' = joined + 1
  /\ UNCHANGED <<ipc, created, held, task_queue, all_done, mutex, wpc>>

JoinEnds ==
  /\ ipc = "join" /\ AllJoined
  /\ ipc' = "error"
  /\ UNCHANGED <<created, joined, held, task_queue, all_done, mutex, wpc>>

\* Mutant: the threads array is forgotten.
ReleasedWithoutThreads == {"attr", "conds", "pool"}

\* The label error: taskqueue_destroy does nothing to a null pointer, and the
\* mutex is not destroyed.
ReleasedOnError == {"threads", "attr", "conds", "pool"}

ErrorCleanup ==
  /\ ipc = "error"
  /\ task_queue # Garbage
  /\ held' = held \ (ReleasedOnError \cup
                       IF task_queue = "queue" THEN {"q", "q->data"} ELSE {})
  /\ ipc' = "null"
  /\ UNCHANGED <<created, joined, task_queue, all_done, mutex, wpc>>

\* taskqueue_destroy reads and frees through an indeterminate pointer.
CleanupOfGarbage ==
  /\ ipc = "error"
  /\ task_queue = Garbage
  /\ ipc' = "undefined"
  /\ UNCHANGED <<created, joined, held, task_queue, all_done, mutex, wpc>>

-----------------------------------------------------------------------------
(* The first part of the loop of _yatpool_worker, with the queue empty.    *)

WorkerLock(w) ==
  /\ wpc[w] = "loop"
  /\ mutex = Nobody
  /\ mutex' = w
  /\ wpc' = [wpc EXCEPT ![w] = "locked"]
  /\ UNCHANGED <<initVars, all_done>>

WorkerDecidesToSleep(w) ==
  /\ wpc[w] = "locked"
  /\ ~all_done
  /\ wpc' = [wpc EXCEPT ![w] = "sleepy"]
  /\ UNCHANGED <<initVars, all_done, mutex>>

\* pthread_cond_wait releases the mutex and sleeps in one step.
WorkerSleeps(w) ==
  /\ wpc[w] = "sleepy"
  /\ wpc' = [wpc EXCEPT ![w] = "asleep"]
  /\ mutex' = Nobody
  /\ UNCHANGED <<initVars, all_done>>

\* Mutant: a worker leaves whenever the queue is empty.
LeaveWhenEmpty == TRUE

MayLeave == all_done

\* Mutant: the early exit forgets to unlock.
WorkerExitsLocked(w) ==
  /\ wpc[w] = "locked"
  /\ MayLeave
  /\ wpc' = [wpc EXCEPT ![w] = "exited"]
  /\ UNCHANGED <<initVars, all_done, mutex>>

WorkerExits(w) ==
  /\ wpc[w] = "locked"
  /\ MayLeave
  /\ wpc' = [wpc EXCEPT ![w] = "exited"]
  /\ mutex' = Nobody
  /\ UNCHANGED <<initVars, all_done>>

SpuriousWakeup(w) ==
  /\ wpc[w] = "asleep"
  /\ wpc' = [wpc EXCEPT ![w] = "loop"]
  /\ UNCHANGED <<initVars, all_done, mutex>>

-----------------------------------------------------------------------------

InitStep ==
  \/ AllocPool \/ AllocPoolFails
  \/ AllocThreads \/ AllocThreadsFails
  \/ AllocQueue \/ AllocQueueFails
  \/ CreateThread \/ CreateThreadFails \/ ReturnPool
  \/ BroadcastShutdown \/ JoinThread \/ JoinEnds
  \/ ErrorCleanup \/ CleanupOfGarbage

WorkerStep(w) ==
  \/ WorkerLock(w) \/ WorkerDecidesToSleep(w) \/ WorkerSleeps(w)
  \/ WorkerExits(w)

Returned == ipc \in {"ok", "null"}

\* yatpool_init has returned; what the workers of a usable pool do next is
\* the subject of YatPool.  Nothing is said of what follows undefined behaviour.
Terminated == (Returned \/ ipc = "undefined") /\ UNCHANGED vars

Next ==
  \/ InitStep
  \/ \E w \in Workers : WorkerStep(w) \/ SpuriousWakeup(w)
  \/ Terminated

Spec == Init /\ [][Next]_vars

Fairness ==
  /\ WF_vars(InitStep)
  /\ \A w \in Workers : SF_vars(WorkerStep(w))

FairSpec == Spec /\ Fairness

-----------------------------------------------------------------------------

(* The mutex belongs to the worker that is between taking and releasing    *)
(* it, and to no other.                                                    *)
TypeOK ==
  /\ ipc \in {"pool", "threads", "queue", "create", "broadcast", "join",
              "error", "ok", "null", "undefined"}
  /\ created \in 0 .. NumThreads
  /\ joined \in 0 .. created
  /\ held \subseteq {"pool", "attr", "conds", "mutex", "threads", "q", "q->data"}
  /\ task_queue \in {Garbage, "null", "queue"}
  /\ all_done \in BOOLEAN
  /\ wpc \in [Workers -> {"none", "loop", "locked", "sleepy", "asleep", "exited"}]
  /\ mutex \in Workers \cup {Nobody}
  /\ \A w \in Workers : wpc[w] \in {"locked", "sleepy"} <=> mutex = w

(* When yatpool_init has freed the pool and returned NULL, none of the     *)
(* threads it created is left: no worker touches the freed pool.           *)
NoWorkerOutlivesPool ==
  ipc = "null" => \A w \in Workers : wpc[w] \in {"none", "exited"}

(* A worker runs only when every field it reads is set, and while nothing  *)
(* it uses has been released.                                              *)
WorkersFindPoolReady ==
  \A w \in Workers :
    wpc[w] \in {"loop", "locked", "sleepy", "asleep"} =>
      /\ task_queue = "queue"
      /\ {"pool", "conds", "mutex", "q", "q->data"} \subseteq held

(* A pool that yatpool_init returns has all its workers alive: none of     *)
(* them has taken the pool for one that is shutting down.                  *)
AllWorkersServe ==
  ipc = "ok" => /\ ~all_done
                /\ \A w \in Workers : wpc[w] \notin {"none", "exited"}

(* What a yatpool_init that returns NULL leaves behind is at most the      *)
(* mutex, which its error path does not destroy, and the queue structure   *)
(* whose array could not be allocated (src/src/yatpool.c:57), wherever it  *)
(* failed.  After a failure at src/src/yatpool.c:208 there is no return to *)
(* speak of: see CleanupOfGarbage.                                         *)
FailureLeaksLittle ==
  ipc = "null" =>
    held \subseteq {"mutex"} \cup (IF task_queue = "null" THEN {"q"} ELSE {})

(* The error path hands taskqueue_destroy a TaskQueue ("Destroy a          *)
(* TaskQueue instance", src/src/yatpool.c:117) or the null pointer that    *)
(* taskqueue_destroy reports, never an indeterminate pointer.              *)
DestroysQueueInstance == ipc = "error" => task_queue # Garbage

(* yatpool_init returns: "Initialize a thread pool" (src/src/yatpool.c:189) *)
(* ends in a pool or in NULL, also when a thread cannot be created: the    *)
(* workers created so far are told to leave and are joined.  (What follows *)
(* undefined behaviour is not asked about.)                                *)
InitReturns == <>(Returned \/ ipc = "undefined")
=============================================================================

-------------------------------- MODULE YatPool --------------------------------
(***************************************************************************)
(* The running thread pool of src/src/yatpool.c: the worker threads and    *)
(* the calls yatpool_put, yatpool_wait and yatpool_destroy, from the       *)
(* moment yatpool_init has returned the pool until it is freed.            *)
(*                                                                         *)
(* Grain.  Every access to the pool's fields in these functions is made    *)
(* with pool->mutex held, except those yatpool_destroy makes after joining *)
(* the workers.  An action is therefore one stretch of code from taking    *)
(* the mutex (in pthread_mutex_lock, or on the way out of                  *)
(* pthread_cond_wait) to releasing it (in pthread_mutex_unlock, or on the  *)
(* way into pthread_cond_wait).  What happens between two such stretches   *)
(* (running a task, the broadcast a worker makes after unlocking, the      *)
(* join) is made of actions of its own, and so is each step of the final   *)
(* clean-up, which runs without the mutex: a put or a wait that overlaps   *)
(* it may act between any two of them.  A thread whose next stretch needs  *)
(* the mutex is always able to take it: nobody holds the mutex between     *)
(* actions.                                                                *)
(*                                                                         *)
(* The queue is the bounded first-in first-out queue that module TaskQueue *)
(* is shown to implement.                                                  *)
(***************************************************************************)
EXTENDS Naturals, Sequences, FiniteSets

CONSTANTS
  Workers,    (* the threads created by yatpool_init                       *)
  Clients,    (* the threads of the program that call the pool             *)
  Tasks,      (* the Task objects; each is submitted at most once          *)
  NoTask,     (* the null task pointer                                     *)
  QueueSize,  (* the queue_size passed to yatpool_init                     *)
  Spawns,     (* the tasks that the function of a task submits itself      *)
  Overlap     (* may clients call the pool while it is being destroyed?    *)

ASSUME PoolAssumption ==
  /\ IsFiniteSet(Workers) /\ Workers # {}
  /\ IsFiniteSet(Clients)
  /\ Workers \cap Clients = {}
  /\ NoTask \notin Tasks
  /\ QueueSize \in Nat \ {0}
  /\ Spawns \in [Tasks -> SUBSET Tasks]
  /\ Overlap \in BOOLEAN

Threads == Workers \cup Clients

VARIABLES
  pc,               (* where each thread is, see Labels                    *)
  curr,             (* the task each worker took and has not yet counted   *)
  arg,              (* the task each thread is submitting in yatpool_put   *)
  local_done,       (* the local variable all_done of _yatpool_worker      *)
  queue,            (* pool->task_queue                                    *)
  all_done,         (* pool->all_done                                      *)
  tasks_completed,  (* pool->tasks_completed                               *)
  tasks_submitted,  (* pool->tasks_submitted                               *)
  status,           (* how far each task has come                          *)
  freed             (* yatpool_destroy has freed the pool                  *)

counters == <<tasks_completed, tasks_submitted>>

vars == <<pc, curr, arg, local_done, queue, all_done, counters, status, freed>>

WorkerLabels ==
  { "loop",           \* about to take the mutex at the top of the loop, or
                      \* on the way out of the wait on cond_queue
    "asleep_queue",   \* in the wait on cond_queue
    "run",            \* executing the task's function
    "free",           \* the function has returned
    "count",          \* the task is freed, about to count it
    "notify",         \* about to broadcast cond_curr_batch_done, unlocked
    "exited" }

PutLabels ==
  { "put",            \* about to take the mutex in yatpool_put
    "asleep_slot",    \* in the wait on cond_slot_available
    "put_woken" }     \* on the way out of that wait

ClientLabels ==
  { "idle",           \* outside the pool
    "wait",           \* about to take the mutex in yatpool_wait, or on the
                      \* way out of the wait on cond_curr_batch_done
    "asleep_batch",   \* in the wait on cond_curr_batch_done
    "destroy",        \* about to take the mutex in yatpool_destroy
    "join",           \* joining the workers
    "discard",        \* workers joined, emptying the queue
    "destroy_slot",   \* about to destroy cond_slot_available
    "destroy_batch",  \* about to destroy cond_curr_batch_done
    "release",        \* about to destroy the mutex and free the pool
    "destroyed" }     \* yatpool_destroy has returned true

\* The workers are joined; yatpool_destroy no longer takes the mutex.
CleanUpLabels == {"discard", "destroy_slot", "destroy_batch", "release", "destroyed"}

At(l) == {t \in Threads : pc[t] = l}

Goto(t, l) == pc' = [pc EXCEPT ![t] = l]

-----------------------------------------------------------------------------
(* POSIX threads: a signal wakes one sleeper if there is one, a broadcast  *)
(* wakes them all.  Both are lost when nobody sleeps.                      *)

\* Mutant: the signal is never sent.
SignalOmitted(f, from, to) == {f}

\* The values pc may take once one of the threads at `from' is moved to `to'.
Signal(f, from, to) ==
  LET sleepers == {t \in Threads : f[t] = from}
  IN  IF sleepers = {} THEN {f} ELSE {[f EXCEPT ![t] = to] : t \in sleepers}

\* Mutant: the broadcast is never sent.
BroadcastOmitted(f, from, to) == f

Broadcast(f, from, to) == [t \in Threads |-> IF f[t] = from THEN to ELSE f[t]]

-----------------------------------------------------------------------------

Init ==
  /\ pc = [t \in Threads |-> IF t \in Workers THEN "loop" ELSE "idle"]
  /\ curr = [w \in Workers |-> NoTask]
  /\ arg = [t \in Threads |-> NoTask]
  /\ local_done = [w \in Workers |-> FALSE]
  /\ queue = <<>>
  /\ all_done = FALSE
  /\ tasks_completed = 0
  /\ tasks_submitted = 0
  /\ status = [t \in Tasks |-> "fresh"]
  /\ freed = FALSE

-----------------------------------------------------------------------------
(* _yatpool_worker                                                         *)

\* The queue is empty and the pool is not shutting down: sleep.
WorkerSleep(w) ==
  /\ pc[w] = "loop"
  /\ queue = <<>> /\ ~all_done
  /\ Goto(w, "asleep_queue")
  /\ UNCHANGED <<curr, arg, local_done, queue, all_done, counters, status, freed>>

\* Mutant: a worker leaves as soon as the pool is shutting down.
MayExitAtOnce == all_done

MayExit == all_done /\ queue = <<>>

WorkerExit(w) ==
  /\ pc[w] = "loop"
  /\ MayExit
  /\ Goto(w, "exited")
  /\ UNCHANGED <<curr, arg, local_done, queue, all_done, counters, status, freed>>

\* Mutant: the task stays in the queue.
WorkerTakeWithoutPop(w) ==
  /\ pc[w] = "loop"
  /\ queue # <<>>
  /\ curr' = [curr EXCEPT ![w] = Head(queue)]
  /\ status' = [status EXCEPT ![Head(queue)] = "running"]
  /\ pc' \in Signal([pc EXCEPT ![w] = "run"], "asleep_slot", "put_woken")
  /\ UNCHANGED <<arg, local_done, queue, all_done, counters, freed>>

\* pthread_cond_signal is called with the mutex still held.
WorkerTake(w) ==
  /\ pc[w] = "loop"
  /\ queue # <<>>
  /\ curr' = [curr EXCEPT ![w] = Head(queue)]
  /\ queue' = Tail(queue)
  /\ status' = [status EXCEPT ![Head(queue)] = "running"]
  /\ pc' \in Signal([pc EXCEPT ![w] = "run"], "asleep_slot", "put_woken")
  /\ UNCHANGED <<arg, local_done, all_done, counters, freed>>

\* The task's function returns, having submitted all it submits.
TaskReturns(w) ==
  /\ pc[w] = "run"
  /\ \A t \in Spawns[curr[w]] : status[t] # "fresh"
  /\ status' = [status EXCEPT ![curr[w]] = "executed"]
  /\ Goto(w, "free")
  /\ UNCHANGED <<curr, arg, local_done, queue, all_done, counters, freed>>

\* The argument is destroyed (if there is a destructor) and the task freed.
FreeTask(w) ==
  /\ pc[w] = "free"
  /\ status' = [status EXCEPT ![curr[w]] = "finished"]
  /\ Goto(w, "count")
  /\ UNCHANGED <<curr, arg, local_done, queue, all_done, counters, freed>>

\* Mutant: the batch is taken to be over one task too late.
LastOfBatchStrict == tasks_completed + 1 > tasks_submitted

\* The comparison made after the increment of tasks_completed.
LastOfBatch == tasks_completed + 1 >= tasks_submitted

CountTask(w) ==
  /\ pc[w] = "count"
  /\ tasks_completed' = tasks_completed + 1
  /\ local_done' = [local_done EXCEPT ![w] = @ \/ LastOfBatch]
  /\ Goto(w, IF local_done'[w] THEN "notify" ELSE "loop")
  /\ curr' = [curr EXCEPT ![w] = NoTask]
  /\ UNCHANGED <<arg, queue, all_done, tasks_submitted, status, freed>>

\* The broadcast after the unlock.
Notify(w) ==
  /\ pc[w] = "notify"
  /\ pc' = [Broadcast(pc, "asleep_batch", "wait") EXCEPT ![w] = "loop"]
  /\ UNCHANGED <<curr, arg, local_done, queue, all_done, counters, status, freed>>

-----------------------------------------------------------------------------
(* yatpool_put, called by a client or by the function of a running task    *)

ShuttingDown == \E c \in Clients : pc[c] \in {"destroy", "join"} \cup CleanUpLabels

\* Unless calls may overlap the shutdown, a client makes none during it.
MayCall(c) == pc[c] = "idle" /\ (Overlap \/ ~ShuttingDown)

Roots == Tasks \ UNION {Spawns[t] : t \in Tasks}

BeginPut(p, t) ==
  /\ status[t] = "fresh"
  /\ status' = [status EXCEPT ![t] = "pending"]
  /\ arg' = [arg EXCEPT ![p] = t]
  /\ Goto(p, "put")
  /\ UNCHANGED <<curr, local_done, queue, all_done, counters, freed>>

ClientPut(c) == MayCall(c) /\ \E t \in Roots : BeginPut(c, t)

TaskPut(w) == pc[w] = "run" /\ \E t \in Spawns[curr[w]] : BeginPut(w, t)

\* Where the caller of yatpool_put goes on.
AfterPut(p) == IF p \in Workers THEN "run" ELSE "idle"

\* The pool is shutting down: free the task and return false.
PutRefused(p) ==
  /\ pc[p] = "put"
  /\ all_done
  /\ status' = [status EXCEPT ![arg[p]] = "rejected"]
  /\ arg' = [arg EXCEPT ![p] = NoTask]
  /\ Goto(p, AfterPut(p))
  /\ UNCHANGED <<curr, local_done, queue, all_done, counters, freed>>

\* Past the check of all_done, which is made once and not after a wake-up.
PastCheck(p) == (pc[p] = "put" /\ ~all_done) \/ pc[p] = "put_woken"

\* Mutant: off by one.
QueueFullTooLate == Len(queue) > QueueSize

QueueFull == Len(queue) = QueueSize

PutSleep(p) ==
  /\ PastCheck(p)
  /\ QueueFull
  /\ Goto(p, "asleep_slot")
  /\ UNCHANGED <<curr, arg, local_done, queue, all_done, counters, status, freed>>

PutAccepted(p) ==
  /\ PastCheck(p)
  /\ ~QueueFull
  /\ queue' = Append(queue, arg[p])
  /\ status' = [status EXCEPT ![arg[p]] = "queued"]
  /\ arg' = [arg EXCEPT ![p] = NoTask]
  /\ tasks_submitted' = tasks_submitted + 1
  /\ pc' \in Signal([pc EXCEPT ![p] = AfterPut(p)], "asleep_queue", "loop")
  /\ UNCHANGED <<curr, local_done, all_done, tasks_completed, freed>>

-----------------------------------------------------------------------------
(* yatpool_wait                                                            *)

ClientWait(c) ==
  /\ MayCall(c)
  /\ Goto(c, "wait")
  /\ UNCHANGED <<curr, arg, local_done, queue, all_done, counters, status, freed>>

\* Mutant: off by one.
BatchDoneTooEarly == tasks_completed + 1 >= tasks_submitted

BatchDone == tasks_completed >= tasks_submitted

WaitSleep(c) ==
  /\ pc[c] = "wait"
  /\ ~BatchDone
  /\ Goto(c, "asleep_batch")
  /\ UNCHANGED <<curr, arg, local_done, queue, all_done, counters, status, freed>>

WaitReturns(c) ==
  /\ pc[c] = "wait"
  /\ BatchDone
  /\ tasks_completed' = 0
  /\ tasks_submitted' = 0
  /\ Goto(c, "idle")
  /\ UNCHANGED <<curr, arg, local_done, queue, all_done, status, freed>>

-----------------------------------------------------------------------------
(* yatpool_destroy                                                         *)

ClientDestroy(c) ==
  /\ MayCall(c)
  /\ Overlap \/ \A d \in Clients : pc[d] = "idle"
  /\ Goto(c, "destroy")
  /\ UNCHANGED <<curr, arg, local_done, queue, all_done, counters, status, freed>>

\* Another call is destroying the pool already: return false.
DestroyRefused(c) ==
  /\ pc[c] = "destroy"
  /\ all_done
  /\ Goto(c, "idle")
  /\ UNCHANGED <<curr, arg, local_done, queue, all_done, counters, status, freed>>

DestroyBegins(c) ==
  /\ pc[c] = "destroy"
  /\ ~all_done
  /\ all_done' = TRUE
  /\ pc' = [Broadcast(pc, "asleep_queue", "loop") EXCEPT ![c] = "join"]
  /\ UNCHANGED <<curr, arg, local_done, queue, counters, status, freed>>

\* Mutant: the join does not wait for what a worker does after its task.
WorkersNotRunning == \A w \in Workers : pc[w] # "run"

WorkersGone == \A w \in Workers : pc[w] = "exited"

WorkersJoined(c) ==
  /\ pc[c] = "join"
  /\ WorkersGone
  /\ Goto(c, "discard")
  /\ UNCHANGED <<curr, arg, local_done, queue, all_done, counters, status, freed>>

\* A task that is still queued is freed without being run.  The loop holds no
\* mutex, but it moves only the start of the ring and a put only its end.
DiscardTask(c) ==
  /\ pc[c] = "discard"
  /\ queue # <<>>
  /\ queue' = Tail(queue)
  /\ status' = [status EXCEPT ![Head(queue)] = "discarded"]
  /\ UNCHANGED <<pc, curr, arg, local_done, all_done, counters, freed>>

\* The loop ends at a moment when the queue is empty.
QueueEmptied(c) ==
  /\ pc[c] = "discard"
  /\ queue = <<>>
  /\ Goto(c, "destroy_slot")
  /\ UNCHANGED <<curr, arg, local_done, queue, all_done, counters, status, freed>>

\* pthread_cond_destroy with a thread still asleep on the condition is
\* undefined; here it does what glibc does, and waits until all have left.
\* (Nobody sleeps on cond_queue any more: its destruction changes nothing.)
SlotConditionDestroyed(c) ==
  /\ pc[c] = "destroy_slot"
  /\ At("asleep_slot") = {}
  /\ Goto(c, "destroy_batch")
  /\ UNCHANGED <<curr, arg, local_done, queue, all_done, counters, status, freed>>

BatchConditionDestroyed(c) ==
  /\ pc[c] = "destroy_batch"
  /\ At("asleep_batch") = {}
  /\ Goto(c, "release")
  /\ UNCHANGED <<curr, arg, local_done, queue, all_done, counters, status, freed>>

\* Nothing is looked at again: a task that was queued meanwhile is left in
\* the queue that is freed.
FreePool(c) ==
  /\ pc[c] = "release"
  /\ freed' = TRUE
  /\ Goto(c, "destroyed")
  /\ UNCHANGED <<curr, arg, local_done, queue, all_done, counters, status>>

CleanUp(c) ==
  \/ QueueEmptied(c) \/ SlotConditionDestroyed(c)
  \/ BatchConditionDestroyed(c) \/ FreePool(c)

-----------------------------------------------------------------------------

\* Where a thread that leaves pthread_cond_wait goes on.
Awake(l) ==
  CASE l = "asleep_queue" -> "loop"
    [] l = "asleep_slot"  -> "put_woken"
    [] l = "asleep_batch" -> "wait"

\* pthread_cond_wait may return although nobody signalled.
SpuriousWakeup(t) ==
  /\ pc[t] \in {"asleep_queue", "asleep_slot", "asleep_batch"}
  /\ Goto(t, Awake(pc[t]))
  /\ UNCHANGED <<curr, arg, local_done, queue, all_done, counters, status, freed>>

PutStep(p) == PutRefused(p) \/ PutSleep(p) \/ PutAccepted(p)

WorkerStep(w) ==
  \/ WorkerSleep(w) \/ WorkerExit(w) \/ WorkerTake(w)
  \/ TaskPut(w) \/ TaskReturns(w) \/ FreeTask(w)
  \/ CountTask(w) \/ Notify(w)

CallStep(c) ==
  \/ WaitSleep(c) \/ WaitReturns(c)
  \/ DestroyRefused(c) \/ DestroyBegins(c)
  \/ WorkersJoined(c) \/ DiscardTask(c) \/ CleanUp(c)

NewCall(c) == ClientPut(c) \/ ClientWait(c) \/ ClientDestroy(c)

\* Nothing the program does after the pool is freed is described.
Terminated == freed /\ UNCHANGED vars

Next ==
  \/ /\ ~freed
     /\ \/ \E w \in Workers : WorkerStep(w)
        \/ \E c \in Clients : NewCall(c) \/ CallStep(c)
        \/ \E t \in Threads : PutStep(t) \/ SpuriousWakeup(t)
  \/ Terminated

Spec == Init /\ [][Next]_vars

\* Every thread that can go on does so, task functions return, and the mutex
\* starves nobody.  Clients need not call anything; no wake-up is promised
\* beyond those the code signals.
Fairness ==
  /\ \A w \in Workers : WF_vars(~freed /\ (WorkerStep(w) \/ PutStep(w)))
  /\ \A c \in Clients : WF_vars(~freed /\ (CallStep(c) \/ PutStep(c)))

FairSpec == Spec /\ Fairness

-----------------------------------------------------------------------------
(* Safety                                                                  *)

Statuses ==
  { "fresh", "pending", "queued", "running", "executed", "finished",
    "rejected", "discarded" }

(* Workers and clients are only ever where their own code can be, the      *)
(* queue never holds more than QueueSize tasks and the counters stay       *)
(* natural numbers.                                                        *)
TypeOK ==
  /\ pc \in [Threads -> WorkerLabels \cup PutLabels \cup ClientLabels]
  /\ \A w \in Workers : pc[w] \in WorkerLabels \cup PutLabels
  /\ \A c \in Clients : pc[c] \in ClientLabels \cup PutLabels
  /\ curr \in [Workers -> Tasks \cup {NoTask}]
  /\ arg \in [Threads -> Tasks \cup {NoTask}]
  /\ local_done \in [Workers -> BOOLEAN]
  /\ queue \in Seq(Tasks) /\ Len(queue) <= QueueSize
  /\ all_done \in BOOLEAN
  /\ tasks_completed \in Nat
  /\ tasks_submitted \in Nat
  /\ status \in [Tasks -> Statuses]
  /\ freed \in BOOLEAN

\* The workers that took a task and have not counted it yet.
Busy == {w \in Workers : curr[w] # NoTask}

(* However puts, completions and the resets of yatpool_wait interleave,    *)
(* the two counters differ by the tasks that are queued or held by a       *)
(* worker: no completion is lost to a reset and none leaks into the next   *)
(* batch (src/src/yatpool.c:177, :283, :302).  Only tasks discarded by     *)
(* yatpool_destroy are never counted.                                      *)
Uncounted == Len(queue) + Cardinality(Busy)

Accounting ==
  /\ tasks_submitted >= tasks_completed + Uncounted
  /\ \/ tasks_submitted = tasks_completed + Uncounted
     \/ \E t \in Tasks : status[t] = "discarded"

\* A task some yatpool_put is about to queue.
InPut ==
  /\ \A p \in Threads : arg[p] # NoTask => status[arg[p]] = "pending"
  /\ \A p, q \in Threads : arg[p] # NoTask /\ arg[p] = arg[q] => p = q
  /\ \A t \in Tasks : status[t] = "pending" => \E p \in Threads : arg[p] = t

\* A task in a slot of the queue.
InQueue ==
  /\ \A i \in DOMAIN queue : status[queue[i]] = "queued"
  /\ \A i, j \in DOMAIN queue : queue[i] = queue[j] => i = j
  /\ \A t \in Tasks : status[t] = "queued" => \E i \in DOMAIN queue : queue[i] = t

\* A task in the hands of a worker.
InWorker ==
  /\ \A w \in Workers :
       curr[w] # NoTask =>
         status[curr[w]] = CASE pc[w] = "free"  -> "executed"
                             [] pc[w] = "count" -> "finished"
                             [] OTHER           -> "running"
  /\ \A v, w \in Workers : curr[v] # NoTask /\ curr[v] = curr[w] => v = w
  /\ \A t \in Tasks :
       status[t] \in {"running", "executed"} => \E w \in Workers : curr[w] = t

(* A Task has one owner at a time: the put that allocated it, one slot of  *)
(* the queue, or one worker.  No task is run twice, lost, or freed while   *)
(* somebody still points to it.                                            *)
OneOwner == InPut /\ InQueue /\ InWorker

(* No wake-up is lost on cond_queue: while a worker sleeps there, each     *)
(* queued task has a worker of its own that is already on its way to the   *)
(* queue; and once the pool is shutting down no worker sleeps.             *)
NoTaskWithoutWorker ==
  At("asleep_queue") # {} =>
    /\ ~all_done
    /\ Len(queue) <= Cardinality(At("loop"))

(* No wake-up is lost on cond_slot_available: while a put sleeps there,    *)
(* each free slot of the queue has a woken put on its way to it.  The      *)
(* clean-up of yatpool_destroy, which empties the queue and signals        *)
(* nobody, is the exception.                                               *)
NoSlotWithoutPut ==
  At("asleep_slot") # {} /\ (\A c \in Clients : pc[c] \notin CleanUpLabels) =>
    QueueSize - Len(queue) <= Cardinality(At("put_woken"))

(* No wake-up is lost on cond_curr_batch_done, although the broadcast is   *)
(* made after the mutex is released: while a yatpool_wait sleeps, either   *)
(* its batch is unfinished or a worker is about to broadcast.              *)
NoWaiterForgotten ==
  At("asleep_batch") # {} => ~BatchDone \/ At("notify") # {}

(* The pool is freed only when no worker can touch it any more, not even   *)
(* for the broadcast a worker makes after unlocking; and, when clients     *)
(* make no call during the shutdown, when nobody else is inside a call.    *)
FreedWhenQuiet ==
  freed => /\ \A w \in Workers : pc[w] = "exited"
           /\ Overlap \/ \A c \in Clients : pc[c] \in {"idle", "destroyed"}

(* When yatpool_destroy has freed the pool, every task whose put was       *)
(* accepted has run to completion: the loop that frees "remaining not done *)
(* tasks" finds none (src/src/yatpool.c:339), unless calls overlap the     *)
(* shutdown.                                                               *)
DestroyRunsEverything ==
  freed /\ ~Overlap =>
    \A t \in Tasks : status[t] \in {"fresh", "rejected", "finished"}

(* yatpool_wait returns only at a moment when every task accepted so far,  *)
(* by whichever thread, has run and been freed.                            *)
WaitIsBarrier ==
  [][\A c \in Clients : pc[c] = "wait" /\ pc'[c] = "idle" =>
       \A t \in Tasks : status[t] \notin {"queued", "running", "executed"}]_vars

-----------------------------------------------------------------------------
(* Liveness, under FairSpec                                                *)

(* Every accepted task eventually runs to completion.                      *)
AcceptedTasksFinish ==
  \A t \in Tasks : status[t] = "queued" ~> status[t] = "finished"

(* A task accepted before the shutdown began runs to completion even when  *)
(* calls overlap the shutdown: what yatpool_destroy discards can only be   *)
(* the task of a put that it overlapped.  (For tasks that submit nothing:  *)
(* a task function that is itself blocked in yatpool_put when the other    *)
(* workers leave can be kept there for ever by a late put.)                *)
EarlyTasksFinish ==
  \A t \in Tasks :
    status[t] = "queued" /\ ~all_done ~> status[t] = "finished"

(* Every yatpool_put returns, however long the queue was full, and every   *)
(* yatpool_wait returns, given that only finitely many tasks are           *)
(* submitted.                                                              *)
PutAndWaitReturn ==
  \A c \in Clients : pc[c] \in PutLabels \cup {"wait", "asleep_batch"}
                       ~> pc[c] = "idle"

(* yatpool_destroy returns, having freed the pool.  (When no call overlaps *)
(* it: see the next property.)                                             *)
DestroyReturns == (\E c \in Clients : pc[c] = "destroy") ~> freed

\* A yatpool_destroy is held up by the sleepers of a condition it destroys.
HeldUp ==
  \/ At("destroy_slot") # {} /\ At("asleep_slot") # {}
  \/ At("destroy_batch") # {} /\ At("asleep_batch") # {}

(* When calls overlap the shutdown, a put or a wait may sleep on with no   *)
(* worker left to wake it, and yatpool_destroy then never returns.  That   *)
(* is all that can keep it: it returns unless, again and again, somebody   *)
(* sleeps on a condition it is about to destroy.  (For tasks that submit   *)
(* nothing, as above.)                                                     *)
DestroyReturnsUnlessHeldUp ==
  (\E c \in Clients : pc[c] = "destroy") ~> (freed \/ []<>HeldUp)

-----------------------------------------------------------------------------

Contract ==
  INSTANCE PoolContract WITH
    Task     <- Tasks,
    Client   <- Clients,
    Slots    <- QueueSize,
    Width    <- Cardinality(Workers),
    MayDrop  <- Overlap,
    accepted <- {t \in Tasks : status[t] \notin {"fresh", "pending", "rejected"}},
    backlog  <- queue,
    active   <- {curr[w] : w \in Busy},
    finished <- {t \in Tasks : status[t] = "finished"
                                /\ \A w \in Workers : curr[w] # t},
    waiting  <- At("wait") \cup At("asleep_batch"),
    closed   <- all_done,
    gone     <- freed

(* The pool does what its callers rely on: each accepted task starts once  *)
(* and in order, yatpool_wait is a barrier, and yatpool_destroy frees the  *)
(* pool after the last task.                                               *)
ImplementsContract == Contract!Spec
=============================================================================
